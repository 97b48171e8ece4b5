------------------------------- MODULE Plugins -------------------------------
(***************************************************************************)
(* Which detectors a sensor runs: the built-in modules and those of        *)
(* plugins, found by entry point or by configuration, each class with its  *)
(* section of detectors.json.  A class is [name, module, form], its form   *)
(* saying whether its constructor can be used.  The order in which modules *)
(* are found "decides nothing", so a detector of the registry is known by  *)
(* the load that took it, its route and the place its class was seen at.   *)
(***************************************************************************)
EXTENDS Naturals

CONSTANTS
    Impl,         \* modules of detectors.impl
    Installed,    \* modules that entry points may name
    Configurable, \* modules that detector_modules may list
    ClassesIn,    \* module -> its classes, in the order of their names;
                  \* those it imports from another module are among them
    Unloadable    \* modules whose import may raise

(* Where a scan of modules comes upon a class: <<module, n>>.              *)
Places == UNION {{m} \X DOMAIN ClassesIn[m] : m \in DOMAIN ClassesIn}

ClassAt(p) == ClassesIn[p[1]][p[2]]

Forms == {"usable", "untyped", "abstract", "raises"}

ASSUME ClassesAssumption == \A p \in Places : ClassAt(p).form \in Forms

(* What detectors.json says to a class: nothing, numbers its config takes, *)
(* enabled: false, or something its config refuses.                        *)
Sections == {"absent", "valid", "disabled", "refused"}

(* The ways to a module: the package, an entry point, the configuration.   *)
Routes == {"builtin", "entry", "listed"}

VARIABLES
    sections,     \* name -> its section
    entries,      \* modules the entry points name
    listed,       \* detection.detector_modules
    broken,       \* modules that do not import
    detectors,    \* registry.detectors: <<load, route, place>>
    loads         \* calls of load_detectors so far

plugins == <<sections, entries, listed, broken, detectors, loads>>

PluginsInit ==
    /\ sections \in [{ClassAt(p).name : p \in Places} -> Sections]
    /\ entries \in SUBSET Installed /\ listed \in SUBSET Configurable
    /\ broken \in SUBSET Unloadable
    /\ detectors = {} /\ loads = 0

----------------------------------------------------------------------------
(* The modules that import: each, whatever becomes of the others.          *)
Importable(modules) == modules \ broken

(* discover_modules: what no entry point named comes by the configuration. *)
DiscoverModules ==
    ({"entry"} \X Importable(entries)) \cup ({"listed"} \X Importable(listed \ entries))

(* resolve_config_class and build_config: no config for a constructor      *)
(* without a typed `config`, for a section the config refuses, or for a    *)
(* disabled one.                                                           *)
BuildConfig(class) ==
    class.form # "untyped" /\ sections[class.name] \in {"absent", "valid"}

(* _register_module with _register_detector_class.                         *)
Registered(modules, reserved) ==
    {d \in {loads + 1} \X Routes \X Places :
        LET class == ClassAt(d[3])
        IN  /\ <<d[2], d[3][1]>> \in modules
            /\ class.form # "abstract" /\ class.name \notin reserved
            /\ BuildConfig(class) /\ class.form # "raises"}

(* load_detectors, at every start: a plugin may not have the name of a     *)
(* built-in that was loaded.                                               *)
LoadDetectors ==
    LET builtin == Registered({"builtin"} \X Importable(Impl), {})
        taken == {ClassAt(d[3]).name : d \in builtin}
    IN  /\ loads < 2
        /\ loads' = loads + 1
        /\ detectors' = builtin \cup Registered(DiscoverModules, taken)
        /\ UNCHANGED <<sections, entries, listed, broken>>

----------------------------------------------------------------------------
PluginsTypeOK ==
    /\ sections \in [{ClassAt(p).name : p \in Places} -> Sections]
    /\ entries \subseteq Installed /\ listed \subseteq Configurable
    /\ broken \subseteq Unloadable
    /\ detectors \subseteq (1 .. 2) \X Routes \X Places
    /\ loads \in 0 .. 2

Fine(c) == c.form = "usable" /\ sections[c.name] \in {"absent", "valid"}

(* The places where modules that are found, and import, show class c.      *)
Showing(c, modules) == {p \in Places : p[1] \in modules \ broken /\ ClassAt(p) = c}

(* A built-in that is fine has the name of c, and no built-in module shows *)
(* c itself.                                                               *)
Shadowed(c) ==
    /\ Showing(c, Impl) = {}
    /\ \E p \in Places : /\ p[1] \in Impl \ broken /\ ClassAt(p).name = c.name
                         /\ Fine(ClassAt(p))

(* "Every failure here is contained to one detector": whatever the others  *)
(* are, a detector whose module imports, whose constructor works and whose *)
(* section is in order runs, and nothing else does.  A plugin's class of a *)
(* name that a loaded built-in has does not; and no place is the source of *)
(* two detectors, though a built-in module may be listed as a plugin,      *)
(* entry points and configuration may name the same one, and the detectors *)
(* are loaded again at a restart.                                          *)
DetectorsStandAlone ==
    loads > 0 =>
      \A c \in {ClassAt(p) : p \in Places} :
        LET running == {d \in detectors : ClassAt(d[3]) = c}
        IN  IF ~ Fine(c) \/ Showing(c, Impl \cup entries \cup listed) = {} \/ Shadowed(c)
            THEN running = {}
            ELSE running # {} /\ \A d, e \in running : d # e => d[3] # e[3]
=============================================================================
