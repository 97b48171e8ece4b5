----------------------------- MODULE PacketPath -----------------------------
(***************************************************************************)
(* The path of a packet, one part at a time: the capture that admits it,   *)
(* the parser that reads it, the rules it is held against and the detector *)
(* that counts it.  The parts share no state, a packet goes from one to    *)
(* the next; a behaviour is one of the chosen part, on samples of what the *)
(* part before it hands on.                                                *)
(***************************************************************************)
EXTENDS Capture, Detectors

CONSTANTS
    ParsedFrames,   \* frames the parser is asked to read
    Rules, Parsed   \* rules of the files, and packets they are held against

(* A field that was read is not the absent one.                            *)
ASSUME FramesAssumption ==
    \A f \in ParsedFrames :
      None \notin {[query_name |-> Named(f.qname), record_type |-> f.qtype],
                  [path |-> Named(f.path), host |-> Named(f.host)], TlsMetadata(f)}

VARIABLES
    part,        \* the part this behaviour is about
    frameRead,   \* the frame the parser has been given
    ruleHeld, packetHeld    \* a rule of the directory and a packet

reading == <<frameRead, ruleHeld, packetHeld>>
pathVars == <<part, reading, vars, detecting>>

Matching == INSTANCE RuleMatching

PathInit ==
    /\ part \in {"capture", "parser", "rules", "detection"}
    /\ frameRead = None /\ ruleHeld = None /\ packetHeld = None
    /\ Init /\ (part # "capture" => filter = CHOOSE f \in Filters : TRUE)
    /\ DetectorsInit /\ (part # "detection" => detector = "SynFlood")

ReadFrame ==
    /\ part = "parser"
    /\ frameRead' \in ParsedFrames
    /\ UNCHANGED <<part, ruleHeld, packetHeld, vars, detecting>>

(* The loader refuses a rule that is not valid.                            *)
HoldAgainst ==
    /\ part = "rules"
    /\ \/ ruleHeld' \in {r \in Rules : Matching!ValidRule(r)} /\ packetHeld' = None
       \/ ruleHeld # None /\ packetHeld' \in Parsed /\ UNCHANGED ruleHeld
    /\ UNCHANGED <<part, frameRead, vars, detecting>>

Capturing ==
    /\ part = "capture"
    /\ Next
    /\ UNCHANGED <<part, reading, detecting>>

Detecting ==
    /\ part = "detection"
    /\ DetectorsNext
    /\ UNCHANGED <<part, reading, vars>>

PathNext == ReadFrame \/ HoldAgainst \/ Capturing \/ Detecting

PathSpec == PathInit /\ [][PathNext]_pathVars

----------------------------------------------------------------------------
(* The parser and the one-line summary tell the same of a frame, and no    *)
(* name is read out of the bytes around it, however the frame is cut off.  *)
ReadersAgree == frameRead # None => ReadAlikeIn(frameRead) /\ SniIsAskedIn(frameRead)

(* A rule raises an alert, or counts a packet, only on what the packet     *)
(* says: every field it names is there, two values are ordered only within *)
(* one type, and an operator nobody knows never holds.                     *)
RulesNeedTheirFields ==
    ruleHeld # None /\ packetHeld # None =>
      LET fires == Matching!Immediate(packetHeld, {ruleHeld})
                     \cup Matching!Counted(packetHeld, {ruleHeld})
      IN  \A r \in fires : \A c \in r.conditions :
            /\ c.field.name \in DOMAIN packetHeld /\ ~c.field.private
            /\ c.operator \in Matching!Operators
            /\ c.operator \in {"greater_than", "less_than"} =>
                 packetHeld[c.field.name].type = c.value.type

(* Nothing is reported that no packet shows: the detectors' alerts and the *)
(* rules' matches alike.                                                   *)
EvidenceIsThere == AlertsAreBacked /\ RulesNeedTheirFields
=============================================================================
