------------------------------- MODULE Logging -------------------------------
(***************************************************************************)
(* How a record becomes lines: the three loggers with their handlers, the  *)
(* filter that takes credentials out and the formatter.  A text is the     *)
(* sequence of its words; "SECRET" stands for a credential, after a word   *)
(* that tells what it is.  These are the words SENSITIVE_PATTERNS looks    *)
(* for: another scheme after `Authorization:`, a dict written out with its *)
(* quotes or a name that ends in one of them hides a credential from it.   *)
(***************************************************************************)
EXTENDS Naturals, Sequences

Services == {"network-defender-sensor", "network-defender-api"}
Loggers == {"application", "security", "audit"}
Redacted == "***"
MaxDepth == 6     \* redaction.MAX_DEPTH

Messages ==
    {<<"plain">>,
     <<"Bearer", "SECRET">>,
     <<"Authorization:", "Bearer", "SECRET">>,
     <<"api_key=", "SECRET", "plain">>,
     <<"scheme://user:", "SECRET", "@host">>}

(* A field of extra=: a text, nested in `depth` lists or dicts, the key of *)
(* one of which may be sensitive (0 is the field itself), or none.         *)
Nowhere == MaxDepth + 1

Extras ==
    {e \in [text : Messages, depth : {0, 1, MaxDepth - 1, MaxDepth},
            sensitive : {0, 1, MaxDepth, Nowhere}] : e.sensitive \in 0 .. e.depth \cup {Nowhere}}
      \cup [text : {<<"SECRET">>}, depth : {1, MaxDepth}, sensitive : {0, 1}]

Records ==
    [logger : Loggers, message : Messages, error : Messages, extra : Extras,
     service : {"none", "provider"}]     \* a service= among the extras

NoRecord ==
    [logger |-> "application", message |-> <<"plain">>, error |-> <<"plain">>,
     extra |-> [text |-> <<"plain">>, depth |-> 0, sensitive |-> Nowhere], service |-> "none"]

VARIABLES
    settings,     \* logging_config.json: "absent", "broken" or "files"
    process,      \* what the process calls itself
    setups,       \* calls of setup_logging so far
    handlers,     \* logger -> its handlers; <<>> before the first setup
    service,      \* the service its formatters name
    record, written    \* the last record, and the lines it became

logging == <<settings, process, setups, handlers, service, record, written>>

LoggingInit ==
    /\ settings \in {"absent", "broken", "files"} /\ process \in Services
    /\ setups = 0
    /\ handlers = [l \in Loggers |-> <<>>] /\ service = "none"
    /\ record = NoRecord /\ written = <<>>

----------------------------------------------------------------------------
(* Files are opt-in; a file nobody can read is as good as none.            *)
HandlersOf(logger) == IF settings = "files" THEN <<"console", logger>> ELSE <<"console">>

(* setup_logging: the first call counts.  A sensor that is started again   *)
(* calls it again.                                                         *)
SetupLogging ==
    /\ setups < 2
    /\ setups' = setups + 1
    /\ IF setups > 0 THEN UNCHANGED <<handlers, service>>
       ELSE handlers' = [l \in Loggers |-> HandlersOf(l)] /\ service' = process
    /\ UNCHANGED <<settings, process, record, written>>

(* Each pattern takes the word after the one it knows.                     *)
After(text, words) ==
    [i \in DOMAIN text |-> IF i > 1 /\ text[i - 1] \in words THEN Redacted ELSE text[i]]

(* redact_text: the Bearer pattern comes first, or its word would be taken *)
(* for the credential.                                                     *)
RedactText(text) ==
    After(After(After(text, {"Bearer"}), {"scheme://user:"}), {"Authorization:", "api_key="})

(* redact_value: at the depth limit a value is left as it is.              *)
RedactExtra(extra) ==
    IF extra.sensitive <= MaxDepth THEN <<Redacted>>
    ELSE IF extra.depth < MaxDepth THEN RedactText(extra.text)
    ELSE extra.text

(* The filter and the formatter of one handler.  The traceback is rendered *)
(* after the filter, and redacted then; fields of the caller's own come    *)
(* last and replace what has their name.                                   *)
Format(r, handler) ==
    [to |-> handler,
     message |-> RedactText(r.message), error |-> RedactText(r.error),
     extra |-> RedactExtra(r.extra),
     service |-> IF r.service # "none" THEN r.service ELSE service]

(* No stream hands its records up to another.                              *)
WriteRecord ==
    /\ setups > 0 /\ written = <<>>    \* one is enough: it leaves no trace in the loggers
    /\ record' \in Records
    /\ written' = [i \in DOMAIN handlers[record'.logger] |-> Format(record', handlers[record'.logger][i])]
    /\ UNCHANGED <<settings, process, setups, handlers, service>>

LoggingNext == SetupLogging \/ WriteRecord

----------------------------------------------------------------------------
SecretIn(text) == \E i \in DOMAIN text : text[i] = "SECRET"

(* A record is one line on the console, and one in the file of its own     *)
(* stream if there are files, however often logging was set up; no line    *)
(* shows a credential that a word of SENSITIVE_PATTERNS precedes, but one  *)
(* nested deeper than the limit; and it names the process, unless the      *)
(* caller has a field of that name.                                        *)
LogsAreClean ==
    written # <<>> =>
      /\ [i \in DOMAIN written |-> written[i].to]
           = IF settings = "files" THEN <<"console", record.logger>> ELSE <<"console">>
      /\ \A i \in DOMAIN written :
           LET line == written[i]
           IN  /\ ~SecretIn(line.message) /\ ~SecretIn(line.error)
               /\ SecretIn(line.extra) => record.extra.depth >= MaxDepth
               /\ record.service = "none" => line.service = process
=============================================================================
