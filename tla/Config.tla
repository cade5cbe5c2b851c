------------------------------- MODULE Config -------------------------------
(***************************************************************************)
(* config.c: the server reads its settings, each search going on from the  *)
(* line after the one the previous setting was found at.  A line is its    *)
(* first word and the number or name that follows "="; the socket's name   *)
(* is a number here too.                                                   *)
(***************************************************************************)
EXTENDS Integers, Sequences

CONSTANTS
    Configs,     \* the files there may be: sequences of [key, value]
    NoValue      \* nothing after "="; a setting that is not set

ASSUME ConfigAssumption ==
    /\ NoValue \notin Int
    /\ \A file \in Configs : file \in Seq([key : STRING, value : Int \cup {NoValue}])

VARIABLES
    config,      \* the file
    line,        \* the next line fgets reads
    setting,     \* the setting configGetAll is at
    settings,    \* the c_* variables, in the unit the file gives them in
    loading      \* "reading", "loaded", "refused" (-1), "crashed" (NULL used)

configVars == <<config, line, setting, settings, loading>>

Keys == <<"memory_size", "page_size", "file_max", "file_hash_tb_size", "worker_threads", "socket_name">>

ConfigStart(file) ==
    /\ config = file
    /\ line = 1 /\ setting = 1
    /\ settings = [k \in DOMAIN Keys |-> NoValue]
    /\ loading = "reading"

ConfigInit == \E file \in Configs : ConfigStart(file)

(* The sizes are multiplied as 32-bit integers: those of MB and of KB that  *)
(* do not fit come round.                                                  *)
half(k) == IF Keys[k] = "memory_size" THEN 2048 ELSE 2097152
wrapped(v, h) == ((v + h) % (2 * h)) - h
Unit(k, v) == IF Keys[k] \in {"memory_size", "page_size"} THEN wrapped(v, half(k)) ELSE v

matches == config[line].key = Keys[setting]
fromTheStart == 1                               \* mutant: every search starts over
afterFound == line + 1

(* configGetToken goes on to the next line.                                *)
NextLine ==
    /\ line <= Len(config) /\ ~matches
    /\ line' = line + 1
    /\ UNCHANGED <<setting, settings, loading>>

(* It finds the setting, and configGetAll stores it.                       *)
Found ==
    /\ line <= Len(config) /\ matches
    /\ LET v == config[line].value
       IN  IF v = NoValue
           THEN loading' = "crashed" /\ UNCHANGED <<line, setting, settings>>
           ELSE /\ settings' = [settings EXCEPT ![setting] = Unit(setting, v)]
                /\ line' = afterFound
                /\ setting' = setting + 1
                /\ loading' = IF Keys[setting] = "socket_name" THEN "loaded"
                              ELSE IF Unit(setting, v) = 0 THEN "refused" ELSE "reading"

(* It runs out of lines: atoi(NULL), or, in main, strncpy from NULL.       *)
EndOfFile ==
    /\ line > Len(config)
    /\ loading' = "crashed"
    /\ UNCHANGED <<line, setting, settings>>

configGetAll ==
    /\ loading = "reading"
    /\ NextLine \/ Found \/ EndOfFile
    /\ UNCHANGED config

ConfigSpec == ConfigInit /\ [][configGetAll]_configVars

-----------------------------------------------------------------------------

(* Lines that give every setting, in the order configGetAll asks for them. *)
Given(k) == { n \in DOMAIN config : config[n].key = Keys[k] }
Readings ==
    { at \in Given(1) \X Given(2) \X Given(3) \X Given(4) \X Given(5) \X Given(6) :
        \A k \in 1 .. 5 : at[k] < at[k + 1] }

(* The server comes up only with a file that gives all six settings in     *)
(* the order of configGetAll (config.c:46-62), and then each has the value *)
(* of one of its lines.  With one line for each it does come up, unless a  *)
(* value is missing or its bytes come to zero.  A size is what the file    *)
(* says, unless its bytes are no int (config.c:46, 50: the product is int).*)
LoadedAsWritten ==
    /\ loading = "loaded" => \E at \in Readings : \A k \in DOMAIN Keys : settings[k] = Unit(k, config[at[k]].value)
    /\ (loading \notin {"loaded", "reading"} /\ Len(config) = Len(Keys) /\ Readings # {}) =>
          \E k \in DOMAIN Keys : config[k].value = NoValue \/ Unit(k, config[k].value) = 0
    /\ \A k \in {1, 2} :
          settings[k] # NoValue =>
              \E n \in DOMAIN config :
                  /\ config[n].key = Keys[k] /\ config[n].value # NoValue
                  /\ settings[k] = config[n].value \/ config[n].value \notin -half(k) .. half(k) - 1

=============================================================================
