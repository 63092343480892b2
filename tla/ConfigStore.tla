------------------------------ MODULE ConfigStore ------------------------------
(***************************************************************************)
(* The configuration of the node engine: the store in memory and its file  *)
(* config.json (config/store.ts, config/config.ts), PUT /api/config        *)
(* (http/settings.ts), and the region that connect() records in it.        *)
(*                                                                         *)
(* A PUT reads the store before it waits for its body, so other handlers   *)
(* run in between.  A save writes a temporary file and renames it: it      *)
(* succeeds, fails without touching config.json, or is cut by the death of *)
(* the process.  The operator may edit config.json while the process is    *)
(* down.                                                                   *)
(*                                                                         *)
(* Bounds: each request of Put is sent once; MaxCrashes and MaxEdits cap   *)
(* the crashes and the edits by hand.                                      *)
(***************************************************************************)
EXTENDS Naturals

CONSTANTS
  Put,         (* PUT /api/config                                          *)
  Field,       (* settings, one of which is the region                     *)
  RegionField,
  Value,       (* values that pass inspect()                               *)
  Default,     (* defaultConfig()                                          *)
  Missing,     (* a setting that a file or a body does not mention         *)
  Bad,         (* a value inspect() reports                                *)
  Misshapen,   (* one it cannot even look at, such as excludePaths: [1]    *)
  NoFile,
  Unreadable,  (* a file the process may not read                          *)
  Garbage,     (* texts that are no JSON object                            *)
  Body,        (* what a PUT may carry                                     *)
  Edit,        (* what the operator may leave in config.json               *)
  MaxCrashes,
  MaxEdits

Config == [Field -> Value]
Stored == [Field -> Value \cup {Missing, Bad, Misshapen}]
Content == Stored \cup Garbage \cup {NoFile, Unreadable}

ASSUME ConfigAssumption ==
  /\ RegionField \in Field
  /\ Default \in Config
  /\ {Missing, Bad, Misshapen} \cap Value = {}
  /\ NoFile # Unreadable
  /\ {NoFile, Unreadable} \cap (Stored \cup Garbage) = {}
  /\ Garbage \cap Stored = {}
  /\ Body \subseteq [Field -> Value \cup {Missing, Bad}]
  /\ Edit \subseteq Content
  /\ MaxCrashes \in Nat
  /\ MaxEdits \in Nat

VARIABLES
  phase,       (* "down", "up", or "failed": the process did not start     *)
  memory,      (* ConfigStore.cfg                                          *)
  file,        (* config.json                                              *)
  bak,         (* config.json.bak                                          *)
  pc,          (* where each PUT stands                                    *)
  base,        (* the config each PUT read before its body arrived         *)
  body,        (* the body of each PUT                                     *)
  broken,      (* history: the last save of this process failed            *)
  stuck,       (* history: this process could not put a file aside         *)
  promised,    (* history: configs a restart may come back to; none after  *)
               (* an edit by hand                                          *)
  crashes,
  edits

vars == <<phase, memory, file, bak, pc, base, body, broken, stuck, promised,
          crashes, edits>>

Init ==
  /\ phase = "down"
  /\ memory = Default
  /\ file \in Edit
  /\ bak = NoFile
  /\ pc = [r \in Put |-> "idle"]
  /\ base = [r \in Put |-> Default]
  /\ body \in [Put -> Body]
  /\ broken = FALSE
  /\ stuck = FALSE
  /\ promised = {}
  /\ crashes = 0
  /\ edits = 0

\* mergeStored: what a body or a file mentions goes over what was there.
Merge(c, part) == [f \in Field |-> IF part[f] = Missing THEN c[f] ELSE part[f]]

\* inspect() reports nothing.
Usable(c) == \A f \in Field : c[f] \in Value

\* The config a text of config.json stands for: a setting it lacks, or whose
\* value inspect() reports, is at its default.
Loaded(t) ==
  IF t \in Stored
  THEN [f \in Field |-> IF t[f] \in Value THEN t[f] ELSE Default[f]]
  ELSE Default

\* The start ends in an exception: the file cannot be read, or fillDefaults
\* trips over a value of an unexpected shape.
Fatal(t) == t = Unreadable \/ (t \in Stored /\ \E f \in Field : t[f] = Misshapen)

\* Mutant: the defaults are taken and the file is left where it is.
LoadStartsOver ==
  /\ phase = "down"
  /\ phase' = IF Fatal(file) THEN "failed" ELSE "up"
  /\ memory' = Loaded(file)
  /\ promised' = IF Fatal(file) THEN promised ELSE {Loaded(file)}
  /\ broken' = FALSE
  /\ stuck' = FALSE
  /\ UNCHANGED <<file, bak, pc, base, body, crashes, edits>>

\* ConfigStore.load.  A text that is no JSON object is renamed to .bak, if that
\* works, over whatever was there.
Load ==
  /\ phase = "down"
  /\ broken' = FALSE
  /\ \/ /\ Fatal(file)
        /\ phase' = "failed"
        /\ stuck' = FALSE
        /\ UNCHANGED <<memory, file, bak, promised>>
     \/ /\ ~Fatal(file)
        /\ phase' = "up"
        /\ memory' = Loaded(file)
        /\ promised' = {memory'}
        /\ \/ file \notin Garbage /\ stuck' = FALSE /\ UNCHANGED <<file, bak>>
           \/ file \in Garbage /\ stuck' = FALSE /\ file' = NoFile /\ bak' = file
           \/ file \in Garbage /\ stuck' = TRUE /\ UNCHANGED <<file, bak>>
  /\ UNCHANGED <<pc, base, body, crashes, edits>>

\* The process is gone: its memory and its requests with it.
Dies ==
  /\ crashes < MaxCrashes
  /\ crashes' = crashes + 1
  /\ phase' = "down"
  /\ memory' = Default
  /\ pc' = [r \in Put |-> IF pc[r] = "reading" THEN "lost" ELSE pc[r]]
  /\ broken' = FALSE

\* Mutant: config.json is rewritten in place.
SaveCutInPlace(c) ==
  /\ Dies
  /\ file' \in {file, c} \cup Garbage
  /\ promised' = promised \cup {c}

\* save() is cut by the death of the process, before or after the rename.
SaveCut(c) ==
  /\ Dies
  /\ file' \in {file, c}
  /\ promised' = promised \cup {c}

\* save() runs to its end.
SaveEnds(c) ==
  /\ memory' = c
  /\ file' = c
  /\ promised' = {c}
  /\ broken' = FALSE
  /\ UNCHANGED <<phase, crashes>>

\* save() throws: the memory has changed already.
SaveFails(c) ==
  /\ memory' = c
  /\ broken' = TRUE
  /\ UNCHANGED <<phase, file, promised, crashes>>

\* handlePutConfig reads the store and waits for its body.
PutReads(r) ==
  /\ phase = "up" /\ pc[r] = "idle"
  /\ pc' = [pc EXCEPT ![r] = "reading"]
  /\ base' = [base EXCEPT ![r] = memory]
  /\ UNCHANGED <<phase, memory, file, bak, body, broken, stuck, promised, crashes, edits>>

\* The body does not arrive or is no JSON object, names a field nobody knows, or
\* does not pass validateConfig: 400, and nothing has changed.
PutRefused(r) ==
  /\ phase = "up" /\ pc[r] = "reading"
  /\ pc' = [pc EXCEPT ![r] = "refused"]
  /\ UNCHANGED <<phase, memory, file, bak, base, body, broken, stuck, promised, crashes, edits>>

\* Mutant: the memory is set and the file is forgotten.
PutMemoryOnly(r) ==
  /\ phase = "up" /\ pc[r] = "reading"
  /\ Usable(Merge(base[r], body[r]))
  /\ memory' = Merge(base[r], body[r])
  /\ pc' = [pc EXCEPT ![r] = "ok"]
  /\ UNCHANGED <<phase, file, bak, base, body, broken, stuck, promised, crashes, edits>>

\* The body is there: merge it over the config read before, and set it.
PutSets(r) ==
  /\ phase = "up" /\ pc[r] = "reading"
  /\ LET c == Merge(base[r], body[r]) IN
       /\ Usable(c)
       /\ \/ SaveEnds(c) /\ pc' = [pc EXCEPT ![r] = "ok"]
          \/ SaveFails(c) /\ pc' = [pc EXCEPT ![r] = "refused"]
          \/ SaveCut(c)
  /\ UNCHANGED <<bak, base, body, stuck, edits>>

\* connect() records the region of the credentials; a failing save is logged.
RecordRegion(v) ==
  /\ phase = "up" /\ memory[RegionField] # v
  /\ LET c == [memory EXCEPT ![RegionField] = v] IN
       \/ (SaveEnds(c) \/ SaveFails(c)) /\ UNCHANGED pc
       \/ SaveCut(c)
  /\ UNCHANGED <<bak, base, body, stuck, edits>>

Crash ==
  /\ phase = "up"
  /\ Dies
  /\ UNCHANGED <<file, bak, base, body, stuck, promised, edits>>

\* The operator edits config.json and starts the process again.
EditByHand(t) ==
  /\ phase \in {"down", "failed"}
  /\ edits < MaxEdits
  /\ edits' = edits + 1
  /\ phase' = "down"
  /\ file' = t
  /\ promised' = {}
  /\ UNCHANGED <<memory, bak, pc, base, body, broken, stuck, crashes>>

Next ==
  \/ Load
  \/ \E r \in Put : PutReads(r) \/ PutRefused(r) \/ PutSets(r)
  \/ \E v \in Value : RecordRegion(v)
  \/ Crash
  \/ \E t \in Edit : EditByHand(t)

Spec == Init /\ [][Next]_vars

-------------------------------------------------------------------------------

\* The types, and that the config served is one the save path would accept: no
\* content of config.json, and no body, brings an unusable value in.
TypeOK ==
  /\ phase \in {"down", "up", "failed"}
  /\ memory \in Config
  /\ file \in Content
  /\ bak \in Garbage \cup {NoFile}
  /\ pc \in [Put -> {"idle", "reading", "ok", "refused", "lost"}]
  /\ base \in [Put -> Config]
  /\ body \in [Put -> Body]
  /\ broken \in BOOLEAN
  /\ stuck \in BOOLEAN
  /\ promised \subseteq Config
  /\ crashes \in Nat
  /\ edits \in Nat

\* The config served is the one a restart would read, unless the last save
\* failed: a loaded file, with its defaults and repairs, stands for the same
\* config until something is saved (store.ts:119-125, 139-144).
ServedIsStored == phase = "up" /\ ~broken => memory = Loaded(file) /\ ~Fatal(file)

\* A process that starts on a file nobody edited comes back to the config that
\* was saved last, or to one whose save the death cut (store.ts:160-161).
RestartKeepsConfig ==
  [][phase = "down" /\ phase' # "down" /\ promised # {}
       => phase' = "up" /\ memory' \in promised]_vars

\* A config.json that could not be parsed is never overwritten: it is in .bak by
\* the time the file changes, unless it could not be put there
\* (store.ts:109-112).
TextNotLost ==
  [][edits' = edits /\ file \in Garbage /\ file' # file /\ ~stuck => bak' = file]_vars

\* A body changes the settings it mentions and no others (settings.ts:86-87).
PutKeepsOthers ==
  [][\A r \in Put : \A f \in Field :
       pc[r] = "reading" /\ pc'[r] = "ok" /\ body[r][f] = Missing
         => memory'[f] = memory[f]]_vars

\* Nothing in the file is fatal; only a file that cannot be read is
\* (store.ts:84-87).
OnlyUnreadableIsFatal == phase = "failed" => file = Unreadable

===============================================================================
