--------------------------- MODULE ConfigStoreProofs ---------------------------
(***************************************************************************)
(* Proofs about ConfigStore, for any settings, values, requests, crashes   *)
(* and edits by hand: the config served is usable and is the stored one, a *)
(* restart comes back to it, and a text nobody could parse is kept.        *)
(***************************************************************************)
EXTENDS ConfigStore, TLAPS

\* A process that serves has read its file, and knows what a restart would read.
\* This is what makes RestartKeepsConfig inductive across a save that is cut.
PromiseInv ==
  /\ phase = "up" => ~Fatal(file) /\ promised # {}
  /\ promised # {} => ~Fatal(file) /\ Loaded(file) \in promised

\* A text that could not be parsed is still in place only if it could not be put
\* aside.
GarbageInv == phase = "up" /\ file \in Garbage => stuck

IInv == TypeOK /\ ServedIsStored /\ PromiseInv /\ GarbageInv

-------------------------------------------------------------------------------

\* Every text the loader accepts stands for a usable config.
LEMMA LoadedUsable == \A t \in Content : Loaded(t) \in Config
  BY ConfigAssumption DEF Loaded, Content, Stored, Config

\* A config that was saved is read back as it is, and is no text of another kind.
LEMMA SavedIsLoaded ==
  ASSUME NEW c \in Config
  PROVE  c \in Content /\ Loaded(c) = c /\ ~Fatal(c) /\ c \notin Garbage
<1>1. c \in Stored
  BY DEF Config, Stored
<1>2. Loaded(c) = c
  BY <1>1 DEF Loaded, Config
<1>3. \A f \in Field : c[f] # Misshapen
  BY ConfigAssumption DEF Config
<1>4. c # Unreadable /\ c \notin Garbage
  BY <1>1, ConfigAssumption
<1>5. c \in Content
  BY <1>1 DEF Content
<1>6. ~Fatal(c)
  BY <1>3, <1>4 DEF Fatal
<1> QED BY <1>2, <1>4, <1>5, <1>6

\* A body merged over a usable config, if inspect() has nothing to report, is a
\* usable config again.
LEMMA MergeUsable ==
  ASSUME NEW c \in Config, NEW part \in Body, Usable(Merge(c, part))
  PROVE  Merge(c, part) \in Config
<1> DEFINE v(f) == IF part[f] = Missing THEN c[f] ELSE part[f]
<1>1. Merge(c, part) = [f \in Field |-> v(f)]
  BY DEF Merge
<1> HIDE DEF v
<1> QED BY <1>1 DEF Usable, Config

PcType == [Put -> {"idle", "reading", "ok", "refused", "lost"}]

LEMMA DiesTypes ==
  ASSUME TypeOK, Dies
  PROVE  /\ phase' = "down" /\ memory' \in Config /\ broken' = FALSE
         /\ crashes' \in Nat /\ pc' \in PcType
  BY ConfigAssumption DEF TypeOK, Dies, PcType

\* Every way a save of a usable config can go keeps the invariant.
LEMMA SaveInv ==
  ASSUME IInv, phase = "up", NEW c \in Config, UNCHANGED <<bak, base, body, stuck, edits>>,
         \/ (SaveEnds(c) \/ SaveFails(c)) /\ pc' \in PcType
         \/ SaveCut(c)
  PROVE  IInv'
<1> USE DEF IInv
<1>1. CASE SaveEnds(c) /\ pc' \in PcType
  <2>1. /\ memory' = c /\ file' = c /\ promised' = {c} /\ broken' = FALSE
        /\ UNCHANGED <<phase, crashes>>
    BY <1>1 DEF SaveEnds
  <2>2. TypeOK'
    BY <1>1, <2>1, SavedIsLoaded DEF TypeOK, PcType
  <2>3. ServedIsStored' /\ PromiseInv' /\ GarbageInv'
    BY <2>1, SavedIsLoaded DEF ServedIsStored, PromiseInv, GarbageInv, Loaded, Fatal
  <2> QED BY <2>2, <2>3
<1>2. CASE SaveFails(c) /\ pc' \in PcType
  <2>1. memory' = c /\ broken' = TRUE /\ UNCHANGED <<phase, file, promised, crashes>>
    BY <1>2 DEF SaveFails
  <2>2. TypeOK'
    BY <1>2, <2>1 DEF TypeOK, PcType
  <2>3. ServedIsStored' /\ PromiseInv' /\ GarbageInv'
    BY <2>1 DEF ServedIsStored, PromiseInv, GarbageInv, Loaded, Fatal
  <2> QED BY <2>2, <2>3
<1>3. CASE SaveCut(c)
  <2>1. file' \in {file, c} /\ promised' = promised \cup {c} /\ Dies
    BY <1>3 DEF SaveCut
  <2>2. phase' = "down"
    BY <2>1, DiesTypes
  <2>3. TypeOK'
    BY <2>1, DiesTypes, SavedIsLoaded DEF TypeOK, PcType
  <2>4. PromiseInv'
    <3>1. CASE file' = file
      BY <2>1, <2>2, <3>1 DEF PromiseInv, Loaded, Fatal
    <3>2. CASE file' = c
      BY <2>1, <2>2, <3>2, SavedIsLoaded DEF PromiseInv, Loaded, Fatal
    <3> QED BY <2>1, <3>1, <3>2
  <2>5. ServedIsStored' /\ GarbageInv'
    BY <2>2 DEF ServedIsStored, GarbageInv
  <2> QED BY <2>3, <2>4, <2>5
<1> QED BY <1>1, <1>2, <1>3

LEMMA InitInv == Init => IInv
<1> SUFFICES ASSUME Init PROVE IInv
  OBVIOUS
<1>1. file \in Content /\ memory \in Config /\ promised \subseteq Config
  BY ConfigAssumption DEF Init
<1>2. pc \in [Put -> {"idle", "reading", "ok", "refused", "lost"}]
      /\ base \in [Put -> Config] /\ body \in [Put -> Body]
  BY ConfigAssumption DEF Init
<1>3. TypeOK
  BY <1>1, <1>2 DEF Init, TypeOK
<1> QED BY <1>3 DEF Init, IInv, ServedIsStored, PromiseInv, GarbageInv

LEMMA LoadInv ==
  ASSUME IInv, Load
  PROVE  IInv'
<1> USE DEF IInv
<1>1. CASE Fatal(file)
  <2>1. phase' = "failed" /\ broken' = FALSE /\ stuck' = FALSE
        /\ UNCHANGED <<memory, file, bak, promised, pc, base, body, crashes, edits>>
    BY <1>1 DEF Load
  <2> QED BY <2>1 DEF TypeOK, ServedIsStored, PromiseInv, GarbageInv, Fatal, Loaded
<1>2. CASE ~Fatal(file)
  <2>1. /\ phase' = "up" /\ memory' = Loaded(file) /\ promised' = {Loaded(file)}
        /\ broken' = FALSE /\ UNCHANGED <<pc, base, body, crashes, edits>>
    BY <1>2 DEF Load
  <2>2. \/ file \notin Garbage /\ stuck' = FALSE /\ file' = file /\ bak' = bak
        \/ file \in Garbage /\ stuck' = FALSE /\ file' = NoFile /\ bak' = file
        \/ file \in Garbage /\ stuck' = TRUE /\ file' = file /\ bak' = bak
    BY <1>2 DEF Load
  <2>3. NoFile \in Content /\ NoFile \notin Garbage /\ ~Fatal(NoFile)
        /\ Loaded(NoFile) = Default
    BY ConfigAssumption DEF Content, Fatal, Loaded
  <2>4. \A t \in Garbage : Loaded(t) = Default
    BY ConfigAssumption DEF Loaded
  <2>5. file' \in Content /\ Loaded(file') = Loaded(file) /\ ~Fatal(file')
    BY <1>2, <2>2, <2>3, <2>4 DEF TypeOK
  <2>6. TypeOK'
    BY <2>1, <2>2, <2>5, LoadedUsable DEF TypeOK
  <2>7. ServedIsStored' /\ PromiseInv'
    BY <2>1, <2>5 DEF ServedIsStored, PromiseInv, Loaded, Fatal
  <2>8. GarbageInv'
    BY <2>1, <2>2, <2>3 DEF GarbageInv
  <2> QED BY <2>6, <2>7, <2>8
<1> QED BY <1>1, <1>2

LEMMA PutInv ==
  ASSUME IInv, NEW r \in Put, PutReads(r) \/ PutRefused(r) \/ PutSets(r)
  PROVE  IInv'
<1> USE DEF IInv
<1>1. CASE PutReads(r)
  <2>1. TypeOK'
    BY <1>1 DEF PutReads, TypeOK
  <2> QED BY <1>1, <2>1 DEF PutReads, ServedIsStored, PromiseInv, GarbageInv, Loaded, Fatal
<1>2. CASE PutRefused(r)
  <2>1. TypeOK'
    BY <1>2 DEF PutRefused, TypeOK
  <2> QED BY <1>2, <2>1 DEF PutRefused, ServedIsStored, PromiseInv, GarbageInv, Loaded, Fatal
<1>3. CASE PutSets(r)
  <2> DEFINE c == Merge(base[r], body[r])
  <2>1. phase = "up" /\ Usable(c) /\ UNCHANGED <<bak, base, body, stuck, edits>>
    BY <1>3 DEF PutSets
  <2>2. c \in Config
    BY <2>1, MergeUsable DEF TypeOK
  <2>3. \/ SaveEnds(c) /\ pc' = [pc EXCEPT ![r] = "ok"]
        \/ SaveFails(c) /\ pc' = [pc EXCEPT ![r] = "refused"]
        \/ SaveCut(c)
    BY <1>3 DEF PutSets
  <2>4. pc' = [pc EXCEPT ![r] = "ok"] \/ pc' = [pc EXCEPT ![r] = "refused"] => pc' \in PcType
    BY DEF TypeOK, PcType
  <2> HIDE DEF c
  <2> QED BY <2>1, <2>2, <2>3, <2>4, SaveInv
<1> QED BY <1>1, <1>2, <1>3

LEMMA RegionInv ==
  ASSUME IInv, NEW v \in Value, RecordRegion(v)
  PROVE  IInv'
<1> DEFINE c == [memory EXCEPT ![RegionField] = v]
<1>1. phase = "up" /\ UNCHANGED <<bak, base, body, stuck, edits>>
  BY DEF RecordRegion
<1>2. c \in Config
  BY ConfigAssumption DEF IInv, TypeOK, Config
<1>3. ((SaveEnds(c) \/ SaveFails(c)) /\ pc' = pc) \/ SaveCut(c)
  BY DEF RecordRegion
<1>4. pc \in PcType
  BY DEF IInv, TypeOK, PcType
<1> HIDE DEF c
<1> QED BY <1>1, <1>2, <1>3, <1>4, SaveInv

LEMMA StepInv == IInv /\ [Next]_vars => IInv'
<1> SUFFICES ASSUME IInv, [Next]_vars PROVE IInv'
  OBVIOUS
<1>1. CASE Crash
  <2>1. UNCHANGED <<file, bak, base, body, stuck, promised, edits>> /\ Dies
    BY <1>1 DEF Crash
  <2>2. TypeOK' /\ phase' = "down"
    BY <2>1, DiesTypes DEF IInv, TypeOK, PcType
  <2> QED BY <2>1, <2>2 DEF IInv, ServedIsStored, PromiseInv, GarbageInv, Loaded, Fatal
<1>2. ASSUME NEW t \in Edit, EditByHand(t) PROVE IInv'
  <2>1. TypeOK'
    BY <1>2, ConfigAssumption DEF EditByHand, IInv, TypeOK
  <2> QED BY <1>2, <2>1 DEF EditByHand, IInv, ServedIsStored, PromiseInv, GarbageInv
<1>3. CASE UNCHANGED vars
  BY <1>3 DEF vars, IInv, TypeOK, ServedIsStored, PromiseInv, GarbageInv, Loaded, Fatal
<1> QED BY <1>1, <1>2, <1>3, LoadInv, PutInv, RegionInv DEF Next

-------------------------------------------------------------------------------

\* The config served is always one the save path would accept, whatever the file
\* held and whatever the requests carried (config.ts:315-322).
THEOREM ConfigTypes == Spec => []TypeOK
<1>1. IInv => TypeOK
  BY DEF IInv
<1> QED BY <1>1, InitInv, StepInv, PTL DEF Spec

\* The config served is the one a restart would read, unless the last save
\* failed.
THEOREM ConfigServedIsStored == Spec => []ServedIsStored
<1>1. IInv => ServedIsStored
  BY DEF IInv
<1> QED BY <1>1, InitInv, StepInv, PTL DEF Spec

\* A start on a file nobody edited succeeds, and comes back to the config saved
\* last or to one whose save the death cut.
THEOREM ConfigRestartKeepsConfig == Spec => RestartKeepsConfig
<1>1. ASSUME IInv, Next, phase = "down", phase' # "down", promised # {}
      PROVE  phase' = "up" /\ memory' \in promised
  <2>1. Load
    <3>1. \A c : ~SaveCut(c) \/ phase' = "down"
      BY DEF SaveCut, Dies
    <3>2. ~Crash /\ \A t \in Edit : ~EditByHand(t)
      BY <1>1 DEF Crash, EditByHand
    <3> QED BY <1>1, <3>2 DEF Next, PutReads, PutRefused, PutSets, RecordRegion
  <2>2. ~Fatal(file) /\ Loaded(file) \in promised
    BY <1>1 DEF IInv, PromiseInv
  <2> QED BY <2>1, <2>2 DEF Load
<1>2. IInv /\ [Next]_vars
        => [phase = "down" /\ phase' # "down" /\ promised # {}
              => phase' = "up" /\ memory' \in promised]_vars
  BY <1>1
<1> QED BY <1>2, InitInv, StepInv, PTL DEF Spec, RestartKeepsConfig

\* A config.json that could not be parsed is in .bak by the time the program
\* changes it, unless it could not be put there.
THEOREM ConfigTextNotLost == Spec => TextNotLost
<1>1. ASSUME IInv, Next, edits' = edits, file \in Garbage, file' # file, ~stuck
      PROVE  bak' = file
  <2>1. phase # "up"
    BY <1>1 DEF IInv, GarbageInv
  <2>2. \A t \in Edit : ~EditByHand(t)
    BY <1>1 DEF EditByHand, IInv, TypeOK
  <2>3. Load
    BY <1>1, <2>1, <2>2 DEF Next, PutReads, PutRefused, PutSets, RecordRegion, Crash
  <2> QED BY <1>1, <2>3 DEF Load
<1>2. IInv /\ [Next]_vars
        => [edits' = edits /\ file \in Garbage /\ file' # file /\ ~stuck => bak' = file]_vars
  BY <1>1
<1> QED BY <1>2, InitInv, StepInv, PTL DEF Spec, TextNotLost

===============================================================================
