----------------------------- MODULE SingleFlight -----------------------------
(***************************************************************************)
(* What the query cache promises to its callers, with no clock and no      *)
(* waiting list: calls on one key are folded into one load, the answer of  *)
(* a load is shared until it is forgotten, an answer that only says that   *)
(* its caller went away is shared with nobody, and a reset cuts every      *)
(* later answer off from the loads that began before it.                   *)
(*                                                                         *)
(* Cache.tla is shown to implement this module.  A load is named after the *)
(* caller that started it.                                                 *)
(***************************************************************************)

CONSTANTS Caller, Key, None

VARIABLES
  state,    (* what each caller is doing                                   *)
  asked,    (* the key each caller asked for, or None                      *)
  current,  (* the load whose answer a key's callers share, or None        *)
  result,   (* how each caller's own load ended                            *)
  source    (* the load whose answer each caller was given, or None        *)

vars == <<state, asked, current, result, source>>

Ended == {"ok", "error", "gone"}

\* Keys whose shared answer may be dropped: a load under way never is.
Forgettable == {k \in Key : current[k] # None /\ result[current[k]] \in Ended}

\* The loads still shared once the keys of F are forgotten.
Without(F) == [k \in Key |-> IF k \in F THEN None ELSE current[k]]

Init ==
  /\ state   = [c \in Caller |-> "out"]
  /\ asked   = [c \in Caller |-> None]
  /\ current = [k \in Key |-> None]
  /\ result  = [c \in Caller |-> "pending"]
  /\ source  = [c \in Caller |-> None]

\* A caller asks for a key, or asks again for the one it was waiting on.
Asks(c, k) ==
  /\ \/ state[c] = "out"
     \/ state[c] = "asked" /\ asked[c] = k
  /\ asked' = [asked EXCEPT ![c] = k]

\* The key is shared by some load: wait for it.
Join(c, k, F) ==
  /\ Asks(c, k)
  /\ Without(F)[k] # None
  /\ state' = [state EXCEPT ![c] = "asked"]
  /\ current' = Without(F)
  /\ UNCHANGED <<result, source>>

\* No load is shared under the key: start one.
Start(c, k, F) ==
  /\ Asks(c, k)
  /\ Without(F)[k] = None
  /\ state' = [state EXCEPT ![c] = "loading"]
  /\ current' = [Without(F) EXCEPT ![k] = c]
  /\ UNCHANGED <<result, source>>

\* A load ends; its caller gets its own answer.  Only an answer about the
\* data stays shared.
Finish(c, r) ==
  /\ state[c] = "loading"
  /\ state' = [state EXCEPT ![c] = "answered"]
  /\ result' = [result EXCEPT ![c] = r]
  /\ source' = [source EXCEPT ![c] = c]
  /\ current' = IF r = "gone" /\ current[asked[c]] = c
                  THEN [current EXCEPT ![asked[c]] = None]
                  ELSE current
  /\ UNCHANGED asked

\* A caller that waited is given the answer its key shares now.
Take(c) ==
  /\ state[c] = "asked"
  /\ current[asked[c]] # None
  /\ result[current[asked[c]]] \in {"ok", "error"}
  /\ state' = [state EXCEPT ![c] = "answered"]
  /\ source' = [source EXCEPT ![c] = current[asked[c]]]
  /\ UNCHANGED <<asked, current, result>>

\* Everything shared is dropped, loads under way included.
Reset ==
  /\ current' = [k \in Key |-> None]
  /\ UNCHANGED <<state, asked, result, source>>

Next ==
  \/ \E c \in Caller, k \in Key, F \in SUBSET Forgettable :
       Join(c, k, F) \/ Start(c, k, F)
  \/ \E c \in Caller, r \in Ended : Finish(c, r)
  \/ \E c \in Caller : Take(c)
  \/ Reset

Spec == Init /\ [][Next]_vars

===============================================================================
