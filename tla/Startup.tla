-------------------------------- MODULE Startup --------------------------------
(***************************************************************************)
(* The process, from its first line to its exit (server/src/main.ts): the  *)
(* config, the .env (server/src/config/env.ts), the connection, the port,  *)
(* and the shutdown on a signal, with the connections of browsers open.    *)
(*                                                                         *)
(* A file named on the command line is the only place looked at; else the  *)
(* first of the candidates that is there.  Files may change at any point   *)
(* between two steps, and ports be taken and freed.  Once installShutdown  *)
(* has run a signal is handled; before, it ends the process.  Time passes  *)
(* in steps of 5 s.  What the steps do to the config and to the keys is    *)
(* ConfigStore's and Credentials' subject.                                 *)
(***************************************************************************)
EXTENDS Naturals, FiniteSets, Sequences

CONSTANTS
  Candidate,      (* where a .env may be                                    *)
  envFileCandidates, (* those looked at if none is named, in that order     *)
  Named,          (* the one --env may name                                 *)
  Conn,           (* connections browsers may open                          *)
  port,           (* the port asked for, or the default                     *)
  portFallbacks,
  MaxChanges      (* bound: files and ports changed from outside            *)

ASSUME StartupAssumption ==
  /\ port \in Nat /\ portFallbacks \in Nat /\ MaxChanges \in Nat
  /\ envFileCandidates \in Seq(Candidate) /\ Named \in Candidate

VARIABLES
  phase,     (* config, env, aws, listen, up, stopping, gone                *)
  code,      (* the exit status                                             *)
  flags,     (* what was said: a .env is named, a port was chosen           *)
  files,     (* of the .env files: those that are there                     *)
  envFile,   (* the one found, a set of at most one                         *)
  source,    (* where the key came from: "saved", "env", "none"             *)
  refused,   (* conn.error: there is no key, or AWS did not take it         *)
  candidate, (* the port being tried                                        *)
  busy,      (* the ports others listen on                                  *)
  conns,     (* of each connection: "none", "idle", "active"                *)
  clock,     (* steps since the STS call, or since the signal               *)
  changes

vars == <<phase, code, flags, files, envFile, source, refused, candidate, busy, conns, clock, changes>>

identityTimeout == 3
Grace == 2
last == IF flags.portWasChosen THEN port ELSE port + portFallbacks
Ports == port..(port + portFallbacks)

Init ==
  /\ phase = "config"
  /\ code = 0
  /\ flags \in [named : BOOLEAN, portWasChosen : BOOLEAN]
  /\ files \in SUBSET Candidate
  /\ envFile = {}
  /\ source = "none"
  /\ refused = FALSE
  /\ candidate = port
  /\ busy \in SUBSET Ports
  /\ conns = [c \in Conn |-> "none"]
  /\ clock = 0
  /\ changes = 0

\* The server and its connections go with the process.
Exit(status) ==
  /\ phase' = "gone"
  /\ code' = status
  /\ conns' = [c \in Conn |-> "none"]

\* main: ConfigStore.load, which is fatal for a file it cannot read.
LoadsConfig ==
  /\ phase = "config"
  /\ \/ phase' = "env" /\ UNCHANGED <<code, conns>>
     \/ Exit(1)
  /\ UNCHANGED <<flags, files, envFile, source, refused, candidate, busy, clock, changes>>

\* resolveEnvFile: a name given must be there, a candidate may be.
findEnvFile ==
  /\ phase = "env"
  /\ IF flags.named
     THEN IF Named \in files
          THEN phase' = "aws" /\ envFile' = {Named} /\ UNCHANGED <<code, conns>>
          ELSE Exit(1) /\ UNCHANGED envFile
     ELSE /\ phase' = "aws"
          /\ LET There(k) == envFileCandidates[k] \in files
                 first == {k \in DOMAIN envFileCandidates : There(k) /\ \A j \in 1..(k - 1) : ~There(j)}
             IN  envFile' = {envFileCandidates[k] : k \in first}
          /\ UNCHANGED <<code, conns>>
  /\ UNCHANGED <<flags, files, source, refused, candidate, busy, clock, changes>>

(***************************************************************************)
(* connectAWS: the saved key, else the file's or the environment's; none   *)
(* is there, AWS answers either way, or the limit of its call runs out.  A *)
(* failure is carried, so that the page that mends it is served.           *)
(***************************************************************************)
connectAWS ==
  /\ phase = "aws"
  /\ source' \in {"saved", "env", "none"}
  /\ refused' \in {source' = "none", TRUE}
  /\ clock = identityTimeout => refused'
  /\ phase' = "listen"
  /\ clock' = 0
  /\ UNCHANGED <<code, flags, files, envFile, candidate, busy, conns, changes>>

\* listen: the next port while there is one; then installShutdown.
Attempt ==
  /\ phase = "listen"
  /\ \/ /\ candidate \notin busy
        /\ phase' = "up"
        /\ UNCHANGED <<code, conns, candidate>>
     \/ /\ candidate \in busy /\ candidate < last
        /\ candidate' = candidate + 1
        /\ UNCHANGED <<phase, code, conns>>
     \/ /\ candidate \in busy /\ candidate = last
        /\ Exit(1)
        /\ UNCHANGED candidate
  /\ UNCHANGED <<flags, files, envFile, source, refused, busy, clock, changes>>

-------------------------------------------------------------------------------
\* The rest of the world: a file or a port changes hands, a browser comes, asks
\* and goes, an answer goes out.  A connection that is answered while the server
\* closes may be kept or not, which is the library's to say.
OthersChange ==
  /\ changes < MaxChanges
  /\ phase \notin {"up", "stopping", "gone"}
  /\ changes' = changes + 1
  /\ \/ \E c \in Candidate : files' = (files \ {c}) \cup ({c} \ files)
        /\ UNCHANGED busy
     \/ \E p \in Ports : busy' = (busy \ {p}) \cup ({p} \ busy)
        /\ UNCHANGED files
  /\ UNCHANGED <<phase, code, flags, envFile, source, refused, candidate, conns, clock>>

Turns(c, from, to) ==
  /\ conns[c] = from
  /\ conns' = [conns EXCEPT ![c] = to]
  /\ UNCHANGED <<phase, code, flags, files, envFile, source, refused, candidate, busy, clock, changes>>

Opens(c) == phase = "up" /\ Turns(c, "none", "active")
Asks(c) == phase \in {"up", "stopping"} /\ Turns(c, "idle", "active")
Answered(c) == phase = "up" /\ Turns(c, "active", "idle")
AnsweredLast(c) == phase = "stopping" /\ (Turns(c, "active", "idle") \/ Turns(c, "active", "none"))
Leaves(c) == phase \in {"up", "stopping"} /\ (Turns(c, "idle", "none") \/ Turns(c, "active", "none"))

-------------------------------------------------------------------------------
\* Mutant: the connections in use are cut with the idle ones.
StopCutsAll ==
  /\ phase \in {"config", "env", "aws", "listen", "up"}
  /\ IF phase # "up" THEN Exit(130) /\ UNCHANGED clock
     ELSE /\ phase' = "stopping"
          /\ clock' = 0
          /\ conns' = [c \in Conn |-> "none"]
          /\ UNCHANGED code
  /\ UNCHANGED <<flags, files, envFile, source, refused, candidate, busy, changes>>

\* SIGINT or SIGTERM: the idle connections are closed, those in use waited for.
\* A second signal changes nothing.
Stop ==
  /\ phase \in {"config", "env", "aws", "listen", "up"}
  /\ IF phase # "up" THEN Exit(130) /\ UNCHANGED clock
     ELSE /\ phase' = "stopping"
          /\ clock' = 0
          /\ conns' = [c \in Conn |-> IF conns[c] = "idle" THEN "none" ELSE conns[c]]
          /\ UNCHANGED code
  /\ UNCHANGED <<flags, files, envFile, source, refused, candidate, busy, changes>>

\* The callback of server.close: no connection is left.
Closed ==
  /\ phase = "stopping"
  /\ \A c \in Conn : conns[c] = "none"
  /\ Exit(0)
  /\ UNCHANGED <<flags, files, envFile, source, refused, candidate, busy, clock, changes>>

\* Mutant: the limit is on the idle connections only.
ExpiresWhenIdle ==
  /\ phase = "stopping"
  /\ clock = Grace
  /\ \A c \in Conn : conns[c] # "active"
  /\ Exit(0)
  /\ UNCHANGED <<flags, files, envFile, source, refused, candidate, busy, clock, changes>>

\* Ten seconds after the signal, what is left is cut.
Expires ==
  /\ phase = "stopping"
  /\ clock = Grace
  /\ Exit(0)
  /\ UNCHANGED <<flags, files, envFile, source, refused, candidate, busy, clock, changes>>

TimePasses ==
  /\ \/ phase = "aws" /\ clock < identityTimeout
     \/ phase = "stopping" /\ clock < Grace
  /\ clock' = clock + 1
  /\ UNCHANGED <<phase, code, flags, files, envFile, source, refused, candidate, busy, conns, changes>>

Next ==
  \/ LoadsConfig
  \/ findEnvFile
  \/ connectAWS
  \/ Attempt
  \/ OthersChange
  \/ \E c \in Conn : Opens(c) \/ Asks(c) \/ Answered(c) \/ AnsweredLast(c) \/ Leaves(c)
  \/ Stop
  \/ Closed
  \/ Expires
  \/ TimePasses

Spec == Init /\ [][Next]_vars

\* The process's own steps and its timers; nothing of AWS or of the browsers.
FairSpec ==
  /\ Spec
  /\ WF_vars(LoadsConfig) /\ WF_vars(findEnvFile) /\ WF_vars(Attempt)
  /\ WF_vars(clock = identityTimeout /\ connectAWS)
  /\ WF_vars(TimePasses) /\ WF_vars(Expires)

(***************************************************************************)
(* The process comes to rest, whatever AWS and the browsers do: a start    *)
(* ends in a page that is served or in an exit that says why, and a signal *)
(* ends in an exit, be there requests of 90 s under way.                   *)
(***************************************************************************)
ProcessSettles ==
  /\ phase = "config" ~> phase \in {"up", "stopping", "gone"}
  /\ phase = "stopping" ~> phase = "gone"

(***************************************************************************)
(* A request under way when the signal comes has the whole grace: unless   *)
(* its browser leaves, it is answered or cut at the limit, not before,     *)
(* although the idle connections go at once.                               *)
(***************************************************************************)
GraceIsKept ==
  [][\A c \in Conn :
       conns[c] = "active" /\ conns'[c] = "none" /\ ~Leaves(c) /\ ~AnsweredLast(c)
         => phase = "stopping" /\ clock = Grace]_vars
===============================================================================
