----------------------- MODULE VerificationStore_proofs -----------------------
(***************************************************************************)
(* Proofs about the verification: its stores, its servers and its stages.  *)
(*                                                                         *)
(* First, ManagedServers, for any directories, acquisitions and shutdowns, *)
(* and servers whose processes exit whenever they like.                    *)
(*                                                                         *)
(* Then, EvidenceStore: what a store holds, and what has been published    *)
(* from it, is whole reports, for any stores, processes, producers and     *)
(* reports.  The invariant says it of a set of rows (Closed), and says of  *)
(* a job under way what it adds to the store (a report, or rows that are   *)
(* whole reports together with those there) or what its queries have found *)
(* so far (Found), none of which another process can take back.            *)
(*                                                                         *)
(* Last, VerificationStages: the records made so far answer, each once,    *)
(* what has been required so far (Required), which ends in both stages'    *)
(* catalogs, and the certificates stage two has accepted stand for cases   *)
(* that have passed (Complete).  That no report is refused needs what each *)
(* record says of its receipt and its certificate (Fitting), and that the  *)
(* certificates are those the records of the oracle give again (Restored). *)
(***************************************************************************)
EXTENDS ManagedServers, EvidenceStore, VerificationStages, SequenceTheorems, TLAPS

Servers == [dir : Dir, retired : BOOLEAN, running : BOOLEAN, locked : BOOLEAN, stray : BOOLEAN]

(* An acquisition that is busy has a server in hand.                       *)
Busy == {"starts", "launches", "checks", "retires", "fails", "discards"}
Acquisitions == [dir : Dir \union {Unserved.dir}, op : Busy \union {"idle", "looks", "waits", "raised", "returned"},
                 server : Nat, attempt : Nat, launch : Nat]
Shutdowns == [op : {"idle", "stops", "frees", "raises", "raised", "done"}, left : SUBSET Nat, server : Nat]

Shapes ==
    /\ server \in Seq(Servers) /\ registry \in [Dir -> {0} \union Made] /\ reserved \in SUBSET Dir
    /\ acquiring \in [Acquisition -> Acquisitions] /\ stopping \in [Shutdown -> Shutdowns]

(* A registered server serves its directory, and a directory that is being *)
(* stopped has none.                                                       *)
Registered == \A d \in Dir : registry[d] # 0 => server[registry[d]].dir = d /\ d \notin reserved

(* What an acquisition knows of the server it has in hand.                 *)
Handles(a) ==
    /\ acquiring[a].op # "idle" => DirOf(a) \in Dir
    /\ acquiring[a].op \in Busy => Mine(a) \in Made /\ server[Mine(a)].dir = DirOf(a)
    /\ acquiring[a].op \in {"retires", "fails"} => server[Mine(a)].retired
    /\ acquiring[a].op = "launches" => server[Mine(a)].locked /\ ~server[Mine(a)].retired

LaunchesAlone ==
    \A a, b \in Acquisition :
        acquiring[a].op = "launches" /\ acquiring[b].op = "launches" /\ Mine(a) = Mine(b) => a = b

(* The servers a shutdown has taken out of the registry and whose          *)
(* directories it has not freed yet.                                       *)
Between(k) == stopping[k].op \in {"frees", "raises"}
Hand(k) == stopping[k].left \union (IF Between(k) THEN {stopping[k].server} ELSE {})

Reserved ==
    /\ \A k \in Shutdown : \A s \in Hand(k) : s \in Made /\ server[s].dir \in reserved
    /\ \A k, j \in Shutdown : \A s \in Hand(k), t \in Hand(j) :
          server[s].dir = server[t].dir => s = t /\ k = j
    /\ \A k \in Shutdown : Between(k) =>
          server[stopping[k].server].retired /\ stopping[k].server \notin stopping[k].left
    /\ \A k \in Shutdown : stopping[k].op = "idle" => stopping[k].left = {}

(* A process runs only for a server that is not retired, and such a server *)
(* is registered or waits to be stopped.                                   *)
Reachable ==
    \A s \in Made : /\ Running(s) => ~server[s].retired
                    /\ ~server[s].retired => \/ registry[server[s].dir] = s
                                             \/ \E k \in Shutdown : s \in stopping[k].left

Kept == Shapes /\ Registered /\ (\A a \in Acquisition : Handles(a)) /\ LaunchesAlone /\ Reserved /\ Reachable
-----------------------------------------------------------------------------
LEMMA MadeFacts ==
    ASSUME Shapes
    PROVE  /\ Len(server) \in Nat /\ server \in [Made -> Servers]
           /\ \A s \in Made : s \in Nat /\ s # 0 /\ server[s] \in Servers /\ server[s].dir \in Dir
<1>1. server \in Seq(Servers)
  BY DEF Shapes
<1>2. Len(server) \in Nat /\ server \in [Made -> Servers]
  BY <1>1, LenProperties DEF Made
<1>3. \A s \in Made : s \in Nat /\ s # 0
  BY <1>2 DEF Made
<1>4. \A s \in Made : server[s] \in Servers
  BY <1>2
<1> QED BY <1>2, <1>3, <1>4 DEF Servers

(* A step that changes one server, and not its directory.                  *)
Sets(s, e) == e \in Servers /\ e.dir = server[s].dir /\ server' = [server EXCEPT ![s] = e]

LEMMA ServerSet ==
    ASSUME Shapes, NEW s \in Made, NEW e, Sets(s, e)
    PROVE  /\ server' \in Seq(Servers) /\ Made' = Made /\ server'[s] = e
           /\ \A t \in Made : t # s => server'[t] = server[t]
           /\ \A t \in Made : server'[t].dir = server[t].dir
<1>1. server \in Seq(Servers) /\ s \in 1 .. Len(server)
  BY DEF Shapes, Made
<1>2. /\ server' \in Seq(Servers) /\ Len(server') = Len(server)
      /\ \A t \in 1 .. Len(server) : server'[t] = IF t = s THEN e ELSE server[t]
  BY <1>1, ExceptSeq DEF Sets
<1>3. \A t \in Made : server'[t] = IF t = s THEN e ELSE server[t]
  BY <1>2 DEF Made
<1>4. Made' = Made
  BY <1>2 DEF Made
<1> QED BY <1>2, <1>3, <1>4 DEF Sets

LEMMA RunningSet ==
    ASSUME Shapes, NEW s \in Made, server' = [server EXCEPT ![s].running = TRUE]
    PROVE  Sets(s, [server[s] EXCEPT !.running = TRUE])
  BY MadeFacts DEF Sets, Servers

LEMMA LaunchSet ==
    ASSUME Shapes, NEW s \in Made, server' = [server EXCEPT ![s].running = TRUE, ![s].locked = TRUE]
    PROVE  Sets(s, [server[s] EXCEPT !.running = TRUE, !.locked = TRUE])
<1>1. server[s] \in Servers /\ server \in [Made -> Servers]
  BY MadeFacts
<1>2. server' = [server EXCEPT ![s] = [server[s] EXCEPT !.running = TRUE, !.locked = TRUE]]
  BY <1>1
<1> QED BY <1>1, <1>2 DEF Sets, Servers

LEMMA UnlockSet ==
    ASSUME Shapes, NEW s \in Made, server' = [server EXCEPT ![s].locked = FALSE]
    PROVE  Sets(s, [server[s] EXCEPT !.locked = FALSE])
  BY MadeFacts DEF Sets, Servers

LEMMA ExitSet ==
    ASSUME Shapes, NEW s \in Made, server' = [server EXCEPT ![s].running = FALSE, ![s].stray = FALSE]
    PROVE  Sets(s, [server[s] EXCEPT !.running = FALSE, !.stray = FALSE])
<1>1. server[s] \in Servers /\ server \in [Made -> Servers]
  BY MadeFacts
<1>2. server' = [server EXCEPT ![s] = [server[s] EXCEPT !.running = FALSE, !.stray = FALSE]]
  BY <1>1
<1> QED BY <1>1, <1>2 DEF Sets, Servers

LEMMA TerminatedSet ==
    ASSUME Shapes, NEW s \in Made, NEW raises \in BOOLEAN, server' = Terminated(s, raises)
    PROVE  \E e : Sets(s, e) /\ e.retired /\ ~e.running
<1> DEFINE b == server[s].stray \/ (raises /\ Running(s))
           e == [server[s] EXCEPT !.retired = TRUE, !.running = FALSE, !.locked = FALSE, !.stray = b]
<1>1. server[s] \in Servers /\ server \in [Made -> Servers] /\ b \in BOOLEAN
  BY MadeFacts DEF Servers
<1>2. server' = [server EXCEPT ![s] = e]
  BY <1>1 DEF Terminated
<1>3. e \in Servers /\ e.dir = server[s].dir /\ e.retired /\ ~e.running
  BY <1>1 DEF Servers
<1> HIDE DEF e
<1>4. Sets(s, e)
  BY <1>2, <1>3 DEF Sets
<1> QED BY <1>3, <1>4

(* Whoever is woken was waiting, and looks again.                          *)
LEMMA NotifiedKeeps ==
    ASSUME NEW f \in [Acquisition -> Acquisitions]
    PROVE  /\ Notified(f) \in [Acquisition -> Acquisitions]
           /\ \A a \in Acquisition : /\ Notified(f)[a].dir = f[a].dir
                                     /\ \/ Notified(f)[a] = f[a]
                                        \/ f[a].op = "waits" /\ Notified(f)[a].op = "looks"
<1>1. ASSUME NEW a \in Acquisition
      PROVE  /\ Notified(f)[a] \in Acquisitions /\ Notified(f)[a].dir = f[a].dir
             /\ \/ Notified(f)[a] = f[a]
                \/ f[a].op = "waits" /\ Notified(f)[a].op = "looks"
  <2>1. f[a] \in Acquisitions
    OBVIOUS
  <2>2. Notified(f)[a] = IF f[a].op = "waits" THEN [f[a] EXCEPT !.op = "looks"] ELSE f[a]
    BY DEF Notified
  <2>3. CASE f[a].op = "waits"
    BY <2>1, <2>2, <2>3 DEF Acquisitions
  <2>4. CASE f[a].op # "waits"
    BY <2>1, <2>2, <2>4
  <2> QED BY <2>3, <2>4
<1>2. Notified(f) = [a \in Acquisition |-> Notified(f)[a]]
  BY DEF Notified
<1> QED BY <1>1, <1>2

(* A call that is over, or tries again, has no server in hand.             *)
Idles(g, f, a) ==
    /\ g \in [Acquisition -> Acquisitions] /\ g[a].dir = f[a].dir /\ g[a].op \notin Busy
    /\ \A b \in Acquisition : b # a => g[b] = f[b]

LEMMA EndedIdles ==
    ASSUME NEW f \in [Acquisition -> Acquisitions], NEW a \in Acquisition, NEW op \in {"raised", "returned"}
    PROVE  Idles(Ended(f, a, op), f, a) /\ Ended(f, a, op)[a].op = op
<1> DEFINE x == [Unserved EXCEPT !.dir = f[a].dir, !.op = op]
<1>1. f[a] \in Acquisitions
  OBVIOUS
<1>2. x \in Acquisitions /\ x.op = op /\ x.dir = f[a].dir
  BY <1>1 DEF Acquisitions, Unserved
<1>3. Ended(f, a, op) = [f EXCEPT ![a] = x]
  BY DEF Ended
<1> HIDE DEF x
<1> QED BY <1>2, <1>3 DEF Idles, Busy

LEMMA AgainIdles ==
    ASSUME NEW f \in [Acquisition -> Acquisitions], NEW a \in Acquisition
    PROVE  Idles(Again(f, a), f, a)
<1>1. CASE f[a].attempt < Attempts
  <2> DEFINE x == [f[a] EXCEPT !.op = "looks", !.attempt = f[a].attempt + 1, !.server = 0, !.launch = 0]
  <2>1. f[a] \in Acquisitions /\ f[a].attempt \in Nat
    BY DEF Acquisitions
  <2>2. x \in Acquisitions /\ x.op = "looks" /\ x.dir = f[a].dir
    <3>1. f[a].attempt + 1 \in Nat
      BY <2>1
    <3> QED BY <2>1, <3>1 DEF Acquisitions
  <2>3. Again(f, a) = [f EXCEPT ![a] = x]
    BY <1>1, <2>1 DEF Again
  <2> HIDE DEF x
  <2> QED BY <2>2, <2>3 DEF Idles, Busy
<1>2. CASE ~(f[a].attempt < Attempts)
  BY <1>2, EndedIdles DEF Again
<1> QED BY <1>1, <1>2

LEMMA NotifiedIdles ==
    ASSUME NEW f \in [Acquisition -> Acquisitions], NEW g, NEW a \in Acquisition, Idles(g, f, a)
    PROVE  /\ Notified(g) \in [Acquisition -> Acquisitions]
           /\ \A b \in Acquisition : /\ Notified(g)[b].dir = f[b].dir
                                     /\ Notified(g)[b].op \in Busy => b # a /\ Notified(g)[b] = f[b]
                                     /\ Notified(g)[b].op # "idle" => b = a \/ f[b].op # "idle"
  BY NotifiedKeeps DEF Idles, Busy
-----------------------------------------------------------------------------
(* A step that sets one server so that it stays retired once it is.        *)
SetsWell(s, e) == Sets(s, e) /\ (server[s].retired => e.retired) /\ (e.running => ~e.retired)

LEMMA SetKept ==
    ASSUME Kept, NEW s \in Made, NEW e, SetsWell(s, e), UNCHANGED <<registry, reserved, stopping>>
    PROVE  /\ server' \in Seq(Servers) /\ registry' \in [Dir -> {0} \union Made']
           /\ Registered' /\ Reserved' /\ Reachable'
<1>a. Shapes /\ Registered /\ Reserved /\ Reachable
  BY DEF Kept
<1>1. /\ server' \in Seq(Servers) /\ Made' = Made /\ server'[s] = e
      /\ \A t \in Made : t # s => server'[t] = server[t]
      /\ \A t \in Made : server'[t].dir = server[t].dir
  BY <1>a, ServerSet DEF SetsWell
<1>2. \A t \in Made : server[t].retired => server'[t].retired
  BY <1>1 DEF SetsWell
<1>3. Registered'
  <2>1. \A d \in Dir : registry[d] \in {0} \union Made
    BY <1>a DEF Shapes
  <2> QED BY <1>a, <1>1, <2>1 DEF Registered
<1>4. \A k \in Shutdown : Hand(k)' = Hand(k) /\ (Between(k)' <=> Between(k))
  BY DEF Hand, Between
<1>5. \A k \in Shutdown : \A t \in Hand(k) : t \in Made
  BY <1>a DEF Reserved
<1>6. \A k \in Shutdown : Between(k) => stopping[k].server \in Made
  BY <1>5 DEF Hand
<1>7. Reserved'
  <2>1. \A k \in Shutdown : \A t \in Hand(k)' : t \in Made' /\ server'[t].dir \in reserved'
    BY <1>a, <1>1, <1>4, <1>5 DEF Reserved
  <2>2. \A k, j \in Shutdown : \A t \in Hand(k)', u \in Hand(j)' :
          server'[t].dir = server'[u].dir => t = u /\ k = j
    BY <1>a, <1>1, <1>4, <1>5 DEF Reserved
  <2>3. \A k \in Shutdown : Between(k)' => /\ server'[stopping'[k].server].retired
                                          /\ stopping'[k].server \notin stopping'[k].left
    BY <1>a, <1>2, <1>4, <1>6 DEF Reserved
  <2> QED BY <1>a, <2>1, <2>2, <2>3 DEF Reserved
<1>8. Reachable'
  <2>1. ASSUME NEW t \in Made PROVE /\ Running(t)' => ~server'[t].retired
                                    /\ ~server'[t].retired => \/ registry[server'[t].dir] = t
                                                              \/ \E k \in Shutdown : t \in stopping[k].left
    <3>1. CASE t = s
      BY <1>a, <1>1, <3>1 DEF Reachable, Running, SetsWell
    <3>2. CASE t # s
      BY <1>a, <1>1, <3>2 DEF Reachable, Running
    <3> QED BY <3>1, <3>2
  <2> QED BY <1>1, <2>1 DEF Reachable
<1> QED BY <1>a, <1>1, <1>3, <1>7, <1>8 DEF Shapes

(* Nothing but an acquisition moves.                                       *)
LEMMA SameKept ==
    ASSUME Kept, UNCHANGED <<registry, reserved, stopping, server>>
    PROVE  /\ server' \in Seq(Servers) /\ registry' \in [Dir -> {0} \union Made']
           /\ Registered' /\ Reserved' /\ Reachable'
<1>1. Made' = Made /\ \A k \in Shutdown : Hand(k)' = Hand(k) /\ (Between(k)' <=> Between(k))
  BY DEF Made, Hand, Between
<1>2. Registered' /\ Reachable'
  BY <1>1 DEF Kept, Registered, Reachable, Running
<1>3. Reserved'
  BY <1>1 DEF Kept, Reserved
<1> QED BY <1>1, <1>2, <1>3 DEF Kept, Shapes

LEMMA Advanced ==
    ASSUME Kept, NEW a \in Acquisition, NEW op \in Busy \union {"waits"}, Advances(a, op)
    PROVE  /\ acquiring' \in [Acquisition -> Acquisitions]
           /\ acquiring'[a].op = op /\ acquiring'[a].dir = DirOf(a) /\ acquiring'[a].server = Mine(a)
           /\ \A b \in Acquisition : b # a => acquiring'[b] = acquiring[b]
<1> DEFINE x == [acquiring[a] EXCEPT !.op = op]
<1>1. acquiring \in [Acquisition -> Acquisitions] /\ acquiring[a] \in Acquisitions
  BY DEF Kept, Shapes
<1>2. x \in Acquisitions /\ x.op = op /\ x.dir = acquiring[a].dir /\ x.server = acquiring[a].server
  BY <1>1 DEF Acquisitions
<1>3. acquiring' = [acquiring EXCEPT ![a] = x]
  BY DEF Advances
<1> HIDE DEF x
<1> QED BY <1>1, <1>2, <1>3 DEF DirOf, Mine

(* The other acquisitions keep what they know of their server, unless the  *)
(* step takes it from under one that launches it.                          *)
Undisturbed(b) ==
    /\ acquiring'[b].op # "idle" => acquiring[b].op # "idle" /\ acquiring'[b].dir = acquiring[b].dir
    /\ acquiring'[b].op \in Busy => acquiring'[b] = acquiring[b]

LEMMA OthersHandle ==
    ASSUME Kept, NEW b \in Acquisition, Undisturbed(b), Made \subseteq Made',
           \A t \in Made : /\ server'[t].dir = server[t].dir
                           /\ server[t].retired => server'[t].retired,
           acquiring'[b].op = "launches" => server'[Mine(b)].locked /\ ~server'[Mine(b)].retired
    PROVE  Handles(b)'
<1>1. Handles(b)
  BY DEF Kept
<1>2. acquiring'[b].op \notin Busy => acquiring'[b].op \notin {"retires", "fails", "launches"}
  BY DEF Busy
<1> QED BY <1>1, <1>2 DEF Handles, Undisturbed, Mine, DirOf, Busy

LEMMA NobodyElseLaunches ==
    ASSUME Kept, NEW s \in Made, LockFree(s), NEW b \in Acquisition, acquiring[b].op = "launches"
    PROVE  Mine(b) # s
  BY DEF Kept, Handles, LockFree
-----------------------------------------------------------------------------
(* What is left to show of the steps that move one acquisition.            *)
LEMMA AcquisitionKept ==
    ASSUME Kept, NEW a \in Acquisition, acquiring' \in [Acquisition -> Acquisitions],
           server' \in Seq(Servers), registry' \in [Dir -> {0} \union Made'],
           UNCHANGED <<reserved, stopping>>, Registered', Reserved', Reachable', Made \subseteq Made',
           Handles(a)', \A b \in Acquisition \ {a} : Undisturbed(b) /\ Handles(b)',
           acquiring'[a].op = "launches" =>
              \A b \in Acquisition \ {a} : acquiring[b].op = "launches" => Mine(b) # acquiring'[a].server
    PROVE  Kept'
<1>1. Shapes'
  BY DEF Kept, Shapes
<1>2. LaunchesAlone'
  <2>1. ASSUME NEW b \in Acquisition, NEW c \in Acquisition, acquiring'[b].op = "launches",
               acquiring'[c].op = "launches", acquiring'[b].server = acquiring'[c].server, b # c
        PROVE  FALSE
    <3>1. \A d \in Acquisition \ {a} : acquiring'[d].op = "launches" => acquiring'[d] = acquiring[d]
      BY DEF Undisturbed, Busy
    <3>2. CASE b = a
      BY <2>1, <3>1, <3>2 DEF Mine
    <3>3. CASE c = a
      BY <2>1, <3>1, <3>3 DEF Mine
    <3>4. CASE b # a /\ c # a
      BY <2>1, <3>1, <3>4 DEF Kept, LaunchesAlone, Mine
    <3> QED BY <3>2, <3>3, <3>4
  <2> QED BY <2>1 DEF LaunchesAlone, Mine
<1> QED BY <1>1, <1>2 DEF Kept

LEMMA CallKept ==
    ASSUME Kept, NEW a \in Acquisition, NEW d \in Dir, CallAcquire(a, d)
    PROVE  Kept'
<1>1. acquiring \in [Acquisition -> Acquisitions] /\ acquiring[a] \in Acquisitions /\ Shapes
  BY DEF Kept, Shapes
<1> DEFINE x == [acquiring[a] EXCEPT !.dir = d, !.op = "looks", !.attempt = 1]
<1>2. x \in Acquisitions /\ x.op = "looks" /\ x.dir = d
  BY <1>1 DEF Acquisitions
<1>3. acquiring' = [acquiring EXCEPT ![a] = x] /\ UNCHANGED <<registry, reserved, server, stopping>>
  BY DEF CallAcquire
<1> HIDE DEF x
<1>4. /\ acquiring' \in [Acquisition -> Acquisitions] /\ acquiring'[a] = x
      /\ \A b \in Acquisition \ {a} : acquiring'[b] = acquiring[b]
  BY <1>1, <1>2, <1>3
<1>5. \A b \in Acquisition \ {a} : Undisturbed(b) /\ Handles(b)'
  BY <1>3, <1>4 DEF Kept, Handles, Undisturbed, Made, DirOf, Mine
<1>6. Handles(a)'
  BY <1>2, <1>4 DEF Handles, DirOf, Busy
<1>7. acquiring'[a].op # "launches" /\ Made \subseteq Made'
  BY <1>2, <1>3, <1>4 DEF Made
<1> QED BY <1>3, <1>4, <1>5, <1>6, <1>7, SameKept, AcquisitionKept

(* A call that ends or starts over: an entry of the registry that goes is  *)
(* that of a retired server.                                               *)
LEMMA IdleKept ==
    ASSUME Kept, NEW a \in Acquisition, acquiring[a].op # "idle",
           acquiring' \in [Acquisition -> Acquisitions], acquiring'[a].dir = DirOf(a), acquiring'[a].op \notin Busy,
           \A b \in Acquisition \ {a} : Undisturbed(b) /\ Handles(b)',
           server' \in Seq(Servers), registry' \in [Dir -> {0} \union Made'],
           UNCHANGED <<reserved, stopping>>, Registered', Reserved', Reachable', Made \subseteq Made'
    PROVE  Kept'
<1>1. acquiring'[a].op \notin {"retires", "fails", "launches"}
  BY DEF Busy
<1>2. Handles(a)'
  BY <1>1 DEF Handles, DirOf, Kept
<1> QED BY <1>1, <1>2, AcquisitionKept

LEMMA TimeOutKept == ASSUME Kept, NEW a \in Acquisition, TimeOut(a) PROVE Kept'
<1>1. acquiring \in [Acquisition -> Acquisitions] /\ acquiring[a].op = "waits"
      /\ acquiring' = Ended(acquiring, a, "raised") /\ UNCHANGED <<registry, reserved, server, stopping>>
  BY DEF Kept, Shapes, TimeOut
<1>2. Idles(acquiring', acquiring, a)
  BY <1>1, EndedIdles
<1>3. \A b \in Acquisition \ {a} : acquiring'[b] = acquiring[b]
  BY <1>2 DEF Idles
<1>4. \A b \in Acquisition \ {a} : Undisturbed(b) /\ Handles(b)'
  BY <1>1, <1>3 DEF Kept, Handles, Undisturbed, Made, DirOf, Mine
<1>5. Made \subseteq Made'
  BY <1>1 DEF Made
<1> QED BY <1>1, <1>2, <1>4, <1>5, SameKept, IdleKept DEF Idles, DirOf

LEMMA CheckKept == ASSUME Kept, NEW a \in Acquisition, Check(a) PROVE Kept'
<1>1. acquiring \in [Acquisition -> Acquisitions] /\ acquiring[a].op = "checks"
      /\ UNCHANGED <<registry, reserved, server, stopping>>
  BY DEF Kept, Shapes, Check
<1>2. Made \subseteq Made'
  BY <1>1 DEF Made
<1>3. CASE acquiring' = Ended(acquiring, a, "returned")
  <2>1. Idles(acquiring', acquiring, a)
    BY <1>1, <1>3, EndedIdles
  <2>2. \A b \in Acquisition \ {a} : acquiring'[b] = acquiring[b]
    BY <2>1 DEF Idles
  <2>3. \A b \in Acquisition \ {a} : Undisturbed(b) /\ Handles(b)'
    BY <1>1, <2>2 DEF Kept, Handles, Undisturbed, Made, DirOf, Mine
  <2> QED BY <1>1, <1>2, <2>1, <2>3, SameKept, IdleKept DEF Idles, DirOf
<1>4. CASE Advances(a, "discards")
  <2>1. /\ acquiring' \in [Acquisition -> Acquisitions]
        /\ acquiring'[a].op = "discards" /\ acquiring'[a].dir = DirOf(a) /\ acquiring'[a].server = Mine(a)
        /\ \A b \in Acquisition : b # a => acquiring'[b] = acquiring[b]
    BY <1>4, Advanced DEF Busy
  <2>2. \A b \in Acquisition \ {a} : Undisturbed(b) /\ Handles(b)'
    BY <1>1, <2>1 DEF Kept, Handles, Undisturbed, Made, DirOf, Mine
  <2>3. Handles(a)'
    <3>1. Handles(a) /\ acquiring[a].op \in Busy /\ acquiring[a].op # "idle"
      BY <1>1 DEF Kept, Busy
    <3>2. Mine(a)' = Mine(a) /\ DirOf(a)' = DirOf(a) /\ Made' = Made /\ server' = server
      BY <1>1, <2>1 DEF Mine, DirOf, Made
    <3> QED BY <2>1, <3>1, <3>2 DEF Handles
  <2> QED BY <1>1, <1>2, <2>1, <2>2, <2>3, SameKept, AcquisitionKept
<1> QED BY <1>3, <1>4 DEF Check
-----------------------------------------------------------------------------
(* The acquisition a sets its own server to e; no other acquisition        *)
(* launches it.                                                            *)
LEMMA OwnSet ==
    ASSUME Kept, NEW a \in Acquisition, NEW s \in Made, NEW e, SetsWell(s, e),
           UNCHANGED <<registry, reserved, stopping>>,
           \A b \in Acquisition \ {a} : /\ Undisturbed(b)
                                        /\ acquiring[b].op = "launches" => Mine(b) # s
    PROVE  /\ \A b \in Acquisition \ {a} : Handles(b)'
           /\ Made' = Made /\ \A t \in Made : server'[t].dir = server[t].dir
           /\ server'[s] = e /\ server' \in Seq(Servers) /\ registry' \in [Dir -> {0} \union Made']
           /\ Registered' /\ Reserved' /\ Reachable'
<1>1. /\ Made' = Made /\ server'[s] = e /\ \A t \in Made : t # s => server'[t] = server[t]
      /\ \A t \in Made : server'[t].dir = server[t].dir
  BY ServerSet DEF Kept, SetsWell
<1>2. \A t \in Made : server[t].retired => server'[t].retired
  BY <1>1 DEF SetsWell
<1>3. ASSUME NEW b \in Acquisition \ {a}, acquiring'[b].op = "launches"
      PROVE  server'[Mine(b)].locked /\ ~server'[Mine(b)].retired
  <2>1. acquiring'[b] = acquiring[b] /\ acquiring[b].op = "launches"
    BY <1>3 DEF Undisturbed, Busy
  <2>2. Mine(b) # s /\ Mine(b) \in Made /\ server[Mine(b)].locked /\ ~server[Mine(b)].retired
    BY <2>1 DEF Kept, Handles, Busy
  <2> QED BY <1>1, <2>2
<1>4. \A b \in Acquisition \ {a} : Handles(b)'
  BY <1>1, <1>2, <1>3, OthersHandle
<1> QED BY <1>1, <1>4, SetKept

LEMMA EnsureKept == ASSUME Kept, NEW a \in Acquisition, EnsureStarted(a) PROVE Kept'
<1> DEFINE s == Mine(a)
<1>1. /\ acquiring[a].op = "starts" /\ LockFree(s) /\ UNCHANGED <<registry, reserved, stopping>>
      /\ s \in Made /\ server[s].dir = DirOf(a) /\ DirOf(a) \in Dir /\ Shapes
  BY DEF EnsureStarted, Kept, Handles, Busy
<1>2. CASE UNCHANGED server /\ ((Advances(a, "retires") /\ server[s].retired) \/ Advances(a, "checks"))
  <2>1. PICK op \in {"retires", "checks"} : Advances(a, op) /\ (op = "retires" => server[s].retired)
    BY <1>2
  <2>2. /\ acquiring' \in [Acquisition -> Acquisitions]
        /\ acquiring'[a].op = op /\ acquiring'[a].dir = DirOf(a) /\ acquiring'[a].server = Mine(a)
        /\ \A b \in Acquisition : b # a => acquiring'[b] = acquiring[b]
    BY <2>1, Advanced DEF Busy
  <2>3. \A b \in Acquisition \ {a} : Undisturbed(b) /\ Handles(b)'
    BY <1>2, <2>2 DEF Kept, Handles, Undisturbed, Made, DirOf, Mine
  <2>4. Handles(a)' /\ Made \subseteq Made' /\ acquiring'[a].op # "launches"
    BY <1>1, <1>2, <2>1, <2>2 DEF Handles, Mine, DirOf, Made
  <2> QED BY <1>1, <1>2, <2>2, <2>3, <2>4, SameKept, AcquisitionKept
<1>3. CASE /\ ~server[s].retired /\ Advances(a, "launches")
           /\ server' = [server EXCEPT ![s].running = TRUE, ![s].locked = TRUE]
  <2> DEFINE e == [server[s] EXCEPT !.running = TRUE, !.locked = TRUE]
  <2>1. Sets(s, e)
    BY <1>1, <1>3, LaunchSet
  <2>2. e.retired = server[s].retired /\ e.locked
    BY <1>1, MadeFacts DEF Servers
  <2>3. SetsWell(s, e)
    BY <1>3, <2>1, <2>2 DEF SetsWell
  <2>4. /\ acquiring' \in [Acquisition -> Acquisitions]
        /\ acquiring'[a].op = "launches" /\ acquiring'[a].dir = DirOf(a) /\ acquiring'[a].server = s
        /\ \A b \in Acquisition : b # a => acquiring'[b] = acquiring[b]
    BY <1>3, Advanced DEF Busy
  <2>5. \A b \in Acquisition \ {a} : Undisturbed(b)
    BY <2>4 DEF Undisturbed
  <2>6. \A b \in Acquisition \ {a} : acquiring[b].op = "launches" => Mine(b) # s
    BY <1>1, NobodyElseLaunches
  <2> HIDE DEF e, s
  <2>7. /\ \A b \in Acquisition \ {a} : Handles(b)'
        /\ Made' = Made /\ \A t \in Made : server'[t].dir = server[t].dir
        /\ server'[s] = e /\ server' \in Seq(Servers) /\ registry' \in [Dir -> {0} \union Made']
        /\ Registered' /\ Reserved' /\ Reachable'
    BY <1>1, <2>3, <2>5, <2>6, OwnSet
  <2>8. Handles(a)'
    BY <1>1, <1>3, <2>2, <2>4, <2>7 DEF Handles, Mine, DirOf
  <2> QED BY <1>1, <2>4, <2>5, <2>6, <2>7, <2>8, AcquisitionKept
<1> QED BY <1>2, <1>3 DEF EnsureStarted

(* The steps of an acquisition that launches its server, alone.            *)
LEMMA LaunchingFacts ==
    ASSUME Kept, NEW a \in Acquisition, acquiring[a].op = "launches"
    PROVE  /\ Shapes /\ Mine(a) \in Made /\ server[Mine(a)].dir = DirOf(a) /\ DirOf(a) \in Dir
           /\ server[Mine(a)].locked /\ ~server[Mine(a)].retired
           /\ \A b \in Acquisition \ {a} : acquiring[b].op = "launches" => Mine(b) # Mine(a)
  BY DEF Kept, Handles, Busy, LaunchesAlone

LEMMA RelaunchKept == ASSUME Kept, NEW a \in Acquisition, Relaunch(a) PROVE Kept'
<1> DEFINE s == Mine(a)
           e == [server[s] EXCEPT !.running = TRUE]
           x == [acquiring[a] EXCEPT !.launch = acquiring[a].launch + 1]
<1>1. /\ acquiring[a].op = "launches" /\ UNCHANGED <<registry, reserved, stopping>>
      /\ server' = [server EXCEPT ![s].running = TRUE] /\ acquiring' = [acquiring EXCEPT ![a] = x]
  BY DEF Relaunch
<1>2. /\ Shapes /\ s \in Made /\ server[s].dir = DirOf(a) /\ DirOf(a) \in Dir
      /\ server[s].locked /\ ~server[s].retired
      /\ \A b \in Acquisition \ {a} : acquiring[b].op = "launches" => Mine(b) # s
  BY <1>1, LaunchingFacts
<1>3. e.retired = server[s].retired /\ e.locked = server[s].locked
  BY <1>2, MadeFacts DEF Servers
<1>4. SetsWell(s, e)
  BY <1>1, <1>2, <1>3, RunningSet DEF SetsWell
<1>5. acquiring \in [Acquisition -> Acquisitions] /\ acquiring[a] \in Acquisitions /\ acquiring[a].launch + 1 \in Nat
  BY <1>2 DEF Shapes, Acquisitions
<1>6. x \in Acquisitions /\ x.op = "launches" /\ x.dir = DirOf(a) /\ x.server = s
  BY <1>1, <1>5 DEF Acquisitions, DirOf, Mine
<1> HIDE DEF e, s, x
<1>7. /\ acquiring' \in [Acquisition -> Acquisitions] /\ acquiring'[a] = x
      /\ \A b \in Acquisition \ {a} : acquiring'[b] = acquiring[b]
  BY <1>1, <1>5, <1>6
<1>8. \A b \in Acquisition \ {a} : Undisturbed(b)
  BY <1>7 DEF Undisturbed
<1>9. /\ \A b \in Acquisition \ {a} : Handles(b)'
      /\ Made' = Made /\ \A t \in Made : server'[t].dir = server[t].dir
      /\ server'[s] = e /\ server' \in Seq(Servers) /\ registry' \in [Dir -> {0} \union Made']
      /\ Registered' /\ Reserved' /\ Reachable'
  BY <1>1, <1>2, <1>4, <1>8, OwnSet
<1>10. Handles(a)'
  BY <1>2, <1>3, <1>6, <1>7, <1>9 DEF Handles, Mine, DirOf
<1> QED BY <1>1, <1>2, <1>6, <1>7, <1>8, <1>9, <1>10, AcquisitionKept

LEMMA ReadyKept == ASSUME Kept, NEW a \in Acquisition, Ready(a) PROVE Kept'
<1> DEFINE s == Mine(a)
           e == [server[s] EXCEPT !.locked = FALSE]
<1>1. /\ acquiring[a].op = "launches" /\ UNCHANGED <<registry, reserved, stopping>>
      /\ server' = [server EXCEPT ![s].locked = FALSE] /\ Advances(a, "checks")
  BY DEF Ready
<1>2. /\ Shapes /\ s \in Made /\ server[s].dir = DirOf(a) /\ DirOf(a) \in Dir /\ ~server[s].retired
      /\ \A b \in Acquisition \ {a} : acquiring[b].op = "launches" => Mine(b) # s
  BY <1>1, LaunchingFacts
<1>3. e.retired = server[s].retired
  BY <1>2, MadeFacts DEF Servers
<1>4. SetsWell(s, e)
  BY <1>1, <1>2, <1>3, UnlockSet DEF SetsWell
<1>5. /\ acquiring' \in [Acquisition -> Acquisitions]
      /\ acquiring'[a].op = "checks" /\ acquiring'[a].dir = DirOf(a) /\ acquiring'[a].server = s
      /\ \A b \in Acquisition : b # a => acquiring'[b] = acquiring[b]
  BY <1>1, Advanced DEF Busy
<1>6. \A b \in Acquisition \ {a} : Undisturbed(b)
  BY <1>5 DEF Undisturbed
<1> HIDE DEF e, s
<1>7. /\ \A b \in Acquisition \ {a} : Handles(b)'
      /\ Made' = Made /\ \A t \in Made : server'[t].dir = server[t].dir
      /\ server'[s] = e /\ server' \in Seq(Servers) /\ registry' \in [Dir -> {0} \union Made']
      /\ Registered' /\ Reserved' /\ Reachable'
  BY <1>1, <1>2, <1>4, <1>6, OwnSet
<1>8. Handles(a)'
  BY <1>2, <1>5, <1>7 DEF Handles, Mine, DirOf
<1> QED BY <1>1, <1>5, <1>6, <1>7, <1>8, AcquisitionKept

LEMMA StartFailsKept == ASSUME Kept, NEW a \in Acquisition, StartFails(a) PROVE Kept'
<1> DEFINE s == Mine(a)
<1>1. /\ acquiring[a].op = "launches" /\ UNCHANGED <<registry, reserved, stopping>>
      /\ (\E raises \in BOOLEAN : server' = Terminated(s, raises)) /\ Advances(a, "fails")
  BY DEF StartFails
<1>2. /\ Shapes /\ s \in Made /\ server[s].dir = DirOf(a) /\ DirOf(a) \in Dir
      /\ \A b \in Acquisition \ {a} : acquiring[b].op = "launches" => Mine(b) # s
  BY <1>1, LaunchingFacts
<1>3. PICK e : Sets(s, e) /\ e.retired /\ ~e.running
  BY <1>1, <1>2, TerminatedSet
<1>4. SetsWell(s, e)
  BY <1>3 DEF SetsWell
<1>5. /\ acquiring' \in [Acquisition -> Acquisitions]
      /\ acquiring'[a].op = "fails" /\ acquiring'[a].dir = DirOf(a) /\ acquiring'[a].server = s
      /\ \A b \in Acquisition : b # a => acquiring'[b] = acquiring[b]
  BY <1>1, Advanced DEF Busy
<1>6. \A b \in Acquisition \ {a} : Undisturbed(b)
  BY <1>5 DEF Undisturbed
<1> HIDE DEF s
<1>7. /\ \A b \in Acquisition \ {a} : Handles(b)'
      /\ Made' = Made /\ \A t \in Made : server'[t].dir = server[t].dir
      /\ server'[s] = e /\ server' \in Seq(Servers) /\ registry' \in [Dir -> {0} \union Made']
      /\ Registered' /\ Reserved' /\ Reachable'
  BY <1>1, <1>2, <1>4, <1>6, OwnSet
<1>8. Handles(a)'
  BY <1>2, <1>3, <1>5, <1>7 DEF Handles, Mine, DirOf
<1> QED BY <1>1, <1>5, <1>6, <1>7, <1>8, AcquisitionKept

LEMMA DiscardKept == ASSUME Kept, NEW a \in Acquisition, Discard(a) PROVE Kept'
<1> DEFINE s == Mine(a)
<1>1. /\ acquiring[a].op = "discards" /\ UNCHANGED <<registry, reserved, stopping>> /\ LockFree(s)
      /\ \E raises \in BOOLEAN : server' = Terminated(s, raises)
      /\ acquiring' = Again(acquiring, a) \/ acquiring' = Ended(acquiring, a, "raised")
  BY DEF Discard
<1>2. Shapes /\ s \in Made /\ acquiring \in [Acquisition -> Acquisitions]
  BY <1>1 DEF Kept, Shapes, Handles, Busy
<1>3. PICK e : Sets(s, e) /\ e.retired /\ ~e.running
  BY <1>1, <1>2, TerminatedSet
<1>4. SetsWell(s, e)
  BY <1>3 DEF SetsWell
<1>5. Idles(acquiring', acquiring, a)
  BY <1>1, <1>2, AgainIdles, EndedIdles
<1>6. \A b \in Acquisition \ {a} : /\ Undisturbed(b)
                                   /\ acquiring[b].op = "launches" => Mine(b) # s
  BY <1>1, <1>2, <1>5, NobodyElseLaunches DEF Undisturbed, Idles
<1> HIDE DEF s
<1>7. /\ \A b \in Acquisition \ {a} : Handles(b)'
      /\ Made' = Made /\ server' \in Seq(Servers) /\ registry' \in [Dir -> {0} \union Made']
      /\ Registered' /\ Reserved' /\ Reachable'
  BY <1>1, <1>2, <1>4, <1>6, OwnSet
<1> QED BY <1>1, <1>5, <1>6, <1>7, IdleKept DEF Idles, DirOf
-----------------------------------------------------------------------------
LEMMA ReleaseKept == ASSUME Kept, NEW a \in Acquisition, ReleaseServer(a) PROVE Kept'
<1> DEFINE s == Mine(a)
           d == DirOf(a)
<1>1. /\ acquiring[a].op \in {"retires", "fails"} /\ UNCHANGED <<reserved, server, stopping>>
      /\ registry' = Unregister(d, s)
      /\ \/ acquiring' = Notified(Again(acquiring, a))
         \/ acquiring' = Notified(Ended(acquiring, a, "raised"))
  BY DEF ReleaseServer
<1>2. /\ Shapes /\ s \in Made /\ server[s].retired /\ server[s].dir = d /\ d \in Dir
      /\ acquiring \in [Acquisition -> Acquisitions]
  BY <1>1 DEF Kept, Shapes, Handles, Busy
<1>3. PICK g : Idles(g, acquiring, a) /\ acquiring' = Notified(g)
  BY <1>1, <1>2, AgainIdles, EndedIdles
<1>4. /\ acquiring' \in [Acquisition -> Acquisitions]
      /\ \A b \in Acquisition : /\ acquiring'[b].dir = acquiring[b].dir
                                /\ acquiring'[b].op \in Busy => b # a /\ acquiring'[b] = acquiring[b]
                                /\ acquiring'[b].op # "idle" => b = a \/ acquiring[b].op # "idle"
  BY <1>2, <1>3, NotifiedIdles
<1>5. Made' = Made /\ registry \in [Dir -> {0} \union Made]
  BY <1>1, <1>2 DEF Made, Shapes
<1>6. \A b \in Acquisition \ {a} : Undisturbed(b)
  BY <1>4 DEF Undisturbed
<1>7. \A b \in Acquisition \ {a} : Handles(b)'
  <2>1. ASSUME NEW b \in Acquisition \ {a} PROVE Handles(b)'
    <3>1. acquiring'[b].op = "launches" => server'[Mine(b)].locked /\ ~server'[Mine(b)].retired
      BY <1>1, <1>4 DEF Kept, Handles, Busy
    <3> QED BY <1>1, <1>5, <1>6, <3>1, OthersHandle
  <2> QED BY <2>1
(* Only the entry of the retired server goes.                              *)
<1>8. /\ registry' \in [Dir -> {0} \union Made']
      /\ \A f \in Dir : registry'[f] = registry[f] \/ (registry[f] = s /\ registry'[f] = 0)
  <2> HIDE DEF s, d
  <2>1. CASE registry[d] = s
    <3>1. registry' = [registry EXCEPT ![d] = 0]
      BY <1>1, <2>1 DEF Unregister
    <3> QED BY <1>2, <1>5, <2>1, <3>1
  <2>2. CASE registry[d] # s
    <3>1. registry' = registry
      BY <1>1, <2>2 DEF Unregister
    <3> QED BY <1>5, <3>1
  <2> QED BY <2>1, <2>2
<1>9. Registered'
  BY <1>1, <1>5, <1>8 DEF Kept, Registered
<1>10. Reachable'
  <2>1. ASSUME NEW t \in Made, ~server[t].retired
        PROVE  registry'[server[t].dir] = t \/ \E k \in Shutdown : t \in stopping[k].left
    <3>1. registry[server[t].dir] = t \/ \E k \in Shutdown : t \in stopping[k].left
      BY <2>1 DEF Kept, Reachable
    <3>2. server[t].dir \in Dir /\ t # s
      BY <1>2, <2>1, MadeFacts
    <3> QED BY <1>8, <3>1, <3>2
  <2> QED BY <1>1, <1>5, <2>1 DEF Kept, Reachable, Running
<1>11. Reserved'
  <2>1. \A k \in Shutdown : Hand(k)' = Hand(k) /\ (Between(k)' <=> Between(k))
    BY <1>1 DEF Hand, Between
  <2> QED BY <1>1, <1>5, <2>1 DEF Kept, Reserved
<1>12. server' \in Seq(Servers) /\ acquiring[a].op # "idle" /\ acquiring'[a].op \notin Busy /\ acquiring'[a].dir = d
  <2>1. acquiring'[a].op \notin Busy /\ acquiring'[a].dir = acquiring[a].dir
    BY ONLY <1>4
  <2>2. acquiring[a].op # "idle" /\ server' \in Seq(Servers)
    BY <1>1, <1>2 DEF Shapes
  <2> QED BY <2>1, <2>2 DEF DirOf
<1> QED BY <1>1, <1>4, <1>5, <1>6, <1>7, <1>8, <1>9, <1>10, <1>11, <1>12, IdleKept

LEMMA LookKept == ASSUME Kept, NEW a \in Acquisition, Look(a) PROVE Kept'
<1> DEFINE d == DirOf(a)
           n == Len(server) + 1
           new == [dir |-> d, retired |-> FALSE, running |-> FALSE, locked |-> FALSE, stray |-> FALSE]
<1>1. /\ acquiring[a].op = "looks" /\ UNCHANGED <<reserved, stopping>> /\ Shapes /\ d \in Dir
      /\ acquiring \in [Acquisition -> Acquisitions] /\ registry \in [Dir -> {0} \union Made]
      /\ server \in Seq(Servers)
  BY DEF Look, Kept, Shapes, Handles
<1>2. CASE Advances(a, "waits") /\ UNCHANGED <<registry, server>>
  <2>1. /\ acquiring' \in [Acquisition -> Acquisitions]
        /\ acquiring'[a].op = "waits" /\ acquiring'[a].dir = DirOf(a)
        /\ \A b \in Acquisition : b # a => acquiring'[b] = acquiring[b]
    BY <1>2, Advanced
  <2>2. \A b \in Acquisition \ {a} : Undisturbed(b) /\ Handles(b)'
    BY <1>2, <2>1 DEF Kept, Handles, Undisturbed, Made, DirOf, Mine
  <2>3. Made \subseteq Made' /\ acquiring[a].op # "idle" /\ acquiring'[a].op \notin Busy
    BY <1>1, <1>2, <2>1 DEF Made, Busy
  <2> QED BY <1>1, <1>2, <2>1, <2>2, <2>3, SameKept, IdleKept
<1> DEFINE Takes(s) == /\ acquiring' = [acquiring EXCEPT ![a].op = "starts", ![a].server = s, ![a].launch = 1]
                       /\ registry' = [registry EXCEPT ![d] = s]
<1>3. ASSUME NEW s \in Nat, Takes(s)
      PROVE  /\ acquiring' \in [Acquisition -> Acquisitions]
             /\ acquiring'[a].op = "starts" /\ acquiring'[a].dir = d /\ acquiring'[a].server = s
             /\ \A b \in Acquisition \ {a} : Undisturbed(b) /\ acquiring'[b] = acquiring[b]
             /\ registry'[d] = s /\ \A f \in Dir \ {d} : registry'[f] = registry[f]
  <2> DEFINE x == [acquiring[a] EXCEPT !.op = "starts", !.server = s, !.launch = 1]
  <2>1. acquiring' = [acquiring EXCEPT ![a] = x]
    BY <1>1, <1>3
  <2>2. acquiring[a] \in Acquisitions /\ 1 \in Nat
    BY <1>1
  <2>3. x \in Acquisitions /\ x.op = "starts" /\ x.dir = d /\ x.server = s
    BY <2>2 DEF Acquisitions, DirOf, Busy
  <2> HIDE DEF x
  <2>4. /\ acquiring' \in [Acquisition -> Acquisitions] /\ acquiring'[a] = x
        /\ \A b \in Acquisition \ {a} : acquiring'[b] = acquiring[b]
    BY <1>1, <2>1, <2>3
  <2>5. \A b \in Acquisition \ {a} : Undisturbed(b)
    BY <2>4 DEF Undisturbed
  <2> HIDE DEF d
  <2>6. registry'[d] = s /\ \A f \in Dir \ {d} : registry'[f] = registry[f]
    BY <1>1, <1>3
  <2> QED BY <2>3, <2>4, <2>5, <2>6
<1>4. CASE registry[d] # 0 /\ Takes(registry[d]) /\ UNCHANGED server
  <2> DEFINE s == registry[d]
  <2>1. s \in Nat /\ s \in Made /\ server[s].dir = d
    BY <1>1, <1>4, MadeFacts DEF Kept, Registered
  <2>2. registry' = registry /\ Made' = Made
    BY <1>1, <1>4 DEF Made
  <2> HIDE DEF s
  <2>3. /\ acquiring' \in [Acquisition -> Acquisitions]
        /\ acquiring'[a].op = "starts" /\ acquiring'[a].dir = d /\ acquiring'[a].server = s
        /\ \A b \in Acquisition \ {a} : Undisturbed(b) /\ acquiring'[b] = acquiring[b]
    BY <1>3, <1>4, <2>1 DEF s
  <2>4. \A b \in Acquisition \ {a} : Handles(b)'
    BY <1>4, <2>3 DEF Kept, Handles, Made, DirOf, Mine
  <2>5. Handles(a)'
    BY <1>1, <1>4, <2>1, <2>2, <2>3 DEF Handles, Mine, DirOf
  <2> QED BY <1>1, <1>4, <2>2, <2>3, <2>4, <2>5, SameKept, AcquisitionKept
<1>5. CASE /\ d \notin reserved /\ (registry[d] # 0 => server[registry[d]].retired)
           /\ Takes(n) /\ server' = Append(server, new)
  <2>1. new \in Servers /\ Len(server) \in Nat /\ n \in Nat
    BY <1>1, MadeFacts DEF Servers
  <2>2. /\ server' \in Seq(Servers) /\ Len(server') = n /\ server'[n] = new
        /\ \A t \in Made : server'[t] = server[t]
    BY <1>1, <1>5, <2>1, AppendProperties DEF Made
  <2>3. Made' = Made \union {n} /\ n \notin Made
    BY <2>1, <2>2 DEF Made
  <2>4. /\ acquiring' \in [Acquisition -> Acquisitions]
        /\ acquiring'[a].op = "starts" /\ acquiring'[a].dir = d /\ acquiring'[a].server = n
        /\ \A b \in Acquisition \ {a} : Undisturbed(b) /\ acquiring'[b] = acquiring[b]
        /\ registry'[d] = n /\ \A f \in Dir \ {d} : registry'[f] = registry[f]
    BY <1>3, <1>5, <2>1
  <2>5. new.dir = d /\ ~new.retired /\ ~new.running
    OBVIOUS
  <2> HIDE DEF new, n
  <2>6. registry' \in [Dir -> {0} \union Made']
    BY <1>1, <1>5, <2>3
  <2> HIDE DEF d, Takes
  <2>7. Registered'
    <3>1. ASSUME NEW f \in Dir, registry'[f] # 0 PROVE server'[registry'[f]].dir = f /\ f \notin reserved
      <4>1. CASE f = d
        BY <1>5, <2>2, <2>4, <2>5, <4>1
      <4>2. CASE f # d
        <5>1. registry'[f] = registry[f] /\ registry[f] \in Made
          BY <1>1, <2>4, <3>1, <4>2
        <5> QED BY <2>2, <3>1, <5>1 DEF Kept, Registered
      <4> QED BY <4>1, <4>2
    <3> QED BY <1>1, <3>1 DEF Registered
  <2>8. Reserved'
    <3>1. \A k \in Shutdown : Hand(k)' = Hand(k) /\ (Between(k)' <=> Between(k))
      BY <1>1 DEF Hand, Between
    <3>2. \A k \in Shutdown : \A t \in Hand(k) : t \in Made
      BY DEF Kept, Reserved
    <3>3. \A k \in Shutdown : Between(k) => stopping[k].server \in Made
      BY <3>2 DEF Hand
    <3>4. \A k \in Shutdown : \A t \in Hand(k) : server'[t] = server[t]
      BY <2>2, <3>2
    <3> QED BY <1>1, <2>2, <2>3, <3>1, <3>2, <3>3, <3>4 DEF Kept, Reserved
  <2>9. Reachable'
    <3>1. ASSUME NEW t \in Made'
          PROVE  /\ server'[t].running => ~server'[t].retired
                 /\ ~server'[t].retired => \/ registry'[server'[t].dir] = t
                                           \/ \E k \in Shutdown : t \in stopping[k].left
      <4>1. CASE t = n
        BY <2>2, <2>4, <2>5, <4>1
      <4>2. CASE t \in Made
        <5>1. server'[t] = server[t] /\ server[t].dir \in Dir
          BY <1>1, <2>2, <4>2, MadeFacts
        <5>2. /\ server[t].running => ~server[t].retired
              /\ ~server[t].retired => \/ registry[server[t].dir] = t
                                       \/ \E k \in Shutdown : t \in stopping[k].left
          BY <4>2 DEF Kept, Reachable, Running
        <5>3. ~server[t].retired /\ registry[server[t].dir] = t => server[t].dir # d
          BY <1>1, <1>5, <4>2, MadeFacts
        <5> QED BY <2>4, <5>1, <5>2, <5>3
      <4> QED BY <2>3, <4>1, <4>2
    <3> QED BY <1>1, <3>1 DEF Reachable, Running
  <2>10. \A b \in Acquisition \ {a} : Handles(b)'
    <3>1. ASSUME NEW b \in Acquisition \ {a} PROVE Handles(b)'
      <4>1. acquiring'[b].op = "launches" => server'[Mine(b)].locked /\ ~server'[Mine(b)].retired
        BY <2>2, <2>4 DEF Kept, Handles, Busy
      <4> QED BY <2>2, <2>3, <2>4, <4>1, OthersHandle
    <3> QED BY <3>1
  <2>11. Handles(a)'
    BY <1>1, <2>2, <2>3, <2>4, <2>5 DEF Handles, Mine, DirOf
  <2> QED BY <1>1, <2>2, <2>3, <2>4, <2>6, <2>7, <2>8, <2>9, <2>10, <2>11, AcquisitionKept
<1> QED BY <1>1, <1>2, <1>4, <1>5 DEF Look
-----------------------------------------------------------------------------
(* The steps of the shutdowns: no acquisition gets or loses a server.      *)
LEMMA ShutdownHandles ==
    ASSUME Kept, Made' = Made,
           \A t \in Made : server'[t].dir = server[t].dir /\ (server[t].retired => server'[t].retired),
           \A b \in Acquisition : Undisturbed(b),
           \A b \in Acquisition : acquiring[b].op = "launches" =>
              server'[Mine(b)].locked /\ ~server'[Mine(b)].retired
    PROVE  (\A b \in Acquisition : Handles(b)') /\ LaunchesAlone'
<1>1. ASSUME NEW b \in Acquisition PROVE Handles(b)'
  <2>1. acquiring'[b].op = "launches" => server'[Mine(b)].locked /\ ~server'[Mine(b)].retired
    BY DEF Undisturbed, Busy
  <2>2. Undisturbed(b) /\ Made \subseteq Made'
    OBVIOUS
  <2> QED BY <2>1, <2>2, OthersHandle
<1>2. \A b \in Acquisition : acquiring'[b].op = "launches" => acquiring'[b] = acquiring[b]
  BY DEF Undisturbed, Busy
<1> QED BY <1>1, <1>2 DEF Kept, LaunchesAlone, Mine

LEMMA CallShutdownKept ==
    ASSUME Kept, NEW k \in Shutdown, NEW dirs \in SUBSET Dir, CallShutdown(k, dirs)
    PROVE  Kept'
<1> DEFINE chosen == {registry[d] : d \in dirs} \ {0}
           x == [stopping[k] EXCEPT !.op = "stops", !.left = chosen]
<1>1. /\ stopping[k].op = "idle" /\ UNCHANGED <<server, acquiring>> /\ Shapes
      /\ registry' = [d \in Dir |-> IF d \in dirs THEN 0 ELSE registry[d]]
      /\ reserved' = reserved \union {server[s].dir : s \in chosen}
      /\ stopping' = [stopping EXCEPT ![k] = x]
  BY DEF CallShutdown, Reserves, Kept
<1>2. registry \in [Dir -> {0} \union Made] /\ Made' = Made /\ stopping \in [Shutdown -> Shutdowns]
  BY <1>1 DEF Shapes, Made
<1>3. \A s \in chosen : s \in Made /\ s \in Nat /\ server[s].dir \in dirs /\ registry[server[s].dir] = s
  BY <1>1, <1>2, MadeFacts DEF Kept, Registered
<1>4. x \in Shutdowns /\ x.op = "stops" /\ x.left = chosen
  <2>1. stopping[k] \in Shutdowns /\ chosen \in SUBSET Nat
    BY <1>2, <1>3
  <2> QED BY <2>1 DEF Shutdowns
<1> HIDE DEF x
<1>5. stopping' \in [Shutdown -> Shutdowns] /\ stopping'[k] = x /\ \A j \in Shutdown \ {k} : stopping'[j] = stopping[j]
  BY <1>1, <1>2, <1>4
<1>6. /\ Hand(k) = {} /\ Hand(k)' = chosen /\ ~Between(k)'
      /\ \A j \in Shutdown \ {k} : Hand(j)' = Hand(j) /\ (Between(j)' <=> Between(j))
  <2>1. stopping[k].left = {}
    BY <1>1 DEF Kept, Reserved
  <2> QED BY <1>1, <1>4, <1>5, <2>1 DEF Hand, Between
<1>7. \A d \in Dir : registry'[d] = IF d \in dirs THEN 0 ELSE registry[d]
  BY <1>1
<1>8. Shapes'
  <2>1. reserved' \in SUBSET Dir
    BY <1>1, <1>3 DEF Shapes
  <2>2. registry' \in [Dir -> {0} \union Made']
    BY <1>1, <1>2
  <2> QED BY <1>1, <1>5, <2>1, <2>2 DEF Shapes
<1>9. Registered'
  <2>1. ASSUME NEW d \in Dir, registry'[d] # 0 PROVE server[registry'[d]].dir = d /\ d \notin reserved'
    <3>1. d \notin dirs /\ registry'[d] = registry[d]
      BY <1>7, <2>1
    <3>2. server[registry[d]].dir = d /\ d \notin reserved
      BY <2>1, <3>1 DEF Kept, Registered
    <3> QED BY <1>1, <1>3, <3>1, <3>2
  <2> QED BY <1>1, <2>1 DEF Registered
<1>10. (\A b \in Acquisition : Handles(b)') /\ LaunchesAlone'
  <2>1. \A b \in Acquisition : Undisturbed(b)
    BY <1>1 DEF Undisturbed
  <2>2. \A b \in Acquisition : acquiring[b].op = "launches" => server'[Mine(b)].locked /\ ~server'[Mine(b)].retired
    BY <1>1 DEF Kept, Handles
  <2> QED BY <1>1, <1>2, <2>1, <2>2, ShutdownHandles
(* What was in a hand before had its directory reserved, and what was      *)
(* registered had not.                                                     *)
<1>11. Reserved'
  <2>1. \A j \in Shutdown : \A s \in Hand(j) : s \in Made /\ server[s].dir \in reserved
    BY DEF Kept, Reserved
  <2>2. \A s \in chosen : server[s].dir \notin reserved
    BY <1>3, MadeFacts, <1>1 DEF Kept, Registered
  <2>3. \A j \in Shutdown : \A s \in Hand(j)' : s \in Made' /\ server'[s].dir \in reserved'
    BY <1>1, <1>2, <1>3, <1>6, <2>1
  <2>4. ASSUME NEW i \in Shutdown, NEW j \in Shutdown, NEW s \in Hand(i)', NEW t \in Hand(j)',
               server[s].dir = server[t].dir
        PROVE  s = t /\ i = j
    <3>1. CASE i = k /\ j = k
      BY <1>3, <1>6, <2>4, <3>1
    <3>2. CASE i = k /\ j # k
      BY <1>6, <2>1, <2>2, <2>4, <3>2
    <3>3. CASE i # k /\ j = k
      BY <1>6, <2>1, <2>2, <2>4, <3>3
    <3>4. CASE i # k /\ j # k
      BY <1>6, <2>4, <3>4 DEF Kept, Reserved
    <3> QED BY <3>1, <3>2, <3>3, <3>4
  <2>5. \A j \in Shutdown : Between(j)' =>
           server'[stopping'[j].server].retired /\ stopping'[j].server \notin stopping'[j].left
    BY <1>1, <1>5, <1>6 DEF Kept, Reserved
  <2>6. \A j \in Shutdown : stopping'[j].op = "idle" => stopping'[j].left = {}
    BY <1>4, <1>5 DEF Kept, Reserved
  <2> QED BY <1>1, <2>3, <2>4, <2>5, <2>6 DEF Reserved
<1>12. Reachable'
  <2>1. ASSUME NEW t \in Made, ~server[t].retired
        PROVE  registry'[server[t].dir] = t \/ \E j \in Shutdown : t \in stopping'[j].left
    <3>1. server[t].dir \in Dir /\ t # 0
      BY <1>1, MadeFacts
    <3>2. CASE \E j \in Shutdown : t \in stopping[j].left
      <4>1. PICK j \in Shutdown : t \in stopping[j].left
        BY <3>2
      <4>2. j # k
        BY <1>1, <4>1 DEF Kept, Reserved
      <4> QED BY <1>5, <4>1, <4>2
    <3>3. CASE registry[server[t].dir] = t
      <4>1. CASE server[t].dir \in dirs
        <5>1. t \in chosen
          BY <3>1, <3>3, <4>1
        <5> QED BY <1>4, <1>5, <5>1
      <4>2. CASE server[t].dir \notin dirs
        BY <1>7, <3>1, <3>3, <4>2
      <4> QED BY <4>1, <4>2
    <3> QED BY <2>1, <3>2, <3>3 DEF Kept, Reachable
  <2> QED BY <1>1, <1>2, <2>1 DEF Kept, Reachable, Running
<1> QED BY <1>8, <1>9, <1>10, <1>11, <1>12 DEF Kept

(* A server that is being stopped is retired and has no process but a      *)
(* stray, and the shutdown keeps it in hand until its directory is free.   *)
LEMMA StopKept == ASSUME Kept, NEW k \in Shutdown, Stop(k) PROVE Kept'
<1>1. PICK s \in stopping[k].left, op \in {"frees", "raises"} :
         /\ LockFree(s) /\ server' = Terminated(s, op = "raises")
         /\ stopping' = [stopping EXCEPT ![k] = [op |-> op, left |-> stopping[k].left \ {s}, server |-> s]]
  <2>1. PICK s \in stopping[k].left, op \in {"frees", "raises"} :
           /\ LockFree(s) /\ server' = Terminated(s, op = "raises")
           /\ stopping' = [stopping EXCEPT ![k] = [op |-> op, left |-> @.left \ {s}, server |-> s]]
    BY DEF Stop
  <2>3. stopping' = [stopping EXCEPT ![k] = [op |-> op, left |-> stopping[k].left \ {s}, server |-> s]]
    BY <2>1
  <2> QED BY <2>1, <2>3
<1> DEFINE x == [op |-> op, left |-> stopping[k].left \ {s}, server |-> s]
<1>2. /\ stopping[k].op = "stops" /\ UNCHANGED <<registry, reserved, acquiring>> /\ Shapes
      /\ stopping \in [Shutdown -> Shutdowns]
  BY DEF Stop, Kept, Shapes
<1>3. s \in Hand(k) /\ s \in Made /\ s \in Nat
  BY <1>2, MadeFacts DEF Hand, Kept, Reserved
<1>4. PICK e : Sets(s, e) /\ e.retired /\ ~e.running
  BY <1>1, <1>2, <1>3, TerminatedSet
<1>5. /\ server' \in Seq(Servers) /\ Made' = Made /\ server'[s] = e
      /\ \A t \in Made : t # s => server'[t] = server[t]
      /\ \A t \in Made : server'[t].dir = server[t].dir
  BY <1>2, <1>3, <1>4, ServerSet
<1>6. \A t \in Made : server[t].retired => server'[t].retired
  BY <1>4, <1>5
<1>7. x \in Shutdowns /\ x.op = op /\ x.left = stopping[k].left \ {s} /\ x.server = s
  BY <1>2, <1>3 DEF Shutdowns
<1> HIDE DEF x
<1>8. stopping' \in [Shutdown -> Shutdowns] /\ stopping'[k] = x /\ \A j \in Shutdown \ {k} : stopping'[j] = stopping[j]
  <2>1. stopping' = [stopping EXCEPT ![k] = x]
    BY <1>1 DEF x
  <2> QED BY <1>2, <1>7, <2>1
<1>9. /\ Between(k)' /\ ~Between(k)
      /\ \A j \in Shutdown : Hand(j)' = Hand(j) /\ (j # k => (Between(j)' <=> Between(j)))
  <2>1. Between(k)' /\ ~Between(k)
    BY <1>1, <1>2, <1>7, <1>8 DEF Between
  <2>2. Hand(k)' = Hand(k)
    BY <1>7, <1>8, <2>1 DEF Hand
  <2>3. \A j \in Shutdown \ {k} : Hand(j)' = Hand(j) /\ (Between(j)' <=> Between(j))
    BY <1>8 DEF Hand, Between
  <2> QED BY <2>1, <2>2, <2>3
<1>10. (\A b \in Acquisition : Handles(b)') /\ LaunchesAlone'
  <2>1. \A b \in Acquisition : Undisturbed(b)
    BY <1>2 DEF Undisturbed
  <2>2. \A b \in Acquisition : acquiring[b].op = "launches" => server'[Mine(b)].locked /\ ~server'[Mine(b)].retired
    <3>1. \A b \in Acquisition : acquiring[b].op = "launches" =>
             /\ Mine(b) \in Made /\ server[Mine(b)].locked /\ ~server[Mine(b)].retired
      BY DEF Kept, Handles, Busy
    <3> QED BY <1>1, <1>3, <1>5, <3>1, NobodyElseLaunches
  <2> QED BY <1>5, <1>6, <2>1, <2>2, ShutdownHandles
<1>11. Registered'
  <2>1. \A d \in Dir : registry[d] \in {0} \union Made
    BY <1>2 DEF Shapes
  <2> QED BY <1>2, <1>5, <2>1 DEF Kept, Registered
<1>12. Reserved'
  <2>1. \A j \in Shutdown : \A t \in Hand(j) : t \in Made
    BY DEF Kept, Reserved
  <2>2. \A j \in Shutdown : Between(j) => stopping[j].server \in Made
    BY <2>1 DEF Hand
  <2>3. \A j \in Shutdown : \A t \in Hand(j)' : t \in Made' /\ server'[t].dir \in reserved'
    BY <1>2, <1>5, <1>9 DEF Kept, Reserved
  <2>4. \A i, j \in Shutdown : \A t \in Hand(i)', u \in Hand(j)' :
           server'[t].dir = server'[u].dir => t = u /\ i = j
    BY <1>5, <1>9, <2>1 DEF Kept, Reserved
  <2>5. ASSUME NEW j \in Shutdown, Between(j)'
        PROVE  server'[stopping'[j].server].retired /\ stopping'[j].server \notin stopping'[j].left
    <3>1. CASE j = k
      BY <1>4, <1>5, <1>7, <1>8, <3>1
    <3>2. CASE j # k
      BY <1>6, <1>8, <1>9, <2>2, <2>5, <3>2 DEF Kept, Reserved
    <3> QED BY <3>1, <3>2
  <2>6. \A j \in Shutdown : stopping'[j].op = "idle" => stopping'[j].left = {}
    BY <1>7, <1>8 DEF Kept, Reserved
  <2> QED BY <2>3, <2>4, <2>5, <2>6 DEF Reserved
<1>13. Reachable'
  <2>1. ASSUME NEW t \in Made
        PROVE  /\ server'[t].running => ~server'[t].retired
               /\ ~server'[t].retired => \/ registry[server'[t].dir] = t
                                         \/ \E j \in Shutdown : t \in stopping'[j].left
    <3>1. CASE t = s
      BY <1>4, <1>5, <3>1
    <3>2. CASE t # s
      <4>1. \A j \in Shutdown : t \in stopping[j].left => t \in stopping'[j].left
        BY <1>7, <1>8, <3>2
      <4> QED BY <1>5, <3>2, <4>1 DEF Kept, Reachable, Running
    <3> QED BY <3>1, <3>2
  <2> QED BY <1>2, <1>5, <2>1 DEF Reachable, Running
<1>14. Shapes'
  BY <1>2, <1>5, <1>8 DEF Shapes
<1> QED BY <1>10, <1>11, <1>12, <1>13, <1>14 DEF Kept

LEMMA FreeKept == ASSUME Kept, NEW k \in Shutdown, FreeDirectory(k) PROVE Kept'
<1> DEFINE s == stopping[k].server
           d == server[s].dir
           op == IF stopping[k].op = "raises" THEN "raised" ELSE IF stopping[k].left = {} THEN "done" ELSE "stops"
           x == [stopping[k] EXCEPT !.server = 0, !.op = op]
<1>1. /\ Between(k) /\ UNCHANGED <<registry, server>> /\ Shapes
      /\ reserved' = reserved \ {d} /\ acquiring' = Notified(acquiring)
      /\ stopping \in [Shutdown -> Shutdowns] /\ acquiring \in [Acquisition -> Acquisitions]
  BY DEF FreeDirectory, Kept, Shapes, Between, NotifyAll
<1>2. /\ s \in Hand(k) /\ server[s].retired /\ s \notin stopping[k].left /\ Made' = Made
      /\ stopping[k].left \subseteq Hand(k)
  BY <1>1 DEF Hand, Kept, Reserved, Made
<1>3. stopping' = [stopping EXCEPT ![k] = x]
  BY <1>1 DEF FreeDirectory
<1>4. x \in Shutdowns /\ x.op = op /\ x.left = stopping[k].left /\ x.op \notin {"idle", "frees", "raises"}
  BY <1>1 DEF Shutdowns
<1> HIDE DEF x, op
<1>5. stopping' \in [Shutdown -> Shutdowns] /\ stopping'[k] = x /\ \A j \in Shutdown \ {k} : stopping'[j] = stopping[j]
  BY <1>1, <1>3, <1>4
<1>6. /\ Hand(k)' = stopping[k].left /\ ~Between(k)'
      /\ \A j \in Shutdown \ {k} : Hand(j)' = Hand(j) /\ (Between(j)' <=> Between(j))
  BY <1>4, <1>5 DEF Hand, Between
<1> HIDE DEF s, d
<1>7. acquiring' \in [Acquisition -> Acquisitions] /\ \A b \in Acquisition : Undisturbed(b)
  <2>1. \A b \in Acquisition : /\ acquiring'[b].dir = acquiring[b].dir
                               /\ \/ acquiring'[b] = acquiring[b]
                                  \/ acquiring[b].op = "waits" /\ acquiring'[b].op = "looks"
    BY <1>1, NotifiedKeeps
  <2> QED BY <1>1, <2>1, NotifiedKeeps DEF Undisturbed, Busy
<1>8. (\A b \in Acquisition : Handles(b)') /\ LaunchesAlone'
  <2>1. \A b \in Acquisition : acquiring[b].op = "launches" => server'[Mine(b)].locked /\ ~server'[Mine(b)].retired
    BY <1>1 DEF Kept, Handles
  <2> QED BY <1>1, <1>2, <1>7, <2>1, ShutdownHandles
<1>9. Shapes'
  BY <1>1, <1>2, <1>5, <1>7 DEF Shapes
<1>10. Registered'
  BY <1>1 DEF Kept, Registered
(* No other server in a hand is for the directory that is freed.           *)
<1>11. Reserved'
  <2>1. \A j \in Shutdown : Hand(j)' \subseteq Hand(j)
    BY <1>2, <1>6
  <2>2. ASSUME NEW j \in Shutdown, NEW t \in Hand(j)' PROVE t \in Made' /\ server'[t].dir \in reserved'
    <3>1. t \in Made /\ server[t].dir \in reserved
      BY <2>1 DEF Kept, Reserved
    <3>2. server[t].dir # d
      <4>1. server[t].dir = d => t = s /\ j = k
        BY <1>2, <2>1 DEF Kept, Reserved, d
      <4>2. t # s \/ j # k
        BY <1>2, <1>6
      <4> QED BY <4>1, <4>2
    <3> QED BY <1>1, <1>2, <3>1, <3>2
  <2>3. \A i, j \in Shutdown : \A t \in Hand(i)', u \in Hand(j)' :
           server'[t].dir = server'[u].dir => t = u /\ i = j
    BY <1>1, <2>1 DEF Kept, Reserved
  <2>4. \A j \in Shutdown : Between(j)' =>
           server'[stopping'[j].server].retired /\ stopping'[j].server \notin stopping'[j].left
    BY <1>1, <1>5, <1>6 DEF Kept, Reserved
  <2>5. \A j \in Shutdown : stopping'[j].op = "idle" => stopping'[j].left = {}
    BY <1>4, <1>5 DEF Kept, Reserved
  <2> QED BY <2>2, <2>3, <2>4, <2>5 DEF Reserved
<1>12. Reachable'
  <2>1. \A j \in Shutdown : stopping'[j].left = stopping[j].left
    BY <1>4, <1>5
  <2> QED BY <1>1, <1>2, <2>1 DEF Kept, Reachable, Running
<1> QED BY <1>8, <1>9, <1>10, <1>11, <1>12 DEF Kept

LEMMA ExitKept == ASSUME Kept, NEW s \in Made, Exit(s) PROVE Kept'
<1> DEFINE e == [server[s] EXCEPT !.running = FALSE, !.stray = FALSE]
<1>1. /\ UNCHANGED <<registry, reserved, acquiring, stopping>> /\ Shapes
      /\ server' = [server EXCEPT ![s].running = FALSE, ![s].stray = FALSE]
  BY DEF Exit, Kept
<1>2. e.retired = server[s].retired /\ e.locked = server[s].locked /\ ~e.running
  BY <1>1, MadeFacts DEF Servers
<1>3. SetsWell(s, e)
  BY <1>1, <1>2, ExitSet DEF SetsWell
<1> HIDE DEF e
<1>4. /\ server' \in Seq(Servers) /\ Made' = Made /\ server'[s] = e
      /\ \A t \in Made : t # s => server'[t] = server[t]
      /\ \A t \in Made : server'[t].dir = server[t].dir
  BY <1>1, <1>3, ServerSet DEF SetsWell
<1>5. \A t \in Made : server[t].retired <=> server'[t].retired
  BY <1>2, <1>4
<1>6. \A t \in Made : server[t].locked <=> server'[t].locked
  BY <1>2, <1>4
<1>7. \A b \in Acquisition : Undisturbed(b)
  BY <1>1 DEF Undisturbed
<1>8. \A b \in Acquisition : acquiring[b].op = "launches" => server'[Mine(b)].locked /\ ~server'[Mine(b)].retired
  BY <1>5, <1>6 DEF Kept, Handles, Busy
<1>9. (\A b \in Acquisition : Handles(b)') /\ LaunchesAlone'
  BY <1>4, <1>5, <1>7, <1>8, ShutdownHandles
<1>10. /\ registry' \in [Dir -> {0} \union Made'] /\ Registered' /\ Reserved' /\ Reachable'
  BY <1>1, <1>3, SetKept
<1>11. Shapes'
  BY <1>1, <1>4, <1>10 DEF Shapes
<1> QED BY <1>9, <1>10, <1>11 DEF Kept
-----------------------------------------------------------------------------
LEMMA InitKept == ServersInit => Kept
<1> SUFFICES ASSUME ServersInit PROVE Kept
  OBVIOUS
<1>1. server = <<>> /\ server \in Seq(Servers) /\ Made = {}
  BY EmptySeq DEF ServersInit, Made
<1>2. Unserved \in Acquisitions /\ Unserved.op = "idle"
  BY DEF Unserved, Acquisitions
<1>3. NotStopping \in Shutdowns /\ NotStopping.op = "idle" /\ NotStopping.left = {}
  BY DEF NotStopping, Shutdowns
<1>4. /\ acquiring \in [Acquisition -> Acquisitions] /\ \A a \in Acquisition : acquiring[a].op = "idle"
      /\ stopping \in [Shutdown -> Shutdowns]
      /\ \A k \in Shutdown : stopping[k].op = "idle" /\ stopping[k].left = {}
      /\ registry = [d \in Dir |-> 0] /\ reserved = {}
  BY <1>2, <1>3 DEF ServersInit
<1>5. Shapes /\ Registered /\ LaunchesAlone /\ Reachable /\ \A a \in Acquisition : Handles(a)
  BY <1>1, <1>4 DEF Shapes, Registered, LaunchesAlone, Reachable, Handles, Busy
<1>6. Reserved
  <2>1. \A k \in Shutdown : Hand(k) = {} /\ ~Between(k)
    BY <1>4 DEF Hand, Between
  <2> QED BY <1>4, <2>1 DEF Reserved
<1> QED BY <1>5, <1>6 DEF Kept

LEMMA StillKept == Kept /\ UNCHANGED serversVars => Kept'
<1> SUFFICES ASSUME Kept, UNCHANGED serversVars PROVE Kept'
  OBVIOUS
<1>1. UNCHANGED <<registry, reserved, server, acquiring, stopping>>
  BY DEF serversVars
<1>2. \A k \in Shutdown : Hand(k)' = Hand(k) /\ (Between(k)' <=> Between(k))
  BY <1>1 DEF Hand, Between
<1>3. Registered' /\ Reserved' /\ Reachable'
  BY <1>1, SameKept
<1>4. Shapes' /\ LaunchesAlone'
  BY <1>1 DEF Kept, Shapes, LaunchesAlone, Made, Mine
<1>5. \A a \in Acquisition : Handles(a)'
  BY <1>1 DEF Kept, Handles, Made, Mine, DirOf
<1> QED BY <1>3, <1>4, <1>5 DEF Kept

LEMMA KeptInvariant == ServersSpec => []Kept
<1>1. ASSUME Kept, [ServersNext]_serversVars PROVE Kept'
  <2>1. ASSUME NEW a \in Acquisition, Acquire(a) PROVE Kept'
    BY <1>1, <2>1, LookKept, EnsureKept, RelaunchKept, ReadyKept, StartFailsKept, ReleaseKept,
       CheckKept, DiscardKept DEF Acquire
  <2> QED BY <1>1, <2>1, TimeOutKept, CallKept, StopKept, FreeKept, CallShutdownKept, ExitKept, StillKept
          DEF ServersNext
<1> QED BY <1>1, InitKept, PTL DEF ServersSpec

(* However acquisitions and shutdowns of any number interleave, processes  *)
(* exit and terminations raise, a directory has at most one process beside *)
(* those that a termination that raised has let go of, and none but these  *)
(* runs that is neither registered nor about to be stopped                 *)
(* (verification/store/server.py:458-632).                                 *)
THEOREM ServersAlwaysKept == ServersSpec => []ServersKept
<1>1. ASSUME Kept PROVE ServersKept
  <2>1. \A s \in Made : Running(s) => \/ registry[server[s].dir] = s
                                      \/ \E k \in Shutdown : s \in Hand(k)
    BY <1>1 DEF Kept, Reachable, Hand
  <2>2. \A k \in Shutdown : \A s \in Hand(k) : server[s].dir \in reserved
    BY <1>1 DEF Kept, Reserved
  <2>3. ServersTracked
    BY <2>1, <2>2 DEF ServersTracked, Process
  <2>4. ASSUME NEW s \in Made, NEW t \in Made, Running(s), Running(t), server[s].dir = server[t].dir
        PROVE  s = t
    <3>1. server[s].dir \in Dir /\ s # 0 /\ t # 0
      BY <1>1, MadeFacts DEF Kept
    <3>2. registry[server[s].dir] # 0 => server[s].dir \notin reserved
      BY <1>1, <3>1 DEF Kept, Registered
    <3>3. \A k, j \in Shutdown : s \in Hand(k) /\ t \in Hand(j) => s = t
      BY <1>1, <2>4 DEF Kept, Reserved
    <3> QED BY <2>1, <2>2, <2>4, <3>1, <3>2, <3>3
  <2> QED BY <2>3, <2>4 DEF ServersKept, ServersExclusive, Process
<1> QED BY <1>1, KeptInvariant, PTL
(* What an acquisition has in hand when it is not busy, and its attempts.  *)
Handed(a) == /\ acquiring[a].op \notin Busy => Mine(a) = 0
             /\ acquiring[a].attempt \in 0 .. Attempts

(* The record of an acquisition, by its fields.                            *)
IsHand(e) == \E d, o, s, t, l : e = [dir |-> d, op |-> o, server |-> s, attempt |-> t, launch |-> l]

LEMMA HandedStays ==
    ASSUME Shapes, [ServersNext]_serversVars, \A a \in Acquisition : Handed(a), NEW b \in Acquisition
    PROVE  Handed(b)'
<1>1. /\ \A a \in Acquisition : acquiring[a] \in Acquisitions /\ Handed(a)
      /\ acquiring \in [Acquisition -> Acquisitions]
      /\ Attempts \in Nat \ {0}
  BY ServersAssumption DEF Shapes
<1>2. ASSUME NEW a \in Acquisition, Acquire(a) \/ TimeOut(a) \/ \E d \in Dir : CallAcquire(a, d)
      PROVE  Handed(b)'
  <2>1. CASE \E d \in Dir : CallAcquire(a, d)
    BY <1>1, <2>1 DEF CallAcquire, Handed, Busy, Mine, Acquisitions
  <2>0. /\ acquiring[a].op \notin Busy => acquiring[a].server = 0
        /\ acquiring[b].op \notin Busy => acquiring[b].server = 0
        /\ acquiring[a].attempt \in 0 .. Attempts /\ acquiring[b].attempt \in 0 .. Attempts
        /\ acquiring[a] \in Acquisitions /\ acquiring[b] \in Acquisitions
    BY <1>1 DEF Handed, Mine
  <2>t. ASSUME NEW op, Advances(a, op), op \in Busy \/ acquiring[a].op \notin Busy
        PROVE  Handed(b)'
    <3>1. acquiring'[b] = IF b = a THEN [acquiring[a] EXCEPT !.op = op] ELSE acquiring[b]
      BY <1>1, <2>t DEF Advances
    <3> QED BY <2>0, <2>t, <3>1 DEF Handed, Mine, Acquisitions
  <2>o. ASSUME NEW op, acquiring' = Ended(acquiring, a, op)
        PROVE  Handed(b)'
    <3>1. acquiring'[b] = IF b = a THEN [Unserved EXCEPT !.dir = acquiring[a].dir, !.op = op] ELSE acquiring[b]
      BY <1>1, <2>o DEF Ended
    <3> QED BY <1>1, <2>0, <3>1 DEF Handed, Mine, Unserved
  <2>2. CASE Look(a)
    <3>1. acquiring[a].op = "looks"
      BY <2>2 DEF Look
    <3>2. CASE Advances(a, "waits")
      BY <2>t, <3>1, <3>2 DEF Busy
    <3>3. CASE \E s : acquiring' = [acquiring EXCEPT ![a].op = "starts", ![a].server = s, ![a].launch = 1]
      <4>1. PICK s : acquiring'[b] = IF b = a THEN [acquiring[a] EXCEPT !.op = "starts", !.server = s, !.launch = 1]
                                     ELSE acquiring[b]
        BY <1>1, <3>3
      <4> QED BY <2>0, <4>1 DEF Handed, Mine, Acquisitions, Busy
    <3> QED BY <2>2, <3>2, <3>3 DEF Look
  <2>3. CASE TimeOut(a) \/ EnsureStarted(a) \/ Ready(a) \/ StartFails(a) \/ Check(a)
    BY <2>3, <2>o, <2>t DEF TimeOut, EnsureStarted, Ready, StartFails, Check, Busy
  <2>r. CASE Relaunch(a)
    <3>1. /\ acquiring[a].op = "launches"
          /\ acquiring'[b] = IF b = a THEN [acquiring[a] EXCEPT !.launch = acquiring[a].launch + 1] ELSE acquiring[b]
      BY <1>1, <2>r DEF Relaunch
    <3> QED BY <2>0, <3>1 DEF Handed, Mine, Acquisitions, Busy
  <2>4. ASSUME NEW f, f = Again(acquiring, a) \/ f = Ended(acquiring, a, "raised")
        PROVE  /\ f[b].op \notin Busy => f[b].server = 0
               /\ f[b].attempt \in 0 .. Attempts
               /\ IsHand(f[b])
    <3>1. CASE f = Ended(acquiring, a, "raised")
      <4>1. f[b] = IF b = a THEN [Unserved EXCEPT !.dir = acquiring[a].dir, !.op = "raised"] ELSE acquiring[b]
        BY <1>1, <3>1 DEF Ended
      <4>2. IsHand(f[b])
        BY <2>0, <4>1 DEF Unserved, Acquisitions, IsHand
      <4> QED BY <1>1, <2>0, <4>1, <4>2 DEF Unserved
    <3>2. CASE /\ f = [acquiring EXCEPT ![a].op = "looks", ![a].attempt = @ + 1, ![a].server = 0, ![a].launch = 0]
               /\ acquiring[a].attempt < Attempts
      <4>1. f[b] = IF b = a THEN [acquiring[a] EXCEPT !.op = "looks", !.attempt = acquiring[a].attempt + 1,
                                                     !.server = 0, !.launch = 0] ELSE acquiring[b]
        BY <1>1, <3>2
      <4>2. b = a => f[b].server = 0 /\ f[b].attempt = acquiring[a].attempt + 1
        BY <2>0, <4>1 DEF Acquisitions
      <4>3. IsHand(f[b])
        BY <2>0, <4>1 DEF Acquisitions, IsHand
      <4> QED BY <1>1, <2>0, <3>2, <4>1, <4>2, <4>3
    <3> QED BY <2>4, <3>1, <3>2 DEF Again
  <2>5. CASE ReleaseServer(a)
    <3>1. acquiring' = Notified(Again(acquiring, a)) \/ acquiring' = Notified(Ended(acquiring, a, "raised"))
      BY <2>5 DEF ReleaseServer
    <3>2. PICK f : /\ acquiring' = Notified(f)
                   /\ f[b].op \notin Busy => f[b].server = 0
                   /\ f[b].attempt \in 0 .. Attempts
                   /\ IsHand(f[b])
      BY <2>4, <3>1
    <3>3. acquiring'[b] = IF f[b].op = "waits" THEN [f[b] EXCEPT !.op = "looks"] ELSE f[b]
      BY <3>2 DEF Notified
    <3> QED BY <3>2, <3>3 DEF Handed, Mine, Busy, IsHand
  <2>6. CASE Discard(a)
    BY <2>4, <2>6 DEF Discard, Handed, Mine
  <2> QED BY <1>2, <2>1, <2>2, <2>3, <2>r, <2>5, <2>6 DEF Acquire
<1>3. CASE UNCHANGED acquiring
  BY <1>1, <1>3 DEF Handed, Mine
<1>4. CASE acquiring' = Notified(acquiring)
  BY <1>1, <1>4 DEF Notified, Handed, Busy, Mine, Acquisitions
<1>5. \/ UNCHANGED acquiring \/ acquiring' = Notified(acquiring)
      \/ \E a \in Acquisition : Acquire(a) \/ TimeOut(a) \/ \E d \in Dir : CallAcquire(a, d)
  BY DEF ServersNext, serversVars, Stop, FreeDirectory, NotifyAll, CallShutdown, Exit
<1> QED BY <1>2, <1>3, <1>4, <1>5

(* The types: what a server, a call that is in progress and a shutdown     *)
(* have in hand was made, and no acquisition tries more often than         *)
(* _ACQUISITION_ATTEMPTS.                                                  *)
THEOREM ServersTyped == ServersSpec => []ServersTypeOK
<1> DEFINE Hands == \A a \in Acquisition : Handed(a)
<1>1. ServersInit => Hands
  BY ServersAssumption DEF ServersInit, Unserved, Handed, Mine
<1>2. Kept /\ Hands /\ [ServersNext]_serversVars => Hands'
  <2> SUFFICES ASSUME Kept, Hands, [ServersNext]_serversVars, NEW b \in Acquisition PROVE Handed(b)'
    OBVIOUS
  <2>1. Shapes
    BY DEF Kept
  <2> QED BY <2>1, HandedStays
<1>3. Kept /\ Hands => ServersTypeOK
  <2> SUFFICES ASSUME Kept, Hands PROVE ServersTypeOK
    OBVIOUS
  <2>1. Shapes /\ (\A a \in Acquisition : Handles(a)) /\ Reserved
    BY DEF Kept
  <2>2. \A s \in Made : server[s] \in Servers
    BY <2>1, MadeFacts
  <2>3. \A k \in Shutdown : stopping[k].left \in SUBSET Made
    BY <2>1 DEF Reserved, Hand
  <2>4. \A a \in Acquisition : /\ acquiring[a].op # "idle" => DirOf(a) \in Dir
                              /\ Mine(a) \in {0} \union Made
                              /\ acquiring[a].attempt \in 0 .. Attempts
    BY <2>1 DEF Handles, Handed
  <2> QED BY <2>1, <2>2, <2>3, <2>4 DEF ServersTypeOK, Shapes, Servers
<1> HIDE DEF Hands
<1> QED BY <1>1, <1>2, <1>3, KeptInvariant, PTL DEF ServersSpec
-----------------------------------------------------------------------------
(* The rows that a report has: what every set of rows is made of.          *)
Shaped(w) ==
    \E r \in Report :
        \/ w = Row("run", <<r>>)
        \/ \E c \in Bundle[r] : w = Row("receipt", <<c>>) \/ w = Row("link", <<r, c>>)
        \/ \E e \in Records[r] : w = Row("evidence", <<e>>)
        \/ \E e \in Records[r], c \in Producer, t \in Time : w = Observation(e, c, t)

AllRows == UNION {RowsOf(r, c, t) : r \in Report, c \in Producer, t \in Time}
OncePerIdentity(R) == \A v, w \in R : SameIdentity(v, w) => v = w

Seen(e, c, R) == \E t \in Time : Observation(e, c, t) \in R

(* A report of which a row is there is there with everything, and each     *)
(* producer who has observed a record of it has observed them all.         *)
Whole(r, R) ==
    /\ Row("run", <<r>>) \in R
    /\ \A c \in Bundle[r] : Row("receipt", <<c>>) \in R /\ Row("link", <<r, c>>) \in R
    /\ \A e \in Records[r] : Row("evidence", <<e>>) \in R
Reported(r, c, R) == Whole(r, R) /\ \A e \in Records[r] : Seen(e, c, R)
Touched(r, R) == \/ Row("run", <<r>>) \in R
                 \/ \E c \in Bundle[r] : Row("link", <<r, c>>) \in R
                 \/ \E e \in Records[r] : Row("evidence", <<e>>) \in R
Closed(R) ==
    \A r \in Report :
        /\ Touched(r, R) => \E c \in Producer : Reported(r, c, R)
        /\ \A c \in Producer, e \in Records[r] : Seen(e, c, R) => Reported(r, c, R)
-----------------------------------------------------------------------------
Gathered(S) == UNION {S[n] : n \in 1 .. Len(S)}
Batched(p) == Gathered(job[p].batches)

Opening == {"open", "create", "tables", "migrate"}
Chosen == {"evidence", "runs", "links", "receipts", "replace"}

(* What the queries of a publication have found so far: complete for the   *)
(* tables that have been asked for, and nothing of the others.             *)
SeenTogether(c, R) ==
    /\ \A w \in Of("observation", R) : w.key[2] = c
    /\ \A r \in Report : \A e, f \in Records[r] : Seen(e, c, R) => Seen(f, c, R)
Asked(asking) ==
    CASE asking = "evidence" -> {"observation"}
      [] asking = "runs"     -> {"observation", "evidence"}
      [] asking = "links"    -> {"observation", "evidence", "run"}
      [] asking = "receipts" -> {"observation", "evidence", "run", "link"}
      [] asking = "replace"  -> {"observation", "evidence", "run", "link", "receipt"}
Found(c, R, asked) ==
    /\ \A w \in R : w.table \in asked
    /\ SeenTogether(c, R)
    /\ "evidence" \in asked =>
          \A r \in Report : \A e \in Records[r] : Row("evidence", <<e>>) \in R <=> Seen(e, c, R)
    /\ "run" \in asked =>
          \A r \in Report : Row("run", <<r>>) \in R <=> \E e \in Records[r] : Row("evidence", <<e>>) \in R
    /\ "link" \in asked =>
          \A r \in Report : \A d \in Bundle[r] : Row("link", <<r, d>>) \in R <=> Row("run", <<r>>) \in R
    /\ "receipt" \in asked =>
          \A d \in UNION {Bundle[r] : r \in Report} : Row("receipt", <<d>>) \in R <=> \E r \in Report : d \in Bundle[r] /\ Row("link", <<r, d>>) \in R

Recording(p) ==
    /\ job[p].phase \in Opening \union {"commit"}
    /\ \E r \in Report, c \in Producer : job[p].got = RowsOf(r, c, Now)
Publishing(p) ==
    \/ job[p].phase \in Opening \union {"observations"} /\ job[p].got = {}
    \/ /\ job[p].phase \in Chosen
       /\ job[p].got \subseteq Home(p)
       /\ Found(job[p].producer, job[p].got, Asked(job[p].phase))
Refreshing(p) ==
    /\ \/ job[p].phase = "read" /\ job[p].unread # {}
       \/ job[p].phase \in Opening \union {"compare"} /\ job[p].batches # <<>>
       \/ job[p].phase = "commit" /\ job[p].batches = <<>>
    /\ OncePerIdentity(job[p].got)
    /\ \A n \in 1 .. Len(job[p].batches) : OncePerIdentity(job[p].batches[n])
    /\ Closed(Home(p) \union job[p].got \union Batched(p))

(* The store a process works on has tables once it is past opening it.     *)
HasTables(p) ==
    job[p].phase \in {"commit", "observations", "compare"} \union Chosen
        => schema[job[p].store] = "tables"

JobOK(p) ==
    /\ job[p].ended # "refused"
    /\ job[p].phase # "idle" =>
          /\ job[p].store \in EvStore
          /\ \/ job[p].op = "record" /\ Recording(p)
             \/ job[p].op = "publish" /\ Publishing(p)
             \/ job[p].op = "refresh" /\ Refreshing(p)

Job == [op : {"none", "record", "publish", "refresh"},
        phase : {"idle", "commit", "observations", "read", "compare"} \union Opening \union Chosen,
        store : EvStore \union {NoJob.store}, producer : Producer, created : BOOLEAN,
        unread : SUBSET Producer, batches : Seq(SUBSET AllRows), got : SUBSET AllRows,
        ended : {"none", "failed", "refused"}]

Filed(R) == R \subseteq AllRows /\ OncePerIdentity(R)

Types ==
    /\ schema \in [EvStore -> {"absent", "bare", "tables"}]
    /\ opened \in [EvProcess -> SUBSET EvStore]
    /\ rows \in [EvStore -> SUBSET AllRows] /\ published \in [Producer -> SUBSET AllRows]
    /\ \A p \in EvProcess, s \in EvStore : s \in opened[p] => schema[s] = "tables"
    /\ job \in [EvProcess -> Job]
Stores == \A s \in EvStore : Filed(rows[s]) /\ Closed(rows[s])
Snapshots == \A c \in Producer : Filed(published[c]) /\ CompleteGraph(c, published[c])
Jobs == \A p \in EvProcess : JobOK(p) /\ HasTables(p)

(* The inductive invariant.                                                *)
Archive == Types /\ Stores /\ Snapshots /\ Jobs
-----------------------------------------------------------------------------
(* Rows and their identities.                                              *)

LEMMA RowShapes == \A w \in AllRows : Shaped(w)
  BY DEF AllRows, RowsOf, Shaped, Row, Observation

LEMMA RowsOfReport ==
    ASSUME NEW r \in Report, NEW c \in Producer, NEW t \in Time
    PROVE  RowsOf(r, c, t) \subseteq AllRows
  BY DEF AllRows

LEMMA OneReport == \A r \in Report : \A e \in Records[r] : RunOf(e) = r
  <1> SUFFICES ASSUME NEW r \in Report, NEW e \in Records[r] PROVE RunOf(e) = r
    OBVIOUS
  <1>1. \A q \in Report : e \in Records[q] => q = r
    BY EvidenceAssumption
  <1> QED
    BY <1>1 DEF RunOf

(* The identifiers of the rows of a table.                                 *)
LEMMA RowIdentifiers ==
    ASSUME NEW R, R \subseteq AllRows
    PROVE  /\ \A r : r \in Firsts("run", R) <=> Row("run", <<r>>) \in R
           /\ \A c : c \in Firsts("receipt", R) <=> Row("receipt", <<c>>) \in R
           /\ \A e : e \in Firsts("evidence", R) <=> Row("evidence", <<e>>) \in R
           /\ \A r, c : <<r, c>> \in KeysOf("link", R) <=> Row("link", <<r, c>>) \in R
           /\ \A k : k \in KeysOf("link", R) =>
                 \E r \in Report : \E c \in Bundle[r] : k = <<r, c>>
           /\ \A e : e \in Firsts("observation", R) <=> \E c \in Producer : Seen(e, c, R)
  <1>1. \A w \in R : Shaped(w)
    BY RowShapes
  <1>2. \A r : r \in Firsts("run", R) <=> Row("run", <<r>>) \in R
    BY <1>1 DEF Firsts, Of, Shaped, Row, Observation
  <1>3. \A c : c \in Firsts("receipt", R) <=> Row("receipt", <<c>>) \in R
    BY <1>1 DEF Firsts, Of, Shaped, Row, Observation
  <1>4. \A e : e \in Firsts("evidence", R) <=> Row("evidence", <<e>>) \in R
    BY <1>1 DEF Firsts, Of, Shaped, Row, Observation
  <1>5. \A r, c : <<r, c>> \in KeysOf("link", R) <=> Row("link", <<r, c>>) \in R
    BY <1>1 DEF KeysOf, Of, Shaped, Row, Observation
  <1>6. \A k : k \in KeysOf("link", R) => \E r \in Report : \E c \in Bundle[r] : k = <<r, c>>
    BY <1>1 DEF KeysOf, Of, Shaped, Row, Observation
  <1>7. \A e : e \in Firsts("observation", R) <=> \E c \in Producer : Seen(e, c, R)
    <2>1. ASSUME NEW e, e \in Firsts("observation", R) PROVE \E c \in Producer : Seen(e, c, R)
      <3>1. PICK w \in R : w.table = "observation" /\ w.key[1] = e
        BY <2>1 DEF Firsts, Of
      <3>2. \E f, c, t : c \in Producer /\ t \in Time /\ w = Observation(f, c, t)
        BY <1>1, <3>1 DEF Shaped, Row
      <3> QED
        BY <3>1, <3>2 DEF Observation, Seen
    <2>2. ASSUME NEW e, NEW c, Seen(e, c, R) PROVE e \in Firsts("observation", R)
      <3>1. PICK t \in Time : Observation(e, c, t) \in R
        BY <2>2 DEF Seen
      <3>2. /\ Observation(e, c, t) \in Of("observation", R)
            /\ Observation(e, c, t).key[1] = e
        BY <3>1 DEF Of, Observation
      <3> QED
        BY <3>2 DEF Firsts
    <2> QED
      BY <2>1, <2>2
  <1> QED
    BY <1>2, <1>3, <1>4, <1>5, <1>6, <1>7

(* The reports to which the rows of a table belong.                        *)
LEMMA RowOwners ==
    ASSUME NEW R, R \subseteq AllRows
    PROVE  /\ \A r : Row("run", <<r>>) \in R => r \in Report
           /\ \A c : Row("receipt", <<c>>) \in R => \E r \in Report : c \in Bundle[r]
           /\ \A r, c : Row("link", <<r, c>>) \in R => r \in Report /\ c \in Bundle[r]
           /\ \A e : Row("evidence", <<e>>) \in R => \E r \in Report : e \in Records[r]
           /\ \A e, c, t : Observation(e, c, t) \in R =>
                 c \in Producer /\ t \in Time /\ \E r \in Report : e \in Records[r]
  <1>1. \A w \in R : Shaped(w)
    BY RowShapes
  <1> QED
    BY <1>1 DEF Shaped, Row, Observation

(* Only observations have a fact beyond their identity.                    *)
LEMMA SameRow ==
    ASSUME NEW v \in AllRows, NEW w \in AllRows, SameIdentity(v, w)
    PROVE  v = w \/ \E e, c : \E t, u \in Time : v = Observation(e, c, t) /\ w = Observation(e, c, u)
  <1>1. Shaped(v) /\ Shaped(w)
    BY RowShapes
  <1> QED
    BY <1>1 DEF Shaped, Row, Observation, SameIdentity
-----------------------------------------------------------------------------
(* Sets of whole reports.                                                  *)

LEMMA ClosedUnion ==
    ASSUME NEW R, NEW S, Closed(R), Closed(S)
    PROVE  Closed(R \union S)
  <1>1. ASSUME NEW r \in Report, NEW c \in Producer, Reported(r, c, R) \/ Reported(r, c, S)
        PROVE  Reported(r, c, R \union S)
    BY <1>1 DEF Reported, Whole, Seen
  <1>2. ASSUME NEW r \in Report, Touched(r, R \union S)
        PROVE  Touched(r, R) \/ Touched(r, S)
    BY <1>2 DEF Touched
  <1>3. ASSUME NEW e, NEW c, Seen(e, c, R \union S)
        PROVE  Seen(e, c, R) \/ Seen(e, c, S)
    BY <1>3 DEF Seen
  <1> QED
    BY <1>1, <1>2, <1>3 DEF Closed

LEMMA NothingIsComplete ==
    /\ Filed({}) /\ Closed({}) /\ \A c \in Producer : CompleteGraph(c, {})
  <1>1. Filed({})
    BY DEF Filed, OncePerIdentity
  <1>2. Closed({})
    BY DEF Closed, Touched, Seen
  <1>3. \A table : Of(table, {}) = {} /\ KeysOf(table, {}) = {} /\ Firsts(table, {}) = {}
    BY DEF Of, KeysOf, Firsts
  <1> QED
    BY <1>1, <1>2, <1>3 DEF CompleteGraph

(* What a graph lacks no row of is whole reports.                          *)
LEMMA CompleteIsClosed ==
    ASSUME NEW R, R \subseteq AllRows, NEW d \in Producer, CompleteGraph(d, R)
    PROVE  Closed(R)
  <1> DEFINE runs == Firsts("run", R)
  <1>1. /\ Firsts("evidence", R) = Firsts("observation", R)
        /\ runs = {RunOf(e) : e \in Firsts("evidence", R)}
        /\ KeysOf("link", R) = UNION {{r} \X Bundle[r] : r \in runs}
        /\ Firsts("receipt", R) = UNION {Bundle[r] : r \in runs}
        /\ Firsts("evidence", R) = UNION {Records[r] : r \in runs}
        /\ \A k \in KeysOf("observation", R) : k[2] = d
    BY DEF CompleteGraph
  <1>2. /\ \A r : r \in Firsts("run", R) <=> Row("run", <<r>>) \in R
        /\ \A c : c \in Firsts("receipt", R) <=> Row("receipt", <<c>>) \in R
        /\ \A e : e \in Firsts("evidence", R) <=> Row("evidence", <<e>>) \in R
        /\ \A r, c : <<r, c>> \in KeysOf("link", R) <=> Row("link", <<r, c>>) \in R
        /\ \A e : e \in Firsts("observation", R) <=> \E c \in Producer : Seen(e, c, R)
    BY RowIdentifiers
  <1>3. \A e, c : Seen(e, c, R) => c = d
    <2> SUFFICES ASSUME NEW e, NEW c, NEW t \in Time, Observation(e, c, t) \in R PROVE c = d
      BY DEF Seen
    <2>1. <<e, c>> \in KeysOf("observation", R)
      BY DEF KeysOf, Of, Observation
    <2> QED
      BY <1>1, <2>1
  <1>4. ASSUME NEW r \in Report, r \in runs PROVE Reported(r, d, R)
    <2>1. \A c \in Bundle[r] : <<r, c>> \in KeysOf("link", R) /\ c \in Firsts("receipt", R)
      BY <1>1, <1>4
    <2>2. \A e \in Records[r] : e \in Firsts("evidence", R)
      BY <1>1, <1>4
    <2>3. \A e \in Records[r] : Seen(e, d, R)
      BY <1>1, <1>2, <1>3, <2>2
    <2> QED
      BY <1>2, <1>4, <2>1, <2>2, <2>3 DEF Reported, Whole
  <1>5. ASSUME NEW r \in Report, NEW e \in Records[r], e \in Firsts("evidence", R) PROVE r \in runs
    <2>1. RunOf(e) = r
      BY OneReport
    <2> QED
      BY <1>1, <1>5, <2>1
  <1>6. ASSUME NEW r \in Report, Touched(r, R) PROVE r \in runs
    <2>1. CASE Row("run", <<r>>) \in R
      BY <1>2, <2>1
    <2>2. CASE \E c \in Bundle[r] : Row("link", <<r, c>>) \in R
      <3>1. PICK c \in Bundle[r] : <<r, c>> \in KeysOf("link", R)
        BY <1>2, <2>2
      <3>2. PICK q \in runs : <<r, c>> \in {q} \X Bundle[q]
        BY <1>1, <3>1
      <3> QED
        BY <3>2
    <2>3. CASE \E e \in Records[r] : Row("evidence", <<e>>) \in R
      BY <1>2, <1>5, <2>3
    <2> QED
      BY <1>6, <2>1, <2>2, <2>3 DEF Touched
  <1>7. ASSUME NEW r \in Report, NEW c \in Producer, NEW e \in Records[r], Seen(e, c, R)
        PROVE  Reported(r, c, R)
    <2>1. e \in Firsts("evidence", R) /\ c = d
      BY <1>1, <1>2, <1>3, <1>7
    <2> QED
      BY <1>4, <1>5, <2>1
  <1> QED
    BY <1>4, <1>6, <1>7 DEF Closed

(* And whole reports are what a store promises.                            *)
LEMMA ClosedIsComplete ==
    ASSUME NEW R, R \subseteq AllRows, Closed(R)
    PROVE  LET observed == Firsts("observation", R)
           IN /\ Firsts("evidence", R) = observed
              /\ Firsts("run", R) = {RunOf(e) : e \in observed}
              /\ \A r \in Firsts("run", R) : /\ Records[r] \subseteq observed
                                             /\ Bundle[r] \subseteq Firsts("receipt", R)
                                             /\ {r} \X Bundle[r] \subseteq KeysOf("link", R)
  <1> DEFINE observed == Firsts("observation", R)
  <1>1. /\ \A r : r \in Firsts("run", R) <=> Row("run", <<r>>) \in R
        /\ \A c : c \in Firsts("receipt", R) <=> Row("receipt", <<c>>) \in R
        /\ \A e : e \in Firsts("evidence", R) <=> Row("evidence", <<e>>) \in R
        /\ \A r, c : <<r, c>> \in KeysOf("link", R) <=> Row("link", <<r, c>>) \in R
        /\ \A e : e \in Firsts("observation", R) <=> \E c \in Producer : Seen(e, c, R)
    BY RowIdentifiers
  <1>2. /\ \A r : Row("run", <<r>>) \in R => r \in Report
        /\ \A e : Row("evidence", <<e>>) \in R => \E r \in Report : e \in Records[r]
        /\ \A e, c : Seen(e, c, R) => c \in Producer /\ \E r \in Report : e \in Records[r]
    BY RowOwners DEF Seen
  <1>3. \A e : e \in Firsts("evidence", R) => e \in observed
    BY <1>1, <1>2 DEF Closed, Touched, Reported
  <1>4. \A e : e \in observed => e \in Firsts("evidence", R) /\ RunOf(e) \in Firsts("run", R)
    <2> SUFFICES ASSUME NEW e, e \in observed
                 PROVE  e \in Firsts("evidence", R) /\ RunOf(e) \in Firsts("run", R)
      OBVIOUS
    <2>1. PICK c \in Producer : Seen(e, c, R)
      BY <1>1
    <2>2. PICK r \in Report : e \in Records[r]
      BY <1>2, <2>1
    <2>3. Whole(r, R) /\ RunOf(e) = r
      BY <2>1, <2>2, OneReport DEF Closed, Reported
    <2> QED
      BY <1>1, <2>2, <2>3 DEF Whole
  <1>5. ASSUME NEW r \in Firsts("run", R)
        PROVE  /\ Records[r] \subseteq observed /\ Bundle[r] \subseteq Firsts("receipt", R)
               /\ {r} \X Bundle[r] \subseteq KeysOf("link", R)
               /\ \E e \in observed : r = RunOf(e)
    <2>1. r \in Report /\ Row("run", <<r>>) \in R
      BY <1>1, <1>2
    <2>2. PICK c \in Producer : Reported(r, c, R)
      BY <2>1 DEF Closed, Touched
    <2>3. Records[r] \subseteq observed
      BY <1>1, <2>2 DEF Reported
    <2>4. Bundle[r] \subseteq Firsts("receipt", R) /\ {r} \X Bundle[r] \subseteq KeysOf("link", R)
      <3>1. \A c1 \in Bundle[r] : c1 \in Firsts("receipt", R) /\ <<r, c1>> \in KeysOf("link", R)
        BY <1>1, <2>2 DEF Reported, Whole
      <3>2. \A k \in {r} \X Bundle[r] : \E d \in Bundle[r] : k = <<r, d>>
        OBVIOUS
      <3>3. \A k \in {r} \X Bundle[r] : k \in KeysOf("link", R)
        BY <3>1, <3>2
      <3> QED
        BY <3>1, <3>3
    <2>5. PICK e : e \in Records[r]
      BY <2>1, EvidenceAssumption
    <2>6. r = RunOf(e)
      BY <2>1, <2>5, OneReport
    <2> QED
      BY <2>3, <2>4, <2>5, <2>6
  <1> QED
    BY <1>3, <1>4, <1>5

(* One report.                                                             *)
LEMMA RowsOfMembers ==
    ASSUME NEW r \in Report, NEW c, NEW t
    PROVE  LET S == RowsOf(r, c, t)
           IN /\ \A q : Row("run", <<q>>) \in S <=> q = r
              /\ \A d : Row("receipt", <<d>>) \in S <=> d \in Bundle[r]
              /\ \A q, d : Row("link", <<q, d>>) \in S <=> q = r /\ d \in Bundle[r]
              /\ \A e : Row("evidence", <<e>>) \in S <=> e \in Records[r]
              /\ \A e, d, u : Observation(e, d, u) \in S <=> e \in Records[r] /\ d = c /\ u = t
  <1> DEFINE S == RowsOf(r, c, t)
  <1>1. \A q : Row("run", <<q>>) \in S <=> q = r
    BY DEF RowsOf, Row, Observation
  <1>2. \A d : Row("receipt", <<d>>) \in S <=> d \in Bundle[r]
    BY DEF RowsOf, Row, Observation
  <1>3. \A q, d : Row("link", <<q, d>>) \in S <=> q = r /\ d \in Bundle[r]
    BY DEF RowsOf, Row, Observation
  <1>4. \A e : Row("evidence", <<e>>) \in S <=> e \in Records[r]
    BY DEF RowsOf, Row, Observation
  <1>5. \A e, d, u : Observation(e, d, u) \in S <=> e \in Records[r] /\ d = c /\ u = t
    BY DEF RowsOf, Row, Observation
  <1> QED
    BY <1>1, <1>2, <1>3, <1>4, <1>5

LEMMA RowsOfOnce ==
    ASSUME NEW r \in Report, NEW c \in Producer, NEW t \in Time
    PROVE  OncePerIdentity(RowsOf(r, c, t))
  <1> SUFFICES ASSUME NEW v \in RowsOf(r, c, t), NEW w \in RowsOf(r, c, t), SameIdentity(v, w)
               PROVE  v = w
    BY DEF OncePerIdentity
  <1>1. v \in AllRows /\ w \in AllRows
    BY RowsOfReport
  <1>2. \A e, d, u : Observation(e, d, u) \in RowsOf(r, c, t) <=> e \in Records[r] /\ d = c /\ u = t
    BY RowsOfMembers
  <1> QED
    BY <1>1, <1>2, SameRow

(* What a producer has recorded is whole, beside what was there already.   *)
LEMMA RecordKeepsClosed ==
    ASSUME NEW R, R \subseteq AllRows, Closed(R), OncePerIdentity(R),
           NEW r \in Report, NEW c \in Producer, NEW t \in Time
    PROVE  LET new == {w \in RowsOf(r, c, t) : ~Known(w, R)}
           IN Closed(R \union new) /\ OncePerIdentity(R \union new) /\ R \union new \subseteq AllRows
  <1> DEFINE S == RowsOf(r, c, t)
             new == {w \in S : ~Known(w, R)}
             T == R \union new
  <1>1. S \subseteq AllRows /\ new \subseteq S
    BY RowsOfReport
  <1>2. OncePerIdentity(T)
    BY <1>1, RowsOfOnce DEF OncePerIdentity, Known, SameIdentity
  <1>3. ASSUME NEW w \in S PROVE w \in T \/ \E v \in R : SameIdentity(v, w)
    BY DEF Known
  <1>4. ASSUME NEW table, NEW key, Row(table, key) \in S PROVE Row(table, key) \in T
    <2> SUFFICES ASSUME NEW v \in R, SameIdentity(v, Row(table, key)) PROVE Row(table, key) \in T
      BY <1>3, <1>4
    <2>1. v = Row(table, key) \/ \E e, d : \E u, x \in Time : Row(table, key) = Observation(e, d, x)
      BY <1>1, <1>4, SameRow
    <2>2. \A e, d : \A x \in Time : Row(table, key) # Observation(e, d, x)
      BY EvidenceAssumption DEF Row, Observation
    <2> QED
      BY <2>1, <2>2
  <1>5. \A e \in Records[r] : Seen(e, c, T)
    <2> SUFFICES ASSUME NEW e \in Records[r] PROVE Seen(e, c, T)
      OBVIOUS
    <2> DEFINE w == Observation(e, c, t)
    <2>1. w \in S
      BY RowsOfMembers
    <2>2. CASE w \in T
      BY <2>2 DEF Seen
    <2>3. CASE \E v \in R : SameIdentity(v, w)
      <3>1. PICK v \in R : SameIdentity(v, w)
        BY <2>3
      <3>2. v = w \/ \E f, d : \E u, x \in Time : v = Observation(f, d, u) /\ w = Observation(f, d, x)
        BY <1>1, <2>1, <3>1, SameRow
      <3> QED
        BY <3>1, <3>2 DEF Seen, Observation
    <2> QED
      BY <1>3, <2>1, <2>2, <2>3
  <1>6. Reported(r, c, T)
    BY <1>4, <1>5, RowsOfMembers DEF Reported, Whole
  <1>7. ASSUME NEW q \in Report, Touched(q, T) PROVE Touched(q, R) \/ q = r
    <2>1. CASE Row("run", <<q>>) \in T
      BY <2>1, RowsOfMembers DEF Touched
    <2>2. CASE \E d \in Bundle[q] : Row("link", <<q, d>>) \in T
      BY <2>2, RowsOfMembers DEF Touched
    <2>3. CASE \E e \in Records[q] : Row("evidence", <<e>>) \in T
      BY <2>3, RowsOfMembers, OneReport DEF Touched
    <2> QED
      BY <1>7, <2>1, <2>2, <2>3 DEF Touched
  <1>8. ASSUME NEW q \in Report, NEW e \in Records[q], NEW d \in Producer, Seen(e, d, T)
        PROVE  Seen(e, d, R) \/ (q = r /\ d = c)
    BY <1>8, RowsOfMembers, OneReport DEF Seen
  <1>9. \A q \in Report, d \in Producer : Reported(q, d, R) => Reported(q, d, T)
    BY DEF Reported, Whole, Seen
  <1> QED
    BY <1>1, <1>2, <1>6, <1>7, <1>8, <1>9 DEF Closed

LEMMA OneReportIsComplete ==
    ASSUME NEW r \in Report, NEW c \in Producer, NEW t \in Time
    PROVE  CompleteGraph(c, RowsOf(r, c, t)) /\ Closed(RowsOf(r, c, t))
  <1> DEFINE S == RowsOf(r, c, t)
  <1>0. S \subseteq AllRows
    BY RowsOfReport
  <1>1. /\ \A q : q \in Firsts("run", S) <=> q = r
        /\ \A d : d \in Firsts("receipt", S) <=> d \in Bundle[r]
        /\ \A e : e \in Firsts("evidence", S) <=> e \in Records[r]
        /\ \A q, d : <<q, d>> \in KeysOf("link", S) <=> q = r /\ d \in Bundle[r]
    <2>1. /\ \A q : q \in Firsts("run", S) <=> Row("run", <<q>>) \in S
          /\ \A d : d \in Firsts("receipt", S) <=> Row("receipt", <<d>>) \in S
          /\ \A e : e \in Firsts("evidence", S) <=> Row("evidence", <<e>>) \in S
          /\ \A q, d : <<q, d>> \in KeysOf("link", S) <=> Row("link", <<q, d>>) \in S
      BY <1>0, RowIdentifiers
    <2>2. /\ \A q : Row("run", <<q>>) \in S <=> q = r
          /\ \A d : Row("receipt", <<d>>) \in S <=> d \in Bundle[r]
          /\ \A q, d : Row("link", <<q, d>>) \in S <=> q = r /\ d \in Bundle[r]
          /\ \A e : Row("evidence", <<e>>) \in S <=> e \in Records[r]
      BY RowsOfMembers
    <2> QED
      BY <2>1, <2>2
  <1>2. \A e : e \in Firsts("observation", S) <=> e \in Records[r]
    BY <1>0, RowIdentifiers, RowsOfMembers DEF Seen
  <1>3. Firsts("run", S) = {RunOf(e) : e \in Firsts("evidence", S)}
    BY <1>1, OneReport, EvidenceAssumption
  <1>4. KeysOf("link", S) = UNION {{q} \X Bundle[q] : q \in Firsts("run", S)}
    <2>1. \A k \in KeysOf("link", S) : \E d \in Bundle[r] : k = <<r, d>>
      BY <1>0, <1>1, RowIdentifiers
    <2>2. UNION {{q} \X Bundle[q] : q \in Firsts("run", S)} = {r} \X Bundle[r]
      BY <1>1
    <2> QED
      BY <1>1, <2>1, <2>2
  <1>5. /\ Firsts("receipt", S) = UNION {Bundle[q] : q \in Firsts("run", S)}
        /\ Firsts("evidence", S) = UNION {Records[q] : q \in Firsts("run", S)}
        /\ Firsts("evidence", S) = Firsts("observation", S)
    BY <1>1, <1>2
  <1>6. \A k \in KeysOf("observation", S) : k[2] = c
    BY DEF KeysOf, Of, RowsOf, Row, Observation
  <1>7. CompleteGraph(c, S)
    BY <1>3, <1>4, <1>5, <1>6 DEF CompleteGraph
  <1> QED
    BY <1>0, <1>7, CompleteIsClosed
-----------------------------------------------------------------------------
(* A step of one process.                                                  *)

LEMMA NoJobShape == NoJob \in Job
  BY EvidenceAssumption DEF NoJob, Job, Opening

LEMMA OtherJobs ==
    ASSUME Archive, NEW q \in EvProcess, job'[q] = job[q],
           \A s \in EvStore : rows[s] \subseteq rows'[s] /\ Closed(rows'[s])
    PROVE  JobOK(q)'
  <1>1. CASE job[q].phase = "idle"
    BY <1>1 DEF Archive, Jobs, JobOK
  <1>2. CASE job[q].phase # "idle"
    <2> DEFINE s == job[q].store
    <2>1. s \in EvStore /\ job[q].ended # "refused"
      BY <1>2 DEF Archive, Jobs, JobOK
    <2>2. Home(q) \subseteq Home(q)'
      BY <2>1 DEF Home
    <2>3. CASE job[q].op = "record" /\ Recording(q)
      BY <2>1, <2>3 DEF JobOK, Recording
    <2>4. CASE job[q].op = "publish" /\ Publishing(q)
      BY <2>1, <2>2, <2>4 DEF JobOK, Publishing, Found, SeenTogether, Seen, Asked
    <2>5. CASE job[q].op = "refresh" /\ Refreshing(q)
      <3> DEFINE old == Home(q) \union job[q].got \union Batched(q)
                 more == Home(q)' \union job[q].got \union Batched(q)
      <3>1. Closed(old)
        BY <2>5 DEF Refreshing
      <3>2. Closed(rows'[s])
        BY <2>1
      <3>3. rows[s] \subseteq rows'[s]
        BY <2>1
      <3>4. rows'[s] \union old = more
        BY <3>3 DEF Home
      <3>5. Closed(rows'[s] \union old)
        <4> HIDE DEF old
        <4> QED
          BY <3>1, <3>2, ClosedUnion
      <3>6. Closed(more)
        BY <3>4, <3>5
      <3>7. Closed(Home(q) \union job[q].got \union Batched(q))'
        <4>1. (Home(q) \union job[q].got \union Batched(q))' = more
          BY DEF Batched
        <4> QED
          BY <3>6, <4>1 DEF Closed, Touched, Reported, Whole, Seen
      <3> QED
        BY <2>1, <2>5, <3>7 DEF JobOK, Refreshing
    <2> QED
      BY <1>2, <2>3, <2>4, <2>5 DEF Archive, Jobs, JobOK
  <1> QED
    BY <1>1, <1>2

(* What a step of p that changes no rows has to show.                      *)
LEMMA StepOfOne ==
    ASSUME Archive, NEW p \in EvProcess, UNCHANGED <<rows, published>>,
           schema' \in [EvStore -> {"absent", "bare", "tables"}],
           \A s \in EvStore : schema[s] = "tables" => schema'[s] = "tables",
           opened' \in [EvProcess -> SUBSET EvStore],
           \A q \in EvProcess, s \in EvStore : s \in opened'[q] => schema'[s] = "tables",
           job' \in [EvProcess -> Job], \A q \in EvProcess \ {p} : job'[q] = job[q],
           JobOK(p)', HasTables(p)'
    PROVE  Archive'
  <1>1. Types'
    BY DEF Archive, Types
  <1>2. Stores' /\ Snapshots'
    <2>1. Stores'
      <3>1. \A s \in EvStore : Filed(rows'[s]) /\ Closed(rows'[s])
        BY DEF Archive, Stores
      <3> QED
        BY <3>1 DEF Stores
    <2>2. Snapshots'
      BY DEF Archive, Snapshots, Filed, OncePerIdentity, CompleteGraph, Firsts, KeysOf, Of
    <2> QED
      BY <2>1, <2>2
  <1>3. \A q \in EvProcess \ {p} : JobOK(q)'
    <2>1. \A s \in EvStore : rows[s] \subseteq rows'[s] /\ Closed(rows'[s])
      <3>1. rows' = rows
        OBVIOUS
      <3> QED
        BY <3>1 DEF Archive, Stores
    <2> QED
      BY <2>1, OtherJobs
  <1>4. \A q \in EvProcess \ {p} : HasTables(q)'
    <2> SUFFICES ASSUME NEW q \in EvProcess \ {p} PROVE HasTables(q)'
      OBVIOUS
    <2>1. /\ job'[q] = job[q] /\ HasTables(q)
          /\ job[q].phase # "idle" => job[q].store \in EvStore
      BY DEF Archive, Jobs, JobOK
    <2> QED
      BY <2>1 DEF HasTables, Chosen
  <1> QED
    BY <1>1, <1>2, <1>3, <1>4 DEF Archive, Jobs

(* A call that ends, well or not.                                          *)
LEMMA EndedJob ==
    ASSUME Types, NEW p \in EvProcess, NEW outcome \in {"none", "failed"}, EndsAs(p, outcome)
    PROVE  /\ job' \in [EvProcess -> Job] /\ \A q \in EvProcess \ {p} : job'[q] = job[q]
           /\ JobOK(p)' /\ HasTables(p)'
  <1>1. [NoJob EXCEPT !.ended = outcome] \in Job
    BY NoJobShape DEF Job, NoJob
  <1>2. job'[p] = [NoJob EXCEPT !.ended = outcome]
    BY DEF EndsAs, Types
  <1>3. job'[p].phase = "idle" /\ job'[p].ended = outcome
    BY <1>2 DEF NoJob
  <1>4. JobOK(p)' /\ HasTables(p)'
    BY <1>3 DEF JobOK, HasTables, Chosen
  <1> QED
    BY <1>1, <1>4 DEF EndsAs, Types

LEMMA FailKeeps ==
    ASSUME Archive, NEW p \in EvProcess, NEW outcome \in {"none", "failed"}, EndsAs(p, outcome),
           UNCHANGED <<schema, rows, opened, published>>
    PROVE  Archive'
  <1>1. Types
    BY DEF Archive
  <1> QED
    BY <1>1, EndedJob, StepOfOne DEF Types

LEMMA DiesKeeps ==
    ASSUME Archive, NEW p \in EvProcess, Dies(p)
    PROVE  Archive'
  <1>1. Types
    BY DEF Archive
  <1>2. job'[p] = NoJob
    BY <1>1 DEF Dies, Types
  <1>3. job'[p].phase = "idle" /\ job'[p].ended = "none"
    BY <1>2 DEF NoJob
  <1>4. JobOK(p)' /\ HasTables(p)'
    BY <1>3 DEF JobOK, HasTables, Chosen
  <1>5. job' \in [EvProcess -> Job] /\ \A q \in EvProcess \ {p} : job'[q] = job[q]
    BY <1>1, NoJobShape DEF Dies, Types
  <1>6. /\ opened' \in [EvProcess -> SUBSET EvStore]
        /\ \A q \in EvProcess, s \in EvStore : s \in opened'[q] => schema'[s] = "tables"
        /\ UNCHANGED <<schema, rows, published>>
    BY <1>1 DEF Dies, Types
  <1>7. schema' \in [EvStore -> {"absent", "bare", "tables"}]
    BY <1>1, <1>6 DEF Types
  <1> QED
    BY <1>4, <1>5, <1>6, <1>7, StepOfOne
-----------------------------------------------------------------------------
(* The calls.                                                              *)

LEMMA CallShape ==
    ASSUME Types, NEW p \in EvProcess, NEW j \in Job, job' = [job EXCEPT ![p] = j]
    PROVE  job' \in [EvProcess -> Job] /\ job'[p] = j /\ \A q \in EvProcess \ {p} : job'[q] = job[q]
  BY DEF Types

LEMMA SameOpened ==
    ASSUME Types, UNCHANGED <<schema, opened>>
    PROVE  /\ schema' \in [EvStore -> {"absent", "bare", "tables"}]
           /\ \A s \in EvStore : schema[s] = "tables" => schema'[s] = "tables"
           /\ opened' \in [EvProcess -> SUBSET EvStore]
           /\ \A q \in EvProcess, s \in EvStore : s \in opened'[q] => schema'[s] = "tables"
  BY DEF Types

LEMMA CallRecordKeeps ==
    ASSUME Archive, NEW p \in EvProcess, NEW s \in EvStore, NEW r \in Report, NEW c \in Producer,
           CallRecord(p, s, r, c)
    PROVE  Archive'
  <1> DEFINE j == [NoJob EXCEPT !.op = "record", !.phase = "open", !.store = s, !.got = RowsOf(r, c, Now)]
  <1>1. Types /\ UNCHANGED <<schema, rows, opened, published>>
    BY DEF Archive, CallRecord, Call
  <1>2. j \in Job
    BY NoJobShape, RowsOfReport, EvidenceAssumption DEF Job, NoJob, Opening
  <1>3. job' = [job EXCEPT ![p] = j]
    BY DEF CallRecord
  <1>4. job'[p] = j
    BY <1>1, <1>2, <1>3, CallShape
  <1>5. /\ job'[p].ended = "none" /\ job'[p].store = s /\ job'[p].phase = "open" /\ job'[p].op = "record"
        /\ job'[p].got = RowsOf(r, c, Now)
    BY <1>4 DEF NoJob
  <1>6. JobOK(p)' /\ HasTables(p)'
    BY <1>5 DEF JobOK, HasTables, Recording, Opening, Chosen
  <1> HIDE DEF j
  <1> QED
    BY <1>1, <1>2, <1>3, <1>6, CallShape, SameOpened, StepOfOne

LEMMA CallPublishKeeps ==
    ASSUME Archive, NEW p \in EvProcess, NEW s \in EvStore, NEW c \in Producer, CallPublish(p, s, c)
    PROVE  Archive'
  <1> DEFINE j == [NoJob EXCEPT !.op = "publish", !.phase = "open", !.store = s, !.producer = c]
  <1>1. Types /\ UNCHANGED <<schema, rows, opened, published>>
    BY DEF Archive, CallPublish, Call
  <1>2. j \in Job
    BY NoJobShape DEF Job, NoJob, Opening
  <1>3. job' = [job EXCEPT ![p] = j]
    BY DEF CallPublish
  <1>4. job'[p] = j
    BY <1>1, <1>2, <1>3, CallShape
  <1>5. /\ job'[p].ended = "none" /\ job'[p].store = s /\ job'[p].phase = "open" /\ job'[p].op = "publish"
        /\ job'[p].got = {}
    BY <1>4 DEF NoJob
  <1>6. JobOK(p)' /\ HasTables(p)'
    BY <1>5 DEF JobOK, HasTables, Publishing, Opening, Chosen
  <1> HIDE DEF j
  <1> QED
    BY <1>1, <1>2, <1>3, <1>6, CallShape, SameOpened, StepOfOne

LEMMA CallRefreshKeeps ==
    ASSUME Archive, NEW p \in EvProcess, NEW s \in EvStore, CallRefresh(p, s)
    PROVE  Archive'
  <1> DEFINE there == {c \in Producer : published[c] # {}}
             j == [NoJob EXCEPT !.op = "refresh", !.phase = "read", !.store = s, !.unread = there]
  <1>1. Types /\ UNCHANGED <<schema, rows, opened, published>> /\ there # {}
    BY DEF Archive, CallRefresh, Call
  <1>2. j \in Job
    BY NoJobShape DEF Job, NoJob
  <1>3. job' = [job EXCEPT ![p] = j]
    BY DEF CallRefresh
  <1>4. job'[p] = j
    BY <1>1, <1>2, <1>3, CallShape
  <1>5. /\ job'[p].ended = "none" /\ job'[p].store = s /\ job'[p].phase = "read" /\ job'[p].op = "refresh"
        /\ job'[p].got = {} /\ job'[p].unread = there /\ job'[p].batches = <<>>
    BY <1>4 DEF NoJob
  <1>6. Refreshing(p)'
    <2>1. OncePerIdentity({})
      BY DEF OncePerIdentity
    <2>2. Batched(p)' = {} /\ Home(p)' = rows[s]
      BY <1>1, <1>5 DEF Batched, Gathered, Home
    <2>3. Closed(rows[s])
      BY DEF Archive, Stores
    <2>4. Home(p)' \union job'[p].got \union Batched(p)' = rows[s]
      BY <1>5, <2>2
    <2>5. Closed(Home(p)' \union job'[p].got \union Batched(p)')
      BY <2>3, <2>4
    <2> QED
      BY <1>1, <1>5, <2>1, <2>5 DEF Refreshing
  <1>7. JobOK(p)' /\ HasTables(p)'
    BY <1>5, <1>6 DEF JobOK, HasTables, Chosen
  <1> HIDE DEF j
  <1> QED
    BY <1>1, <1>2, <1>3, <1>7, CallShape, SameOpened, StepOfOne
-----------------------------------------------------------------------------
(* Opening a store.                                                        *)

(* A step that only moves a job to another phase.                          *)
LEMMA PhaseShape ==
    ASSUME Types, NEW p \in EvProcess, NEW next \in {"idle", "commit", "observations", "read", "compare"} \union Opening \union Chosen,
           JobGoes(p, next)
    PROVE  /\ job' \in [EvProcess -> Job] /\ \A q \in EvProcess \ {p} : job'[q] = job[q]
           /\ job'[p].phase = next /\ job'[p].op = job[p].op /\ job'[p].store = job[p].store
           /\ job'[p].producer = job[p].producer /\ job'[p].created = job[p].created
           /\ job'[p].unread = job[p].unread /\ job'[p].batches = job[p].batches
           /\ job'[p].got = job[p].got /\ job'[p].ended = job[p].ended
  <1>1. job[p] \in Job
    BY DEF Types
  <1>2. [job[p] EXCEPT !.phase = next] \in Job
    BY <1>1 DEF Job
  <1> QED
    BY <1>1, <1>2 DEF JobGoes, Types, Job

(* While a store is being opened nothing depends on where that has got to. *)
LEMMA OpeningMoves ==
    ASSUME NEW p \in EvProcess, JobOK(p), job[p].phase \in Opening, UNCHANGED rows,
           \/ job'[p].phase \in Opening
           \/ job'[p].phase = FirstPhase(p),
           job'[p].op = job[p].op, job'[p].store = job[p].store, job'[p].batches = job[p].batches,
           job'[p].got = job[p].got, job'[p].ended = job[p].ended
    PROVE  JobOK(p)'
  <1>1. CASE job[p].op = "record" /\ Recording(p)
    BY <1>1 DEF JobOK, Recording, FirstPhase, Opening
  <1>2. CASE job[p].op = "publish" /\ Publishing(p)
    BY <1>2 DEF JobOK, Publishing, FirstPhase, Opening, Chosen
  <1>3. CASE job[p].op = "refresh" /\ Refreshing(p)
    <2>1. (Home(p) \union job[p].got \union Batched(p))' = Home(p) \union job[p].got \union Batched(p)
      BY DEF Home, Batched
    <2>2. Closed(Home(p)' \union job'[p].got \union Batched(p)')
      BY <1>3, <2>1 DEF Refreshing
    <2> QED
      BY <1>3, <2>2 DEF JobOK, Refreshing, FirstPhase, Opening
  <1> QED
    BY <1>1, <1>2, <1>3 DEF JobOK, Opening

LEMMA FirstPhases ==
    ASSUME NEW p \in EvProcess, JobOK(p), job[p].phase \in Opening
    PROVE  FirstPhase(p) \in {"commit", "observations", "compare"}
  BY DEF JobOK, Opening, FirstPhase

LEMMA OpenKeeps ==
    ASSUME Archive, NEW p \in EvProcess, Open(p)
    PROVE  Archive'
  <1> DEFINE s == job[p].store
             next == IF s \in opened[p] THEN FirstPhase(p) ELSE IF schema[s] = "absent" THEN "create" ELSE "tables"
  <1>1. Types /\ JobOK(p) /\ job[p].phase = "open" /\ JobGoes(p, next)
        /\ UNCHANGED <<schema, rows, opened, published>>
    BY DEF Archive, Jobs, Open, At
  <1>2. next \in Opening \/ (next = FirstPhase(p) /\ s \in opened[p])
    BY DEF Opening
  <1>3. FirstPhase(p) \in {"commit", "observations", "compare"} /\ s \in EvStore
    BY <1>1, FirstPhases DEF Opening, JobOK
  <1>4. /\ job' \in [EvProcess -> Job] /\ \A q \in EvProcess \ {p} : job'[q] = job[q]
        /\ job'[p].phase = next /\ job'[p].op = job[p].op /\ job'[p].store = s
        /\ job'[p].batches = job[p].batches /\ job'[p].got = job[p].got /\ job'[p].ended = job[p].ended
    <2>1. next \in {"idle", "commit", "observations", "read", "compare"} \union Opening \union Chosen
      BY <1>2, <1>3
    <2> HIDE DEF next
    <2> QED
      BY <1>1, <2>1, PhaseShape
  <1>5. JobOK(p)'
    BY <1>1, <1>2, <1>4, OpeningMoves DEF Opening
  <1>6. HasTables(p)'
    <2>1. CASE next \in Opening
      BY <1>4, <2>1 DEF HasTables, Opening, Chosen
    <2>2. CASE s \in opened[p]
      <3>1. schema'[s] = "tables"
        BY <1>1, <1>3, <2>2 DEF Types
      <3> QED
        BY <1>4, <3>1 DEF HasTables
    <2> QED
      BY <1>2, <2>1, <2>2
  <1> HIDE DEF next, s
  <1> QED
    BY <1>1, <1>4, <1>5, <1>6, SameOpened, StepOfOne

LEMMA CreateDatabaseKeeps ==
    ASSUME Archive, NEW p \in EvProcess, CreateDatabase(p)
    PROVE  Archive'
  <1> DEFINE s == job[p].store
  <1>1. Types /\ JobOK(p) /\ job[p].phase = "create" /\ UNCHANGED <<rows, opened, published>>
    BY DEF Archive, Jobs, CreateDatabase, At
  <1>2. CASE schema[s] # "absent"
    <2>1. EndsAs(p, "failed") /\ UNCHANGED schema
      BY <1>2 DEF CreateDatabase
    <2> QED
      BY <1>1, <2>1, FailKeeps
  <1>3. CASE schema[s] = "absent"
    <2>1. /\ schema' = [schema EXCEPT ![s] = "bare"]
          /\ job' = [job EXCEPT ![p].phase = "tables", ![p].created = TRUE]
      BY <1>3 DEF CreateDatabase
    <2>2. s \in EvStore
      BY <1>1 DEF JobOK
    <2>3. job[p] \in Job
      BY <1>1 DEF Types
    <2> DEFINE j == [job[p] EXCEPT !.phase = "tables", !.created = TRUE]
    <2>4. j \in Job
      BY <2>3 DEF Job, Opening
    <2>5. job' = [job EXCEPT ![p] = j]
      BY <1>1, <2>1 DEF Types
    <2>6. job' \in [EvProcess -> Job] /\ job'[p] = j /\ \A q \in EvProcess \ {p} : job'[q] = job[q]
      BY <1>1, <2>4, <2>5, CallShape
    <2>7. /\ job'[p].phase = "tables" /\ job'[p].op = job[p].op /\ job'[p].store = job[p].store
          /\ job'[p].batches = job[p].batches /\ job'[p].got = job[p].got /\ job'[p].ended = job[p].ended
      BY <2>3, <2>6 DEF Job
    <2>8. JobOK(p)' /\ HasTables(p)'
      BY <1>1, <2>7, OpeningMoves DEF Opening, HasTables, Chosen
    <2>9. /\ schema' \in [EvStore -> {"absent", "bare", "tables"}]
          /\ \A x \in EvStore : schema[x] = "tables" => schema'[x] = "tables"
          /\ opened' \in [EvProcess -> SUBSET EvStore]
          /\ \A q \in EvProcess, x \in EvStore : x \in opened'[q] => schema'[x] = "tables"
      BY <1>1, <1>3, <2>1, <2>2 DEF Types
    <2> HIDE DEF j, s
    <2> QED
      BY <1>1, <2>6, <2>8, <2>9, StepOfOne
  <1> QED
    BY <1>2, <1>3

(* The process has found the tables or made them, and goes on.             *)
LEMMA OpenedKeeps ==
    ASSUME Archive, NEW p \in EvProcess, job[p].phase \in Opening, JobGoes(p, FirstPhase(p)),
           opened' = [opened EXCEPT ![p] = @ \union {job[p].store}],
           schema' \in [EvStore -> {"absent", "bare", "tables"}],
           \A x \in EvStore : schema[x] = "tables" => schema'[x] = "tables",
           schema'[job[p].store] = "tables", UNCHANGED <<rows, published>>
    PROVE  Archive'
  <1>1. Types /\ JobOK(p)
    BY DEF Archive, Jobs
  <1>2. job[p].store \in EvStore /\ FirstPhase(p) \in {"commit", "observations", "compare"}
    BY <1>1, FirstPhases DEF JobOK, Opening
  <1>3. /\ job' \in [EvProcess -> Job] /\ \A q \in EvProcess \ {p} : job'[q] = job[q]
        /\ job'[p].phase = FirstPhase(p) /\ job'[p].op = job[p].op /\ job'[p].store = job[p].store
        /\ job'[p].batches = job[p].batches /\ job'[p].got = job[p].got /\ job'[p].ended = job[p].ended
    BY <1>1, <1>2, PhaseShape
  <1>4. JobOK(p)'
    BY <1>1, <1>3, OpeningMoves
  <1>5. HasTables(p)'
    BY <1>3 DEF HasTables
  <1>6. /\ opened' \in [EvProcess -> SUBSET EvStore]
        /\ \A q \in EvProcess, x \in EvStore : x \in opened'[q] => schema'[x] = "tables"
    BY <1>1, <1>2 DEF Types
  <1> QED
    BY <1>3, <1>4, <1>5, <1>6, StepOfOne

LEMMA LookAtTablesKeeps ==
    ASSUME Archive, NEW p \in EvProcess, LookAtTables(p)
    PROVE  Archive'
  <1> DEFINE s == job[p].store
  <1>1. Types /\ JobOK(p) /\ job[p].phase = "tables" /\ UNCHANGED <<schema, rows, published>>
    BY DEF Archive, Jobs, LookAtTables, At
  <1>2. CASE EndsAs(p, "failed") /\ UNCHANGED opened
    BY <1>1, <1>2, FailKeeps
  <1>3. CASE JobGoes(p, "migrate") /\ UNCHANGED opened
    <2>1. /\ job' \in [EvProcess -> Job] /\ \A q \in EvProcess \ {p} : job'[q] = job[q]
          /\ job'[p].phase = "migrate" /\ job'[p].op = job[p].op /\ job'[p].store = job[p].store
          /\ job'[p].batches = job[p].batches /\ job'[p].got = job[p].got /\ job'[p].ended = job[p].ended
      BY <1>1, <1>3, PhaseShape DEF Opening
    <2>2. JobOK(p)' /\ HasTables(p)'
      BY <1>1, <2>1, OpeningMoves DEF Opening, HasTables, Chosen
    <2> QED
      BY <1>1, <1>3, <2>1, <2>2, SameOpened, StepOfOne
  <1>4. CASE schema[s] = "tables" /\ JobGoes(p, FirstPhase(p)) /\ opened' = [opened EXCEPT ![p] = @ \union {s}]
    <2>1. schema' \in [EvStore -> {"absent", "bare", "tables"}]
      BY <1>1 DEF Types
    <2> QED
      BY <1>1, <1>4, <2>1, OpenedKeeps DEF Opening
  <1> QED
    BY <1>2, <1>3, <1>4 DEF LookAtTables

LEMMA MigrateKeeps ==
    ASSUME Archive, NEW p \in EvProcess, Migrate(p)
    PROVE  Archive'
  <1>1. Types /\ JobOK(p) /\ job[p].phase = "migrate"
    BY DEF Archive, Jobs, Migrate, At
  <1>2. job[p].store \in EvStore
    BY <1>1 DEF JobOK
  <1>3. /\ schema' \in [EvStore -> {"absent", "bare", "tables"}]
        /\ \A x \in EvStore : schema[x] = "tables" => schema'[x] = "tables"
        /\ schema'[job[p].store] = "tables"
    BY <1>1, <1>2 DEF Types, Migrate
  <1> QED
    BY <1>1, <1>3, OpenedKeeps DEF Migrate, Opening
-----------------------------------------------------------------------------
(* The transaction of a recording or a refresh.                            *)

LEMMA RowsGrow ==
    ASSUME Archive, NEW p \in EvProcess, NEW s \in EvStore, NEW new,
           rows' = [rows EXCEPT ![s] = @ \union new],
           Filed(rows[s] \union new), Closed(rows[s] \union new),
           NEW outcome \in {"none", "failed"}, EndsAs(p, outcome),
           UNCHANGED <<schema, opened, published>>
    PROVE  Archive'
  <1>1. Types
    BY DEF Archive
  <1>2. /\ job' \in [EvProcess -> Job] /\ \A q \in EvProcess \ {p} : job'[q] = job[q]
        /\ JobOK(p)' /\ HasTables(p)'
    BY <1>1, EndedJob
  <1>3. \A x \in EvStore : rows'[x] = IF x = s THEN rows[s] \union new ELSE rows[x]
    BY <1>1 DEF Types
  <1>4. \A x \in EvStore : Filed(rows'[x]) /\ Closed(rows'[x]) /\ rows[x] \subseteq rows'[x]
    <2> SUFFICES ASSUME NEW x \in EvStore PROVE Filed(rows'[x]) /\ Closed(rows'[x]) /\ rows[x] \subseteq rows'[x]
      OBVIOUS
    <2>1. CASE x = s
      BY <1>3, <2>1
    <2>2. CASE x # s
      BY <1>3, <2>2 DEF Archive, Stores
    <2> QED
      BY <2>1, <2>2
  <1>5. Types'
    <2>1. \A x \in EvStore : rows'[x] \subseteq AllRows
      BY <1>4 DEF Filed
    <2> QED
      BY <1>1, <1>2, <2>1 DEF Types
  <1>6. Stores'
    BY <1>4 DEF Stores
  <1>7. Snapshots'
    <2>1. \A c \in Producer : Filed(published'[c]) /\ CompleteGraph(c, published'[c])
      BY DEF Archive, Snapshots
    <2> QED
      BY <2>1 DEF Snapshots
  <1>8. \A q \in EvProcess \ {p} : JobOK(q)'
    BY <1>2, <1>4, OtherJobs
  <1>9. \A q \in EvProcess \ {p} : HasTables(q)'
    BY <1>2 DEF Archive, Jobs, HasTables, Chosen
  <1> QED
    BY <1>2, <1>5, <1>6, <1>7, <1>8, <1>9 DEF Archive, Jobs

LEMMA CommitTransactionKeeps ==
    ASSUME Archive, NEW p \in EvProcess, CommitTransaction(p)
    PROVE  Archive'
  <1> DEFINE s == job[p].store
             new == {w \in job[p].got : ~Known(w, rows[s])}
  <1>1. Types /\ JobOK(p) /\ job[p].phase = "commit" /\ UNCHANGED <<schema, opened, published>>
    BY DEF Archive, Jobs, CommitTransaction, At
  <1>2. s \in EvStore
    BY <1>1 DEF JobOK
  <1>3. rows[s] \subseteq AllRows /\ OncePerIdentity(rows[s]) /\ Closed(rows[s])
    BY <1>2 DEF Archive, Stores, Filed
  <1>4. CASE EndsAs(p, "failed") /\ UNCHANGED rows
    BY <1>1, <1>4, FailKeeps
  <1>5. CASE /\ ~(job[p].op = "refresh" /\ new # job[p].got)
             /\ rows' = [rows EXCEPT ![s] = @ \union new]
             /\ EndsAs(p, "none") \/ EndsAs(p, "failed")
    <2>1. CASE job[p].op = "record" /\ Recording(p)
      <3>1. PICK r \in Report, c \in Producer : job[p].got = RowsOf(r, c, Now)
        BY <2>1 DEF Recording
      <3>2. Now \in Time
        BY EvidenceAssumption
      <3>3. /\ Closed(rows[s] \union new) /\ OncePerIdentity(rows[s] \union new)
            /\ rows[s] \union new \subseteq AllRows
        BY <1>3, <3>1, <3>2, RecordKeepsClosed
      <3> HIDE DEF new, s
      <3> QED
        BY <1>1, <1>2, <1>5, <3>3, RowsGrow DEF Filed
    <2>2. CASE job[p].op = "refresh" /\ Refreshing(p)
      <3>1. new = job[p].got
        BY <1>5, <2>2
      <3>2. job[p].batches = <<>>
        BY <1>1, <2>2 DEF Refreshing, Opening
      <3>3. Batched(p) = {} /\ Home(p) = rows[s]
        BY <3>2 DEF Batched, Gathered, Home
      <3>4. Closed(rows[s] \union new)
        <4>1. Home(p) \union job[p].got \union Batched(p) = rows[s] \union new
          BY <3>1, <3>3
        <4>2. Closed(Home(p) \union job[p].got \union Batched(p))
          BY <2>2 DEF Refreshing
        <4> QED
          BY <4>1, <4>2
      <3>5. job[p].got \subseteq AllRows /\ OncePerIdentity(job[p].got)
        BY <1>1, <2>2 DEF Types, Job, Refreshing
      <3>6. \A w \in new : ~Known(w, rows[s])
        OBVIOUS
      <3>7. Filed(rows[s] \union new)
        <4> SUFFICES ASSUME NEW v \in rows[s] \union new, NEW w \in rows[s] \union new, SameIdentity(v, w)
                     PROVE  v = w
          BY <1>3, <3>1, <3>5 DEF Filed, OncePerIdentity
        <4>1. CASE v \in rows[s] /\ w \in rows[s]
          BY <1>3, <4>1 DEF OncePerIdentity
        <4>2. CASE v \in new /\ w \in new
          BY <3>1, <3>5, <4>2 DEF OncePerIdentity
        <4>3. SameIdentity(w, v)
          BY DEF SameIdentity
        <4> QED
          BY <3>6, <4>1, <4>2, <4>3 DEF Known
      <3> HIDE DEF new, s
      <3> QED
        BY <1>1, <1>2, <1>5, <3>4, <3>7, RowsGrow
    <2>3. CASE job[p].op = "publish" /\ Publishing(p)
      BY <1>1, <2>3 DEF Publishing, Opening, Chosen
    <2> QED
      BY <1>1, <2>1, <2>2, <2>3 DEF JobOK
  <1> QED
    BY <1>4, <1>5 DEF CommitTransaction
-----------------------------------------------------------------------------
(* The refresh: what it reads and what it compares.                        *)

LEMMA TablesOf ==
    ASSUME NEW R, R \subseteq AllRows
    PROVE  LET B == [n \in 1 .. Len(Tables) |-> Of(Tables[n], R)]
           IN /\ B \in Seq(SUBSET AllRows) /\ Len(B) = 5
              /\ Gathered(B) = R
              /\ \A n \in 1 .. Len(B) : B[n] \subseteq R
  <1> DEFINE B == [n \in 1 .. Len(Tables) |-> Of(Tables[n], R)]
  <1>1. Len(Tables) = 5
    BY DEF Tables
  <1>2. B \in [1 .. 5 -> SUBSET AllRows]
    BY <1>1 DEF Of
  <1>3. B \in Seq(SUBSET AllRows) /\ Len(B) = 5
    <2> HIDE DEF B
    <2>1. B \in Seq(SUBSET AllRows)
      BY <1>2, SeqDef
    <2>2. DOMAIN B = 1 .. 5
      BY <1>2
    <2> QED
      BY <2>1, <2>2, LenProperties
  <1>4. \A n \in 1 .. 5 : B[n] = {w \in R : w.table = Tables[n]}
    BY <1>1 DEF Of
  <1>5. \A w \in R : \E n \in 1 .. 5 : w.table = Tables[n]
    <2> SUFFICES ASSUME NEW w \in R PROVE \E n \in 1 .. 5 : w.table = Tables[n]
      OBVIOUS
    <2>1. w.table \in {"run", "receipt", "link", "evidence", "observation"}
      BY RowShapes DEF Shaped, Row, Observation
    <2>2. /\ Tables[1] = "run" /\ Tables[2] = "receipt" /\ Tables[3] = "link"
          /\ Tables[4] = "evidence" /\ Tables[5] = "observation"
      BY DEF Tables
    <2> QED
      BY <2>1, <2>2
  <1>6. UNION {B[n] : n \in 1 .. 5} = R
    <2>1. \A w \in R : \E n \in 1 .. 5 : w \in B[n]
      BY <1>4, <1>5
    <2>2. \A n \in 1 .. 5 : B[n] \subseteq R
      BY <1>4
    <2> HIDE DEF B
    <2> QED
      BY <2>1, <2>2
  <1>7. \A n \in 1 .. 5 : B[n] \subseteq R
    BY <1>4
  <1> HIDE DEF B
  <1>8. Len(B) = 5
    BY <1>3
  <1> QED
    BY <1>3, <1>6, <1>7, <1>8 DEF B, Gathered

LEMMA UnionOfConcat ==
    ASSUME NEW X, NEW S \in Seq(X), NEW T \in Seq(X)
    PROVE  /\ S \o T \in Seq(X) /\ Len(S \o T) = Len(S) + Len(T)
           /\ Gathered(S \o T) = Gathered(S) \union Gathered(T)
           /\ \A n \in 1 .. Len(S \o T) :
                 \/ n \in 1 .. Len(S) /\ (S \o T)[n] = S[n]
                 \/ \E m \in 1 .. Len(T) : (S \o T)[n] = T[m]
  <1>1. /\ S \o T \in Seq(X) /\ Len(S \o T) = Len(S) + Len(T) /\ Len(S) \in Nat /\ Len(T) \in Nat
        /\ \A n \in 1 .. Len(S) + Len(T) : (S \o T)[n] = IF n <= Len(S) THEN S[n] ELSE T[n - Len(S)]
    BY ConcatProperties, LenProperties
  <1>2. \A n \in 1 .. Len(S) : n \in 1 .. Len(S \o T) /\ (S \o T)[n] = S[n]
    BY <1>1
  <1>3. \A m \in 1 .. Len(T) : m + Len(S) \in 1 .. Len(S \o T) /\ (S \o T)[m + Len(S)] = T[m]
    BY <1>1
  <1>4. \A n \in 1 .. Len(S \o T) : \/ n \in 1 .. Len(S) /\ (S \o T)[n] = S[n]
                                    \/ n - Len(S) \in 1 .. Len(T) /\ (S \o T)[n] = T[n - Len(S)]
    BY <1>1
  <1>5. Gathered(S) \union Gathered(T) \subseteq Gathered(S \o T)
    <2>1. \A x \in Gathered(S) : x \in Gathered(S \o T)
      BY <1>2 DEF Gathered
    <2>2. \A x \in Gathered(T) : x \in Gathered(S \o T)
      BY <1>3 DEF Gathered
    <2> QED
      BY <2>1, <2>2
  <1>6. \A x \in Gathered(S \o T) : x \in Gathered(S) \/ x \in Gathered(T)
    <2> SUFFICES ASSUME NEW n \in 1 .. Len(S \o T), NEW x \in (S \o T)[n]
                 PROVE  x \in Gathered(S) \/ x \in Gathered(T)
      BY DEF Gathered
    <2> QED
      BY <1>4 DEF Gathered
  <1>7. \A n \in 1 .. Len(S \o T) : \/ n \in 1 .. Len(S) /\ (S \o T)[n] = S[n]
                                    \/ \E m \in 1 .. Len(T) : (S \o T)[n] = T[m]
    BY <1>4
  <1>8. S \o T \in Seq(X) /\ Len(S \o T) = Len(S) + Len(T)
    BY <1>1
  <1> QED
    BY <1>5, <1>6, <1>7, <1>8

LEMMA GatheredTail ==
    ASSUME NEW X, NEW S \in Seq(X), S # <<>>
    PROVE  /\ Len(S) \in Nat \ {0} /\ S[1] \in X /\ Tail(S) \in Seq(X)
           /\ Len(S) = 1 <=> Tail(S) = <<>>
           /\ \A n \in 1 .. Len(Tail(S)) : n + 1 \in 1 .. Len(S) /\ Tail(S)[n] = S[n + 1]
           /\ Gathered(S) = S[1] \union Gathered(Tail(S))
  <1>1. /\ Len(S) \in Nat \ {0} /\ Tail(S) \in Seq(X) /\ Len(Tail(S)) = Len(S) - 1
        /\ \A n \in 1 .. Len(Tail(S)) : n + 1 \in 1 .. Len(S) /\ Tail(S)[n] = S[n + 1]
    BY HeadTailProperties, LenProperties, EmptySeq
  <1>2. 1 \in 1 .. Len(S) /\ S[1] \in X
    BY <1>1, ElementOfSeq
  <1>3. Len(S) = 1 <=> Tail(S) = <<>>
    <2>1. Tail(S) = <<>> <=> Len(Tail(S)) = 0
      BY <1>1, EmptySeq
    <2> QED
      BY <1>1, <2>1
  <1>4. \A n \in 1 .. Len(S) : n = 1 \/ (n - 1 \in 1 .. Len(Tail(S)) /\ S[n] = Tail(S)[n - 1])
    BY <1>1
  <1>5. \A x \in Gathered(S) : x \in S[1] \/ x \in Gathered(Tail(S))
    BY <1>4 DEF Gathered
  <1>6. \A x \in Gathered(Tail(S)) : x \in Gathered(S)
    BY <1>1 DEF Gathered
  <1>7. \A x \in S[1] : x \in Gathered(S)
    BY <1>2 DEF Gathered
  <1> QED
    BY <1>1, <1>2, <1>3, <1>5, <1>6, <1>7

LEMMA ReadKeeps ==
    ASSUME Archive, NEW p \in EvProcess, NEW c \in Producer, Read(p, c)
    PROVE  Archive'
  <1> DEFINE R == published[c]
             B == [n \in 1 .. Len(Tables) |-> Of(Tables[n], R)]
             next == IF job[p].unread = {c} THEN "open" ELSE "read"
             old == job[p].batches
             j == [job[p] EXCEPT !.unread = @ \ {c}, !.phase = next, !.batches = @ \o B]
  <1>1. /\ Types /\ JobOK(p) /\ job[p].phase = "read" /\ c \in job[p].unread
        /\ UNCHANGED <<schema, rows, opened, published>>
    BY DEF Archive, Jobs, Read, At
  <1>2. R \subseteq AllRows /\ OncePerIdentity(R) /\ CompleteGraph(c, R)
    BY DEF Archive, Snapshots, Filed
  <1>3. job[p].op = "refresh" /\ Refreshing(p) /\ job[p].store \in EvStore /\ job[p].ended # "refused"
    BY <1>1 DEF JobOK, Recording, Publishing, Opening, Chosen
  <1>4. job[p] \in Job
    BY <1>1 DEF Types
  <1>5. /\ B \in Seq(SUBSET AllRows) /\ Len(B) = 5 /\ Gathered(B) = R
        /\ \A n \in 1 .. Len(B) : B[n] \subseteq R
    BY <1>2, TablesOf
  <1> HIDE DEF B
  <1>6. /\ old \o B \in Seq(SUBSET AllRows) /\ Len(old \o B) = Len(old) + 5 /\ Len(old) \in Nat
        /\ Gathered(old \o B) = Batched(p) \union R
        /\ \A n \in 1 .. Len(old \o B) : \/ n \in 1 .. Len(old) /\ (old \o B)[n] = old[n]
                                         \/ \E m \in 1 .. Len(B) : (old \o B)[n] = B[m]
    <2>1. old \in Seq(SUBSET AllRows)
      BY <1>4 DEF Job
    <2> HIDE DEF old, R
    <2>2. /\ old \o B \in Seq(SUBSET AllRows) /\ Len(old \o B) = Len(old) + Len(B)
          /\ Gathered(old \o B) = Gathered(old) \union Gathered(B)
          /\ \A n \in 1 .. Len(old \o B) : \/ n \in 1 .. Len(old) /\ (old \o B)[n] = old[n]
                                           \/ \E m \in 1 .. Len(B) : (old \o B)[n] = B[m]
      <3> DEFINE X == SUBSET AllRows
      <3>1. old \in Seq(X) /\ B \in Seq(X)
        BY <1>5, <2>1
      <3> HIDE DEF X
      <3>2. old \o B \in Seq(X)
        BY <3>1, UnionOfConcat
      <3>3. Len(old \o B) = Len(old) + Len(B) /\ Gathered(old \o B) = Gathered(old) \union Gathered(B)
        BY <3>1, UnionOfConcat
      <3>4. \A n \in 1 .. Len(old \o B) : \/ n \in 1 .. Len(old) /\ (old \o B)[n] = old[n]
                                          \/ \E m \in 1 .. Len(B) : (old \o B)[n] = B[m]
        BY <3>1, UnionOfConcat
      <3> QED
        BY <3>2, <3>3, <3>4 DEF X
    <2>3. Batched(p) = Gathered(old)
      BY DEF Batched, old
    <2> QED
      BY <1>5, <2>1, <2>2, <2>3, LenProperties
  <1>7. j \in Job
    BY <1>4, <1>6 DEF Job, Opening
  <1>8. job' = [job EXCEPT ![p] = j]
    BY <1>1, <1>2 DEF Read, B, Types
  <1>9. job' \in [EvProcess -> Job] /\ job'[p] = j /\ \A q \in EvProcess \ {p} : job'[q] = job[q]
    <2> HIDE DEF j
    <2> QED
      BY <1>1, <1>7, <1>8, CallShape
  <1>10. /\ job'[p].op = "refresh" /\ job'[p].phase = next /\ job'[p].unread = job[p].unread \ {c}
         /\ job'[p].batches = old \o B /\ job'[p].store = job[p].store /\ job'[p].got = job[p].got
         /\ job'[p].ended = job[p].ended
    BY <1>3, <1>4, <1>9 DEF Job
  <1>11. Closed(Home(p)' \union job'[p].got \union Batched(p)')
    <2> DEFINE all == Home(p) \union job[p].got \union Batched(p)
    <2>1. Closed(all)
      BY <1>3 DEF Refreshing
    <2>2. Closed(R)
      BY <1>2, CompleteIsClosed
    <2>3. Home(p)' \union job'[p].got \union Batched(p)' = all \union R
      <3>1. Batched(p)' = Batched(p) \union R
        BY <1>6, <1>10 DEF Batched
      <3>2. Home(p)' = Home(p)
        BY <1>1, <1>10 DEF Home
      <3> QED
        BY <1>10, <3>1, <3>2
    <2> HIDE DEF all, R
    <2>4. Closed(all \union R)
      BY <2>1, <2>2, ClosedUnion
    <2> QED
      BY <2>3, <2>4
  <1>12. \A n \in 1 .. Len(job'[p].batches) : OncePerIdentity(job'[p].batches[n])
    <2>1. \A m \in 1 .. Len(B) : OncePerIdentity(B[m])
      BY <1>2, <1>5 DEF OncePerIdentity
    <2>2. \A n \in 1 .. Len(old) : OncePerIdentity(old[n])
      BY <1>3 DEF Refreshing
    <2>3. \A n \in 1 .. Len(old \o B) : OncePerIdentity((old \o B)[n])
      BY <1>6, <2>1, <2>2
    <2> QED
      BY <1>10, <2>3
  <1>13. job'[p].batches # <<>> /\ (next = "read" => job'[p].unread # {})
    <2>1. Len(job'[p].batches) # 0
      BY <1>6, <1>10
    <2>2. job'[p].batches # <<>>
      BY <2>1
    <2> QED
      BY <1>1, <1>10, <2>2
  <1>14. JobOK(p)' /\ HasTables(p)'
    <2>1. Refreshing(p)'
      BY <1>3, <1>10, <1>11, <1>12, <1>13 DEF Refreshing, Opening
    <2> QED
      BY <1>3, <1>10, <2>1 DEF JobOK, HasTables, Chosen
  <1> HIDE DEF j
  <1> QED
    BY <1>1, <1>9, <1>14, SameOpened, StepOfOne

LEMMA CompareKeeps ==
    ASSUME Archive, NEW p \in EvProcess, Compare(p)
    PROVE  Archive'
  <1> DEFINE old == job[p].batches
             batch == old[1]
             missing == Missing(batch, Home(p))
             next == IF Len(old) = 1 THEN "commit" ELSE "compare"
             j == [job[p] EXCEPT !.batches = Tail(@), !.got = @ \union missing, !.phase = next]
  <1>1. Types /\ JobOK(p) /\ job[p].phase = "compare" /\ UNCHANGED <<schema, rows, opened, published>>
    BY DEF Archive, Jobs, Compare, At
  <1>2. /\ job[p].op = "refresh" /\ Refreshing(p) /\ job[p].store \in EvStore
        /\ job[p].ended # "refused" /\ old # <<>>
    BY <1>1 DEF JobOK, Recording, Publishing, Refreshing, Opening, Chosen
  <1>3. job[p] \in Job /\ HasTables(p)
    BY <1>1 DEF Types, Archive, Jobs
  <1>4. CASE EndsAs(p, "failed")
    BY <1>1, <1>4, FailKeeps
  <1>5. CASE ~EndsAs(p, "failed")
    <2>1. ~Conflict(batch, job[p].got) /\ ~Conflict(batch, Home(p))
      BY <1>5 DEF Compare
    <2>2. /\ Len(old) \in Nat \ {0} /\ old[1] \in SUBSET AllRows /\ Tail(old) \in Seq(SUBSET AllRows)
          /\ Len(old) = 1 <=> Tail(old) = <<>>
          /\ \A n \in 1 .. Len(Tail(old)) : n + 1 \in 1 .. Len(old) /\ Tail(old)[n] = old[n + 1]
          /\ Gathered(old) = old[1] \union Gathered(Tail(old))
      <3>1. old \in Seq(SUBSET AllRows)
        BY <1>3 DEF Job
      <3> HIDE DEF old
      <3> QED
        BY <1>2, <3>1, GatheredTail
    <2>3. batch \subseteq AllRows /\ OncePerIdentity(batch)
      <3>1. 1 \in 1 .. Len(old)
        BY <2>2
      <3>2. OncePerIdentity(old[1])
        BY <1>2, <3>1 DEF Refreshing
      <3> QED
        BY <2>2, <3>2
    <2>4. missing \subseteq batch /\ \A w \in batch : w \in missing \/ w \in Home(p)
      <3> SUFFICES ASSUME NEW w \in batch, w \notin missing PROVE w \in Home(p)
        BY DEF Missing
      <3>1. PICK v \in Home(p) : SameIdentity(v, w)
        BY DEF Missing, Known
      <3>2. v = w
        BY <2>1, <3>1 DEF Conflict
      <3> QED
        BY <3>2
    <2>5. j \in Job
      BY <1>3, <2>2, <2>3, <2>4 DEF Job
    <2>6. job' = [job EXCEPT ![p] = j]
      BY <1>1, <2>1 DEF Compare, Types
    <2>7. job' \in [EvProcess -> Job] /\ job'[p] = j /\ \A q \in EvProcess \ {p} : job'[q] = job[q]
      <3> HIDE DEF j
      <3> QED
        BY <1>1, <2>5, <2>6, CallShape
    <2>8. /\ job'[p].op = "refresh" /\ job'[p].phase = next /\ job'[p].got = job[p].got \union missing
          /\ job'[p].batches = Tail(old) /\ job'[p].store = job[p].store /\ job'[p].ended = job[p].ended
      BY <1>2, <1>3, <2>7 DEF Job
    <2>9. Closed(Home(p)' \union job'[p].got \union Batched(p)')
      <3>1. Closed(Home(p) \union job[p].got \union Batched(p))
        BY <1>2 DEF Refreshing
      <3>2. Home(p)' = Home(p)
        BY <1>1, <2>8 DEF Home
      <3>3. Batched(p) = batch \union Batched(p)'
        BY <2>2, <2>8 DEF Batched
      <3>4. Home(p) \union (job[p].got \union missing) \union Batched(p)'
               = Home(p) \union job[p].got \union Batched(p)
        <4> HIDE DEF missing, batch
        <4> QED
          BY <2>4, <3>3
      <3> QED
        BY <2>8, <3>1, <3>2, <3>4
    <2>10. OncePerIdentity(job'[p].got)
      <3>1. OncePerIdentity(job[p].got)
        BY <1>2 DEF Refreshing
      <3>2. \A v \in job[p].got, w \in batch : SameIdentity(v, w) => v = w
        BY <2>1 DEF Conflict
      <3>3. \A v, w : SameIdentity(v, w) <=> SameIdentity(w, v)
        BY DEF SameIdentity
      <3> HIDE DEF missing, batch
      <3>4. OncePerIdentity(job[p].got \union missing)
        BY <2>3, <2>4, <3>1, <3>2, <3>3 DEF OncePerIdentity
      <3> QED
        BY <2>8, <3>4
    <2>11. \A n \in 1 .. Len(job'[p].batches) : OncePerIdentity(job'[p].batches[n])
      <3>1. \A n \in 1 .. Len(old) : OncePerIdentity(old[n])
        BY <1>2 DEF Refreshing
      <3> QED
        BY <2>2, <2>8, <3>1
    <2>12. \/ job'[p].phase = "compare" /\ job'[p].batches # <<>>
           \/ job'[p].phase = "commit" /\ job'[p].batches = <<>>
      BY <2>2, <2>8
    <2>13. JobOK(p)' /\ HasTables(p)'
      <3>1. Refreshing(p)'
        BY <2>9, <2>10, <2>11, <2>12 DEF Refreshing, Opening
      <3>2. schema'[job'[p].store] = "tables"
        BY <1>1, <1>3, <2>8 DEF HasTables
      <3> QED
        BY <1>2, <2>8, <3>1, <3>2 DEF JobOK, HasTables
    <2> HIDE DEF j
    <2> QED
      BY <1>1, <2>7, <2>13, SameOpened, StepOfOne
  <1> QED
    BY <1>4, <1>5
-----------------------------------------------------------------------------
(* The queries of a publication.                                           *)

LEMMA FindObservations ==
    ASSUME NEW R, R \subseteq AllRows, Closed(R), NEW d \in Producer
    PROVE  Found(d, {w \in Of("observation", R) : w.key[2] = d}, {"observation"})
  <1> DEFINE O == {w \in Of("observation", R) : w.key[2] = d}
  <1>1. \A w \in O : w.table = "observation" /\ w.key[2] = d /\ w \in R
    BY DEF Of
  <1>2. \A e : Seen(e, d, O) <=> Seen(e, d, R)
    BY DEF Seen, Of, Observation
  <1>3. \A r \in Report : \A e, f \in Records[r] : Seen(e, d, R) => Seen(f, d, R)
    BY DEF Closed, Reported
  <1>4. SeenTogether(d, O)
    BY <1>1, <1>2, <1>3 DEF SeenTogether, Of
  <1> HIDE DEF O
  <1> QED
    BY <1>1, <1>4 DEF Found, O

Only(table, X) == \A w \in X : w.table = table

(* Rows of another table do not change what has been found.                *)
LEMMA OtherTable ==
    ASSUME NEW G, NEW X, NEW d, NEW asked, NEW table, Found(d, G, asked),
           Only(table, X), table \notin asked,
           "observation" \in asked
    PROVE  /\ \A w \in G \union X : w.table \in asked \union {table}
           /\ SeenTogether(d, G \union X)
           /\ \A e : Seen(e, d, G \union X) <=> Seen(e, d, G)
           /\ \A other \in asked : \A key : Row(other, key) \in G \union X <=> Row(other, key) \in G
           /\ \A key : Row(table, key) \in G \union X <=> Row(table, key) \in X
  <1>1. \A w \in G : w.table \in asked
    BY DEF Found
  <1>2. \A other \in asked : \A key : Row(other, key) \notin X
    BY DEF Row, Only
  <1>3. \A e, c, t : Observation(e, c, t) \notin X
    BY DEF Observation, Only
  <1>4. \A key : Row(table, key) \notin G
    BY <1>1 DEF Row
  <1>5. \A e : Seen(e, d, G \union X) <=> Seen(e, d, G)
    BY <1>3 DEF Seen
  <1>6. Of("observation", G \union X) = Of("observation", G)
    BY DEF Of, Only
  <1>7. SeenTogether(d, G \union X)
    BY <1>5, <1>6 DEF SeenTogether, Found
  <1> QED
    BY <1>1, <1>2, <1>4, <1>5, <1>7 DEF Only

LEMMA FindEvidence ==
    ASSUME NEW R, R \subseteq AllRows, Closed(R), NEW d \in Producer, NEW G, G \subseteq R,
           Found(d, G, {"observation"})
    PROVE  LET X == {w \in Of("evidence", R) : w.key[1] \in Firsts("observation", G)}
           IN Found(d, G \union X, {"observation", "evidence"})
  <1> DEFINE X == {w \in Of("evidence", R) : w.key[1] \in Firsts("observation", G)}
             H == G \union X
  <1>1. Only("evidence", X)
    BY DEF Only, Of
  <1>2. /\ \A w \in H : w.table \in {"observation", "evidence"}
        /\ SeenTogether(d, H)
        /\ \A e : Seen(e, d, H) <=> Seen(e, d, G)
        /\ \A key : Row("evidence", key) \in H <=> Row("evidence", key) \in X
    <2> DEFINE asked == {"observation"}
    <2>1. Found(d, G, asked) /\ "evidence" \notin asked /\ "observation" \in asked
      OBVIOUS
    <2>2. asked \union {"evidence"} = {"observation", "evidence"}
      OBVIOUS
    <2> HIDE DEF asked, X
    <2>3. /\ \A w \in G \union X : w.table \in asked \union {"evidence"}
          /\ SeenTogether(d, G \union X)
          /\ \A e : Seen(e, d, G \union X) <=> Seen(e, d, G)
          /\ \A other \in asked : \A key : Row(other, key) \in G \union X <=> Row(other, key) \in G
          /\ \A key : Row("evidence", key) \in G \union X <=> Row("evidence", key) \in X
      BY <1>1, <2>1, OtherTable
    <2> QED
      BY <2>1, <2>2, <2>3
  <1>3. \A e : e \in Firsts("observation", G) <=> Seen(e, d, G)
    <2>1. \A w \in Of("observation", G) : w.key[2] = d
      BY DEF Found, SeenTogether
    <2>2. \A e, c : Seen(e, c, G) => c = d
      BY <2>1 DEF Seen, Of, Observation
    <2> QED
      BY <2>2, RowIdentifiers
  <1>4. \A e : Row("evidence", <<e>>) \in X <=> Row("evidence", <<e>>) \in R /\ Seen(e, d, G)
    BY <1>3 DEF Of, Row
  <1>5. \A r \in Report : \A e \in Records[r] : Seen(e, d, G) => Row("evidence", <<e>>) \in R
    BY DEF Closed, Reported, Whole, Seen
  <1>6. \A r \in Report : \A e \in Records[r] : Row("evidence", <<e>>) \in H <=> Seen(e, d, H)
    BY <1>2, <1>4, <1>5
  <1> HIDE DEF H, X
  <1> QED
    BY <1>2, <1>6 DEF Found, H, X

LEMMA FindRuns ==
    ASSUME NEW R, R \subseteq AllRows, Closed(R), NEW d \in Producer, NEW G, G \subseteq R,
           Found(d, G, {"observation", "evidence"})
    PROVE  LET X == {w \in Of("run", R) : w.key[1] \in {RunOf(e) : e \in Firsts("evidence", G)}}
           IN Found(d, G \union X, {"observation", "evidence", "run"})
  <1> DEFINE X == {w \in Of("run", R) : w.key[1] \in {RunOf(e) : e \in Firsts("evidence", G)}}
             H == G \union X
  <1>1. Only("run", X)
    BY DEF Only, Of
  <1>2. /\ \A w \in H : w.table \in {"observation", "evidence", "run"}
        /\ SeenTogether(d, H)
        /\ \A e : Seen(e, d, H) <=> Seen(e, d, G)
        /\ \A key : Row("run", key) \in H <=> Row("run", key) \in X
        /\ \A key : Row("evidence", key) \in H <=> Row("evidence", key) \in G
    <2> DEFINE asked == {"observation", "evidence"}
    <2>1. Found(d, G, asked) /\ "run" \notin asked /\ "observation" \in asked /\ "evidence" \in asked
      OBVIOUS
    <2>2. asked \union {"run"} = {"observation", "evidence", "run"}
      OBVIOUS
    <2> HIDE DEF asked, X
    <2>3. /\ \A w \in G \union X : w.table \in asked \union {"run"}
          /\ SeenTogether(d, G \union X)
          /\ \A e : Seen(e, d, G \union X) <=> Seen(e, d, G)
          /\ \A other \in asked : \A key : Row(other, key) \in G \union X <=> Row(other, key) \in G
          /\ \A key : Row("run", key) \in G \union X <=> Row("run", key) \in X
      BY <1>1, <2>1, OtherTable
    <2> QED
      BY <2>1, <2>2, <2>3
  <1>3. \A r \in Report : (\E e \in Firsts("evidence", G) : r = RunOf(e))
                             <=> \E e \in Records[r] : Row("evidence", <<e>>) \in G
    <2>1. \A e : e \in Firsts("evidence", G) <=> Row("evidence", <<e>>) \in G
      BY RowIdentifiers
    <2>2. \A e : Row("evidence", <<e>>) \in G => \E r \in Report : e \in Records[r]
      BY RowOwners
    <2> QED
      BY <2>1, <2>2, OneReport
  <1>4. \A r \in Report : Row("run", <<r>>) \in X
                             <=> Row("run", <<r>>) \in R /\ \E e \in Firsts("evidence", G) : r = RunOf(e)
    BY DEF Of, Row
  <1>5. \A r \in Report : (\E e \in Records[r] : Row("evidence", <<e>>) \in G) => Row("run", <<r>>) \in R
    BY DEF Closed, Touched, Reported, Whole
  <1>6. \A r \in Report : Row("run", <<r>>) \in H <=> \E e \in Records[r] : Row("evidence", <<e>>) \in H
    BY <1>2, <1>3, <1>4, <1>5
  <1>7. \A r \in Report : \A e \in Records[r] : Row("evidence", <<e>>) \in H <=> Seen(e, d, H)
    BY <1>2 DEF Found
  <1> HIDE DEF H, X
  <1> QED
    BY <1>2, <1>6, <1>7 DEF Found, H, X

LEMMA FindLinks ==
    ASSUME NEW R, R \subseteq AllRows, Closed(R), NEW d \in Producer, NEW G, G \subseteq R,
           Found(d, G, {"observation", "evidence", "run"})
    PROVE  LET X == {w \in Of("link", R) : w.key[1] \in Firsts("run", G)}
           IN Found(d, G \union X, {"observation", "evidence", "run", "link"})
  <1> DEFINE X == {w \in Of("link", R) : w.key[1] \in Firsts("run", G)}
             H == G \union X
  <1>1. Only("link", X)
    BY DEF Only, Of
  <1>2. /\ \A w \in H : w.table \in {"observation", "evidence", "run", "link"}
        /\ SeenTogether(d, H)
        /\ \A e : Seen(e, d, H) <=> Seen(e, d, G)
        /\ \A key : Row("link", key) \in H <=> Row("link", key) \in X
        /\ \A key : Row("evidence", key) \in H <=> Row("evidence", key) \in G
        /\ \A key : Row("run", key) \in H <=> Row("run", key) \in G
    <2> DEFINE asked == {"observation", "evidence", "run"}
    <2>1. Found(d, G, asked) /\ "link" \notin asked /\ {"observation", "evidence", "run"} \subseteq asked
      OBVIOUS
    <2>2. asked \union {"link"} = {"observation", "evidence", "run", "link"}
      OBVIOUS
    <2> HIDE DEF asked, X
    <2>3. /\ \A w \in G \union X : w.table \in asked \union {"link"}
          /\ SeenTogether(d, G \union X)
          /\ \A e : Seen(e, d, G \union X) <=> Seen(e, d, G)
          /\ \A other \in asked : \A key : Row(other, key) \in G \union X <=> Row(other, key) \in G
          /\ \A key : Row("link", key) \in G \union X <=> Row("link", key) \in X
      BY <1>1, <2>1, OtherTable
    <2> QED
      BY <2>1, <2>2, <2>3
  <1>3. \A r : r \in Firsts("run", G) <=> Row("run", <<r>>) \in G
    BY RowIdentifiers
  <1>4. \A r, c : Row("link", <<r, c>>) \in X <=> Row("link", <<r, c>>) \in R /\ Row("run", <<r>>) \in G
    BY <1>3 DEF Of, Row
  <1>5. \A r \in Report : Row("run", <<r>>) \in G => \A c \in Bundle[r] : Row("link", <<r, c>>) \in R
    BY DEF Closed, Touched, Reported, Whole
  <1>6. \A r \in Report : \A c \in Bundle[r] : Row("link", <<r, c>>) \in H <=> Row("run", <<r>>) \in H
    BY <1>2, <1>4, <1>5
  <1>7. /\ \A r \in Report : \A e \in Records[r] : Row("evidence", <<e>>) \in H <=> Seen(e, d, H)
        /\ \A r \in Report : Row("run", <<r>>) \in H <=> \E e \in Records[r] : Row("evidence", <<e>>) \in H
    BY <1>2 DEF Found
  <1> HIDE DEF H, X
  <1> QED
    BY <1>2, <1>6, <1>7 DEF Found, H, X

LEMMA FindReceipts ==
    ASSUME NEW R, R \subseteq AllRows, Closed(R), NEW d \in Producer, NEW G, G \subseteq R,
           Found(d, G, {"observation", "evidence", "run", "link"})
    PROVE  LET X == {w \in Of("receipt", R) : w.key[1] \in {k[2] : k \in KeysOf("link", G)}}
           IN Found(d, G \union X, {"observation", "evidence", "run", "link", "receipt"})
  <1> DEFINE X == {w \in Of("receipt", R) : w.key[1] \in {k[2] : k \in KeysOf("link", G)}}
             H == G \union X
  <1>1. Only("receipt", X)
    BY DEF Only, Of
  <1>2. /\ \A w \in H : w.table \in {"observation", "evidence", "run", "link", "receipt"}
        /\ SeenTogether(d, H)
        /\ \A e : Seen(e, d, H) <=> Seen(e, d, G)
        /\ \A key : Row("receipt", key) \in H <=> Row("receipt", key) \in X
        /\ \A key : Row("evidence", key) \in H <=> Row("evidence", key) \in G
        /\ \A key : Row("run", key) \in H <=> Row("run", key) \in G
        /\ \A key : Row("link", key) \in H <=> Row("link", key) \in G
    <2> DEFINE asked == {"observation", "evidence", "run", "link"}
    <2>1. Found(d, G, asked) /\ "receipt" \notin asked /\ {"observation", "evidence", "run", "link"} \subseteq asked
      OBVIOUS
    <2>2. asked \union {"receipt"} = {"observation", "evidence", "run", "link", "receipt"}
      OBVIOUS
    <2> HIDE DEF asked, X
    <2>3. /\ \A w \in G \union X : w.table \in asked \union {"receipt"}
          /\ SeenTogether(d, G \union X)
          /\ \A e : Seen(e, d, G \union X) <=> Seen(e, d, G)
          /\ \A other \in asked : \A key : Row(other, key) \in G \union X <=> Row(other, key) \in G
          /\ \A key : Row("receipt", key) \in G \union X <=> Row("receipt", key) \in X
      BY <1>1, <2>1, OtherTable
    <2> QED
      BY <2>1, <2>2, <2>3
  <1>3. \A c : c \in {k[2] : k \in KeysOf("link", G)}
                  <=> \E r \in Report : c \in Bundle[r] /\ Row("link", <<r, c>>) \in G
    <2>1. /\ \A r, c : <<r, c>> \in KeysOf("link", G) <=> Row("link", <<r, c>>) \in G
          /\ \A k : k \in KeysOf("link", G) => \E r \in Report : \E c \in Bundle[r] : k = <<r, c>>
      BY RowIdentifiers
    <2>2. ASSUME NEW k \in KeysOf("link", G)
          PROVE  \E r \in Report : k[2] \in Bundle[r] /\ Row("link", <<r, k[2]>>) \in G
      <3>1. PICK r \in Report : \E c \in Bundle[r] : k = <<r, c>>
        BY <2>1
      <3>2. k = <<r, k[2]>> /\ k[2] \in Bundle[r]
        BY <3>1
      <3> QED
        BY <2>1, <3>2
    <2>3. ASSUME NEW c, NEW r \in Report, Row("link", <<r, c>>) \in G
          PROVE  c \in {k[2] : k \in KeysOf("link", G)}
      <3>1. <<r, c>> \in KeysOf("link", G) /\ <<r, c>>[2] = c
        BY <2>1, <2>3
      <3> QED
        BY <3>1
    <2> QED
      BY <2>2, <2>3
  <1>4. \A c : Row("receipt", <<c>>) \in X
                  <=> Row("receipt", <<c>>) \in R /\ \E r \in Report : c \in Bundle[r] /\ Row("link", <<r, c>>) \in G
    BY <1>3 DEF Of, Row
  <1>5. \A r \in Report : \A c \in Bundle[r] : Row("link", <<r, c>>) \in G => Row("receipt", <<c>>) \in R
    BY DEF Closed, Touched, Reported, Whole
  <1>6. \A c \in UNION {Bundle[r] : r \in Report} :
            Row("receipt", <<c>>) \in H <=> \E r \in Report : c \in Bundle[r] /\ Row("link", <<r, c>>) \in H
    BY <1>2, <1>4, <1>5
  <1>7. /\ \A r \in Report : \A e \in Records[r] : Row("evidence", <<e>>) \in H <=> Seen(e, d, H)
        /\ \A r \in Report : Row("run", <<r>>) \in H <=> \E e \in Records[r] : Row("evidence", <<e>>) \in H
        /\ \A r \in Report : \A c \in Bundle[r] : Row("link", <<r, c>>) \in H <=> Row("run", <<r>>) \in H
    BY <1>2 DEF Found
  <1> HIDE DEF H, X
  <1> QED
    BY <1>2, <1>6, <1>7 DEF Found, H, X

(* What all five have found is what a refresh accepts.                     *)
LEMMA FoundIsComplete ==
    ASSUME NEW G, G \subseteq AllRows, NEW d \in Producer,
           Found(d, G, {"observation", "evidence", "run", "link", "receipt"})
    PROVE  CompleteGraph(d, G)
  <1>1. /\ \A r : r \in Firsts("run", G) <=> Row("run", <<r>>) \in G
        /\ \A c : c \in Firsts("receipt", G) <=> Row("receipt", <<c>>) \in G
        /\ \A e : e \in Firsts("evidence", G) <=> Row("evidence", <<e>>) \in G
        /\ \A r, c : <<r, c>> \in KeysOf("link", G) <=> Row("link", <<r, c>>) \in G
        /\ \A k : k \in KeysOf("link", G) => \E r \in Report : \E c \in Bundle[r] : k = <<r, c>>
        /\ \A e : e \in Firsts("observation", G) <=> \E c \in Producer : Seen(e, c, G)
    BY RowIdentifiers
  <1>2. /\ \A r : Row("run", <<r>>) \in G => r \in Report
        /\ \A c : Row("receipt", <<c>>) \in G => \E r \in Report : c \in Bundle[r]
        /\ \A r, c : Row("link", <<r, c>>) \in G => r \in Report /\ c \in Bundle[r]
        /\ \A e : Row("evidence", <<e>>) \in G => \E r \in Report : e \in Records[r]
        /\ \A e, c : Seen(e, c, G) => \E r \in Report : e \in Records[r]
    BY RowOwners DEF Seen
  <1>3. /\ \A r \in Report : \A e \in Records[r] : Row("evidence", <<e>>) \in G <=> Seen(e, d, G)
        /\ \A r \in Report : Row("run", <<r>>) \in G <=> \E e \in Records[r] : Row("evidence", <<e>>) \in G
        /\ \A r \in Report : \A c \in Bundle[r] : Row("link", <<r, c>>) \in G <=> Row("run", <<r>>) \in G
        /\ \A c \in UNION {Bundle[r] : r \in Report} :
              Row("receipt", <<c>>) \in G <=> \E r \in Report : c \in Bundle[r] /\ Row("link", <<r, c>>) \in G
        /\ \A r \in Report : \A e, f \in Records[r] : Seen(e, d, G) => Seen(f, d, G)
        /\ \A w \in Of("observation", G) : w.key[2] = d
    BY DEF Found, SeenTogether
  <1>4. \A e, c : Seen(e, c, G) => c = d
    BY <1>3 DEF Seen, Of, Observation
  <1>5. Firsts("evidence", G) = Firsts("observation", G)
    BY <1>1, <1>2, <1>3, <1>4
  <1>6. Firsts("run", G) = {RunOf(e) : e \in Firsts("evidence", G)}
    <2>1. ASSUME NEW r \in Firsts("run", G) PROVE \E e \in Firsts("evidence", G) : r = RunOf(e)
      <3>1. r \in Report /\ Row("run", <<r>>) \in G
        BY <1>1, <1>2
      <3>2. PICK e \in Records[r] : Row("evidence", <<e>>) \in G
        BY <1>3, <3>1
      <3>3. RunOf(e) = r
        BY <3>1, OneReport
      <3> QED
        BY <1>1, <3>2, <3>3
    <2>2. ASSUME NEW e \in Firsts("evidence", G) PROVE RunOf(e) \in Firsts("run", G)
      <3>1. Row("evidence", <<e>>) \in G
        BY <1>1
      <3>2. PICK r \in Report : e \in Records[r]
        BY <1>2, <3>1
      <3>3. RunOf(e) = r /\ Row("run", <<r>>) \in G
        BY <1>3, <3>1, <3>2, OneReport
      <3> QED
        BY <1>1, <3>3
    <2> QED
      BY <2>1, <2>2
  <1>7. KeysOf("link", G) = UNION {{r} \X Bundle[r] : r \in Firsts("run", G)}
    <2>1. \A k \in KeysOf("link", G) : \E r \in Firsts("run", G) : k \in {r} \X Bundle[r]
      <3> SUFFICES ASSUME NEW k \in KeysOf("link", G) PROVE \E r \in Firsts("run", G) : k \in {r} \X Bundle[r]
        OBVIOUS
      <3>1. PICK r \in Report : \E c \in Bundle[r] : k = <<r, c>>
        BY <1>1
      <3>2. Row("run", <<r>>) \in G
        BY <1>1, <1>3, <3>1
      <3> QED
        BY <1>1, <3>1, <3>2
    <2>2. ASSUME NEW r \in Firsts("run", G), NEW k \in {r} \X Bundle[r] PROVE k \in KeysOf("link", G)
      <3>1. PICK c \in Bundle[r] : k = <<r, c>>
        OBVIOUS
      <3>2. Row("link", <<r, c>>) \in G
        BY <1>1, <1>2, <1>3
      <3> QED
        BY <1>1, <3>1, <3>2
    <2> QED
      BY <2>1, <2>2
  <1>8. Firsts("receipt", G) = UNION {Bundle[r] : r \in Firsts("run", G)}
    <2>1. ASSUME NEW c \in Firsts("receipt", G) PROVE \E r \in Firsts("run", G) : c \in Bundle[r]
      <3>1. Row("receipt", <<c>>) \in G /\ c \in UNION {Bundle[r] : r \in Report}
        BY <1>1, <1>2
      <3>2. PICK r \in Report : c \in Bundle[r] /\ Row("link", <<r, c>>) \in G
        BY <1>3, <3>1
      <3>3. Row("run", <<r>>) \in G
        BY <1>3, <3>2
      <3> QED
        BY <1>1, <3>2, <3>3
    <2>2. ASSUME NEW r \in Firsts("run", G), NEW c \in Bundle[r] PROVE c \in Firsts("receipt", G)
      <3>1. r \in Report /\ Row("run", <<r>>) \in G
        BY <1>1, <1>2
      <3>2. Row("link", <<r, c>>) \in G /\ c \in UNION {Bundle[q] : q \in Report}
        BY <1>3, <3>1
      <3>3. Row("receipt", <<c>>) \in G
        BY <1>3, <3>1, <3>2
      <3> QED
        BY <1>1, <3>3
    <2> QED
      BY <2>1, <2>2
  <1>9. Firsts("evidence", G) = UNION {Records[r] : r \in Firsts("run", G)}
    <2>1. ASSUME NEW e \in Firsts("evidence", G) PROVE \E r \in Firsts("run", G) : e \in Records[r]
      <3>1. Row("evidence", <<e>>) \in G
        BY <1>1
      <3>2. PICK r \in Report : e \in Records[r]
        BY <1>2, <3>1
      <3>3. Row("run", <<r>>) \in G
        BY <1>3, <3>1, <3>2
      <3> QED
        BY <1>1, <3>2, <3>3
    <2>2. ASSUME NEW r \in Firsts("run", G), NEW e \in Records[r] PROVE e \in Firsts("evidence", G)
      <3>1. r \in Report /\ Row("run", <<r>>) \in G
        BY <1>1, <1>2
      <3>2. PICK f \in Records[r] : Row("evidence", <<f>>) \in G
        BY <1>3, <3>1
      <3>3. Seen(e, d, G)
        BY <1>3, <3>1, <3>2
      <3> QED
        BY <1>1, <1>3, <3>1, <3>3
    <2> QED
      BY <2>1, <2>2
  <1>10. \A k \in KeysOf("observation", G) : k[2] = d
    BY <1>3 DEF KeysOf
  <1> QED
    BY <1>5, <1>6, <1>7, <1>8, <1>9, <1>10 DEF CompleteGraph

LEMMA SelectKeeps ==
    ASSUME Archive, NEW p \in EvProcess, job[p].op = "publish", NEW found, found \subseteq Home(p),
           NEW asking, NEW next \in Chosen, Select(p, asking, found, next), job[p].got \subseteq Home(p),
           asking # "idle", schema[job[p].store] = "tables",
           Found(job[p].producer, job[p].got \union found, Asked(next))
    PROVE  Archive'
  <1> DEFINE j == [job[p] EXCEPT !.got = @ \union found, !.phase = next]
  <1>1. /\ Types /\ JobOK(p) /\ job[p].phase = asking /\ UNCHANGED <<schema, rows, opened, published>>
        /\ job[p] \in Job
    BY DEF Archive, Jobs, Select, At, Types
  <1>2. job[p].store \in EvStore /\ job[p].ended # "refused"
    BY <1>1 DEF JobOK
  <1>3. found \subseteq AllRows
    BY <1>1, <1>2 DEF Types, Home
  <1>4. j \in Job
    BY <1>1, <1>3 DEF Job
  <1>5. job' = [job EXCEPT ![p] = j]
    BY <1>1 DEF Select, Types
  <1>6. job' \in [EvProcess -> Job] /\ job'[p] = j /\ \A q \in EvProcess \ {p} : job'[q] = job[q]
    <2> HIDE DEF j
    <2> QED
      BY <1>1, <1>4, <1>5, CallShape
  <1>7. /\ job'[p].op = "publish" /\ job'[p].phase = next /\ job'[p].got = job[p].got \union found
        /\ job'[p].store = job[p].store /\ job'[p].producer = job[p].producer /\ job'[p].ended = job[p].ended
    BY <1>1, <1>6 DEF Job
  <1>8. Home(p)' = Home(p)
    BY <1>1, <1>7 DEF Home
  <1>9. Found(job'[p].producer, job'[p].got, Asked(job'[p].phase))
    BY <1>7
  <1>10. Publishing(p)'
    BY <1>7, <1>8, <1>9 DEF Publishing
  <1>11. JobOK(p)' /\ HasTables(p)'
    BY <1>1, <1>2, <1>7, <1>10 DEF JobOK, HasTables
  <1> HIDE DEF j
  <1> QED
    BY <1>1, <1>6, <1>11, SameOpened, StepOfOne

LEMMA ReadSnapshotKeeps ==
    ASSUME Archive, NEW p \in EvProcess, ReadSnapshot(p)
    PROVE  Archive'
  <1> DEFINE R == Home(p)
             G == job[p].got
             d == job[p].producer
  <1>1. Types /\ JobOK(p) /\ HasTables(p)
    BY DEF Archive, Jobs
  <1>2. job[p].phase \in {"observations", "evidence", "runs", "links", "receipts"}
    BY DEF ReadSnapshot, Select, At
  <1>3. /\ job[p].op = "publish" /\ Publishing(p) /\ job[p].store \in EvStore /\ d \in Producer
        /\ schema[job[p].store] = "tables"
    <2>1. d \in Producer
      BY <1>1 DEF Types, Job
    <2> QED
      BY <1>1, <1>2, <2>1 DEF JobOK, Recording, Refreshing, Opening, HasTables, Chosen
  <1>4. R \subseteq AllRows /\ Closed(R)
    BY <1>3 DEF Archive, Stores, Filed, Home
  <1>5. G \subseteq R
    BY <1>3 DEF Publishing
  <1>6. CASE Select(p, "observations", Observed(p), "evidence")
    <2>1. G = {}
      BY <1>3, <1>6 DEF Publishing, Select, At, Chosen
    <2>2. Observed(p) \subseteq R
      BY DEF Observed, Of
    <2>3. Found(d, Observed(p), {"observation"})
      BY <1>3, <1>4, FindObservations DEF Observed
    <2>4. Found(d, G \union Observed(p), Asked("evidence"))
      <3>1. G \union Observed(p) = Observed(p) /\ Asked("evidence") = {"observation"}
        BY <2>1 DEF Asked
      <3> QED
        BY <2>3, <3>1
    <2> QED
      BY <1>3, <1>5, <1>6, <2>2, <2>4, SelectKeeps DEF Chosen
  <1>7. CASE Select(p, "evidence", EvidenceOf(p), "runs")
    <2>1. Found(d, G, {"observation"})
      BY <1>3, <1>7 DEF Publishing, Select, At, Opening, Asked
    <2>2. EvidenceOf(p) \subseteq R
      BY DEF EvidenceOf, Of
    <2>3. Found(d, G \union EvidenceOf(p), {"observation", "evidence"})
      BY <1>3, <1>4, <1>5, <2>1, FindEvidence DEF EvidenceOf
    <2>4. Asked("runs") = {"observation", "evidence"}
      BY DEF Asked
    <2> QED
      BY <1>3, <1>5, <1>7, <2>2, <2>3, <2>4, SelectKeeps DEF Chosen
  <1>8. CASE Select(p, "runs", RunsOf(p), "links")
    <2>1. Found(d, G, {"observation", "evidence"})
      BY <1>3, <1>8 DEF Publishing, Select, At, Opening, Asked
    <2>2. RunsOf(p) \subseteq R
      BY DEF RunsOf, Of
    <2>3. Found(d, G \union RunsOf(p), {"observation", "evidence", "run"})
      BY <1>3, <1>4, <1>5, <2>1, FindRuns DEF RunsOf
    <2>4. Asked("links") = {"observation", "evidence", "run"}
      BY DEF Asked
    <2> QED
      BY <1>3, <1>5, <1>8, <2>2, <2>3, <2>4, SelectKeeps DEF Chosen
  <1>9. CASE Select(p, "links", LinksOf(p), "receipts")
    <2>1. Found(d, G, {"observation", "evidence", "run"})
      BY <1>3, <1>9 DEF Publishing, Select, At, Opening, Asked
    <2>2. LinksOf(p) \subseteq R
      BY DEF LinksOf, Of
    <2>3. Found(d, G \union LinksOf(p), {"observation", "evidence", "run", "link"})
      BY <1>3, <1>4, <1>5, <2>1, FindLinks DEF LinksOf
    <2>4. Asked("receipts") = {"observation", "evidence", "run", "link"}
      BY DEF Asked
    <2> QED
      BY <1>3, <1>5, <1>9, <2>2, <2>3, <2>4, SelectKeeps DEF Chosen
  <1>10. CASE Select(p, "receipts", ReceiptsOf(p), "replace")
    <2>1. Found(d, G, {"observation", "evidence", "run", "link"})
      BY <1>3, <1>10 DEF Publishing, Select, At, Opening, Asked
    <2>2. ReceiptsOf(p) \subseteq R
      BY DEF ReceiptsOf, Of
    <2>3. Found(d, G \union ReceiptsOf(p), {"observation", "evidence", "run", "link", "receipt"})
      BY <1>3, <1>4, <1>5, <2>1, FindReceipts DEF ReceiptsOf
    <2>4. Asked("replace") = {"observation", "evidence", "run", "link", "receipt"}
      BY DEF Asked
    <2> QED
      BY <1>3, <1>5, <1>10, <2>2, <2>3, <2>4, SelectKeeps DEF Chosen
  <1> QED
    BY <1>6, <1>7, <1>8, <1>9, <1>10 DEF ReadSnapshot

LEMMA ReplaceKeeps ==
    ASSUME Archive, NEW p \in EvProcess, Replace(p)
    PROVE  Archive'
  <1> DEFINE G == job[p].got
             d == job[p].producer
  <1>1. Types /\ JobOK(p) /\ job[p].phase = "replace" /\ EndsAs(p, "none") /\ UNCHANGED <<schema, rows, opened>>
    BY DEF Archive, Jobs, Replace, At
  <1>2. d \in Producer /\ job[p].store \in EvStore /\ Publishing(p)
    <2>1. d \in Producer
      BY <1>1 DEF Types, Job
    <2> QED
      BY <1>1, <2>1 DEF JobOK, Recording, Refreshing, Opening
  <1>3. G \subseteq Home(p) /\ Found(d, G, {"observation", "evidence", "run", "link", "receipt"})
    BY <1>1, <1>2 DEF Publishing, Opening, Asked
  <1>4. Home(p) \subseteq AllRows /\ OncePerIdentity(Home(p))
    BY <1>2 DEF Archive, Stores, Filed, Home
  <1>5. Filed(G) /\ CompleteGraph(d, G)
    BY <1>2, <1>3, <1>4, FoundIsComplete DEF Filed, OncePerIdentity
  <1>6. \A c \in Producer : published'[c] = IF c = d THEN G ELSE published[c]
    BY <1>1 DEF Replace, Types
  <1>7. \A c \in Producer : Filed(published'[c]) /\ CompleteGraph(c, published'[c])
    BY <1>5, <1>6 DEF Archive, Snapshots
  <1>8. /\ job' \in [EvProcess -> Job] /\ \A q \in EvProcess \ {p} : job'[q] = job[q]
        /\ JobOK(p)' /\ HasTables(p)'
    BY <1>1, EndedJob
  <1>9. Types'
    <2>1. published' \in [Producer -> SUBSET AllRows]
      BY <1>1, <1>2, <1>5 DEF Replace, Types, Filed
    <2> QED
      BY <1>1, <1>8, <2>1 DEF Types
  <1>10. Stores'
    <2>1. \A s \in EvStore : Filed(rows'[s]) /\ Closed(rows'[s])
      BY <1>1 DEF Archive, Stores
    <2> QED
      BY <2>1 DEF Stores
  <1>11. Snapshots'
    BY <1>7 DEF Snapshots
  <1>12. \A q \in EvProcess \ {p} : JobOK(q)'
    <2>1. \A s \in EvStore : rows[s] \subseteq rows'[s] /\ Closed(rows'[s])
      BY <1>1 DEF Archive, Stores
    <2> QED
      BY <1>8, <2>1, OtherJobs
  <1>13. \A q \in EvProcess \ {p} : HasTables(q)'
    BY <1>1, <1>8 DEF Archive, Jobs, HasTables, Chosen
  <1> QED
    BY <1>8, <1>9, <1>10, <1>11, <1>12, <1>13 DEF Archive, Jobs
-----------------------------------------------------------------------------
(* The inductive invariant holds at first and is kept by every step.       *)

LEMMA ArchiveAtFirst == EvidenceInit => Archive
  <1> SUFFICES ASSUME EvidenceInit PROVE Archive
    OBVIOUS
  <1>1. \A r \in Report, c \in Producer, t \in Time :
            Filed(RowsOf(r, c, t)) /\ Closed(RowsOf(r, c, t)) /\ CompleteGraph(c, RowsOf(r, c, t))
    BY RowsOfReport, RowsOfOnce, OneReportIsComplete DEF Filed
  <1>2. /\ rows \in [EvStore -> {{}} \union {RowsOf(r, c, t) : r \in Report, c \in Producer, t \in Time}]
        /\ schema = [s \in EvStore |-> IF rows[s] = {} THEN "absent" ELSE "tables"]
        /\ opened = [p \in EvProcess |-> {}]
        /\ job = [p \in EvProcess |-> NoJob]
    BY DEF EvidenceInit
  <1>3. \A s \in EvStore : Filed(rows[s]) /\ Closed(rows[s])
    <2> SUFFICES ASSUME NEW s \in EvStore PROVE Filed(rows[s]) /\ Closed(rows[s])
      OBVIOUS
    <2>1. rows[s] = {} \/ \E r \in Report, c \in Producer, t \in Time : rows[s] = RowsOf(r, c, t)
      BY <1>2
    <2> QED
      BY <1>1, <2>1, NothingIsComplete
  <1>4. PICK R \in {{}} \union {RowsOf(r, Elsewhere, Now) : r \in Report} :
            published = [c \in Producer |-> IF c = Elsewhere THEN R ELSE {}]
    BY DEF EvidenceInit
  <1>5. Filed(R) /\ CompleteGraph(Elsewhere, R)
    BY <1>1, <1>4, NothingIsComplete, EvidenceAssumption
  <1>6. \A c \in Producer : Filed(published[c]) /\ CompleteGraph(c, published[c])
    BY <1>4, <1>5, NothingIsComplete
  <1>7. Types
    <2>1. rows \in [EvStore -> SUBSET AllRows]
      BY <1>2, <1>3 DEF Filed
    <2>2. published \in [Producer -> SUBSET AllRows]
      BY <1>4, <1>5 DEF Filed
    <2> QED
      BY <1>2, <2>1, <2>2, NoJobShape DEF Types
  <1>8. Jobs
    <2>1. NoJob.phase = "idle" /\ NoJob.ended = "none"
      BY DEF NoJob
    <2> QED
      BY <1>2, <2>1 DEF Jobs, JobOK, HasTables, Chosen
  <1> QED
    BY <1>3, <1>6, <1>7, <1>8 DEF Archive, Stores, Snapshots

LEMMA ArchiveKept == Archive /\ [EvidenceNext]_evidenceVars => Archive'
  <1> SUFFICES ASSUME Archive, [EvidenceNext]_evidenceVars PROVE Archive'
    OBVIOUS
  <1>1. CASE UNCHANGED evidenceVars
    <2>1. CASE EvProcess = {}
      <3>1. Types'
        BY <1>1 DEF evidenceVars, Archive, Types
      <3>2. Stores'
        <4>1. \A s \in EvStore : Filed(rows'[s]) /\ Closed(rows'[s])
          BY <1>1 DEF Archive, Stores, evidenceVars
        <4> QED
          BY <4>1 DEF Stores
      <3>3. Snapshots'
        <4>1. \A c \in Producer : Filed(published'[c]) /\ CompleteGraph(c, published'[c])
          BY <1>1 DEF Archive, Snapshots, evidenceVars
        <4> QED
          BY <4>1 DEF Snapshots
      <3>4. Jobs'
        BY <2>1 DEF Jobs
      <3> QED
        BY <3>1, <3>2, <3>3, <3>4 DEF Archive
    <2>2. CASE EvProcess # {}
      <3>1. PICK p \in EvProcess : TRUE
        BY <2>2
      <3>2. Types /\ UNCHANGED <<schema, rows, opened, published, job>>
        BY <1>1 DEF Archive, evidenceVars
      <3>3. \A s \in EvStore : rows[s] \subseteq rows'[s] /\ Closed(rows'[s])
        BY <3>2 DEF Archive, Stores
      <3>4. JobOK(p)' /\ HasTables(p)'
        <4>1. JobOK(p)'
          BY <3>2, <3>3, OtherJobs
        <4> QED
          BY <3>2, <4>1 DEF Archive, Jobs, HasTables, Chosen
      <3>5. job' \in [EvProcess -> Job] /\ \A q \in EvProcess \ {p} : job'[q] = job[q]
        BY <3>2 DEF Types
      <3> QED
        BY <3>2, <3>4, <3>5, SameOpened, StepOfOne
    <2> QED
      BY <2>1, <2>2
  <1>2. ASSUME NEW p \in EvProcess, NEW s \in EvStore, NEW c \in Producer,
               \/ \E r \in Report : CallRecord(p, s, r, c)
               \/ CallPublish(p, s, c)
               \/ CallRefresh(p, s)
        PROVE  Archive'
    BY <1>2, CallRecordKeeps, CallPublishKeeps, CallRefreshKeeps
  <1>3. ASSUME NEW p \in EvProcess, JobStep(p) PROVE Archive'
    <2>1. CASE StatementFails(p)
      BY <2>1, FailKeeps DEF StatementFails
    <2>2. CASE \E c \in Producer : Read(p, c)
      BY <2>2, ReadKeeps
    <2> QED
      BY <1>3, <2>1, <2>2, OpenKeeps, CreateDatabaseKeeps, LookAtTablesKeeps, MigrateKeeps,
         CommitTransactionKeeps, ReadSnapshotKeeps, ReplaceKeeps, CompareKeeps, DiesKeeps DEF JobStep
  <1> QED
    BY <1>1, <1>2, <1>3 DEF EvidenceNext
-----------------------------------------------------------------------------
(* Whatever fails or dies, and whoever records, publishes and refreshes at *)
(* the same time: each store has whole reports and each row once, and each *)
(* published snapshot is a complete graph of its producer.                 *)
THEOREM EvidenceStaysComplete == EvidenceSpec => []EvidenceComplete
  <1>1. Archive => EvidenceComplete
    <2> SUFFICES ASSUME Archive PROVE EvidenceComplete
      OBVIOUS
    <2>1. ASSUME NEW s \in EvStore
          PROVE  LET R == rows[s]
                     observed == Firsts("observation", R)
                 IN /\ \A v, w \in R : SameIdentity(v, w) => v = w
                    /\ Firsts("evidence", R) = observed
                    /\ Firsts("run", R) = {RunOf(e) : e \in observed}
                    /\ \A r \in Firsts("run", R) : /\ Records[r] \subseteq observed
                                                   /\ Bundle[r] \subseteq Firsts("receipt", R)
                                                   /\ {r} \X Bundle[r] \subseteq KeysOf("link", R)
      <3>1. rows[s] \subseteq AllRows /\ OncePerIdentity(rows[s]) /\ Closed(rows[s])
        BY DEF Archive, Stores, Filed
      <3>2. \A v, w \in rows[s] : SameIdentity(v, w) => v = w
        BY <3>1 DEF OncePerIdentity
      <3> QED
        BY <3>1, <3>2, ClosedIsComplete
    <2>2. StoresComplete
      BY <2>1 DEF StoresComplete
    <2>3. PublishedComplete
      BY DEF Archive, Snapshots, Jobs, JobOK, PublishedComplete
    <2> QED
      BY <2>2, <2>3 DEF EvidenceComplete
  <1> QED
    BY <1>1, ArchiveAtFirst, ArchiveKept, PTL DEF EvidenceSpec

(* The types: a process knows the tables only of a store that has them,    *)
(* rows are only in such a store, and no more calls are made than allowed. *)
THEOREM EvidenceTyped == EvidenceSpec => []EvidenceTypeOK
<1> DEFINE Filled == /\ evCalls \in 0 .. MaxCalls
                     /\ \A s \in EvStore : rows[s] # {} => schema[s] = "tables"
<1>1. EvidenceInit => Filled
  BY EvidenceAssumption DEF EvidenceInit
<1>2. Archive /\ Filled /\ [EvidenceNext]_evidenceVars => Filled'
  <2> SUFFICES ASSUME Archive, Filled, [EvidenceNext]_evidenceVars PROVE Filled'
    OBVIOUS
  <2>1. /\ schema \in [EvStore -> {"absent", "bare", "tables"}] /\ rows \in [EvStore -> SUBSET AllRows]
        /\ MaxCalls \in Nat
        /\ \A p \in EvProcess : job[p].phase # "idle" => job[p].store \in EvStore
        /\ \A p \in EvProcess : job[p].phase = "commit" => schema[job[p].store] = "tables"
    BY EvidenceAssumption DEF Archive, Types, Jobs, JobOK, HasTables
  <2>2. ASSUME NEW p \in EvProcess, Call(p) PROVE Filled'
    BY <2>1, <2>2 DEF Call
  <2>3. ASSUME NEW p \in EvProcess, CreateDatabase(p) PROVE Filled'
    <3>1. \/ schema' = schema
          \/ schema[job[p].store] = "absent" /\ schema' = [schema EXCEPT ![job[p].store] = "bare"]
      BY <2>3 DEF CreateDatabase
    <3> QED BY <2>1, <2>3, <3>1 DEF CreateDatabase
  <2>4. ASSUME NEW p \in EvProcess, Migrate(p) PROVE Filled'
    BY <2>1, <2>4 DEF Migrate
  <2>5. ASSUME NEW p \in EvProcess, CommitTransaction(p) PROVE Filled'
    <3>1. \E new : rows' = rows \/ rows' = [rows EXCEPT ![job[p].store] = @ \union new]
      BY <2>5 DEF CommitTransaction
    <3>2. \A s \in EvStore : s # job[p].store => rows'[s] = rows[s]
      BY <2>1, <3>1
    <3>3. schema' = schema /\ evCalls' = evCalls /\ schema[job[p].store] = "tables"
      BY <2>1, <2>5 DEF CommitTransaction, At
    <3> QED BY <3>2, <3>3
  <2>6. CASE UNCHANGED <<evCalls, rows, schema>>
    BY <2>6
  <2>7. \/ UNCHANGED <<evCalls, rows, schema>>
        \/ \E p \in EvProcess : Call(p) \/ CreateDatabase(p) \/ Migrate(p) \/ CommitTransaction(p)
    BY DEF EvidenceNext, evidenceVars, CallRecord, CallPublish, CallRefresh, JobStep, Open, LookAtTables,
           ReadSnapshot, Select, Replace, Read, Compare, StatementFails, Dies
  <2> HIDE DEF Filled
  <2> QED BY <2>2, <2>3, <2>4, <2>5, <2>6, <2>7
<1>3. Archive /\ Filled => EvidenceTypeOK
  BY DEF Archive, Types, EvidenceTypeOK
<1> HIDE DEF Filled
<1> QED BY <1>1, <1>2, <1>3, ArchiveAtFirst, ArchiveKept, PTL DEF EvidenceSpec
-----------------------------------------------------------------------------
(* VerificationStages.                                                     *)

(* The requirements that have been answered, and how far both stages are.  *)
Moves(s) == {MovementCase(s, m) : m \in Movements}
OracleUntil(n) == UNION {PlanRequirements("oracle", OraclePlans[i], Catalog(OraclePlans[i])) : i \in 1 .. n - 1}
TargetUntil(n) == UNION {PlanRequirements("target", TargetPlans[i], TargetCatalog(TargetPlans[i])) : i \in 1 .. n - 1}

Required ==
    CASE phase = "oracle moves" -> {}
      [] phase = "oracle" -> Moves("oracle") \union OracleUntil(at)
      [] phase \in {"authorize", "target moves"} -> OracleRequirements
      [] phase = "target" -> OracleRequirements \union Moves("target") \union TargetUntil(at)
      [] OTHER -> OracleRequirements \union TargetRequirements

Progress ==
    /\ phase \in {"oracle moves", "oracle", "authorize", "target moves", "target", "report", "reported", "refused"}
    /\ at \in Nat /\ at >= 1
    /\ phase \in {"oracle moves", "authorize", "target moves"} => at = 1
    /\ phase = "oracle" => at <= Len(OraclePlans) + 1
    /\ phase = "target" => at <= Len(TargetPlans) + 1

AreRecords(E) == \A r \in E : r = Record(r.of, r.outcome, r.receipt, r.consumed)

(* The records of E answer what Q requires, each requirement once.         *)
Answers(E, Q) ==
    /\ AreRecords(E)
    /\ {r.of : r \in E} = Q
    /\ \A r, x \in E : r.of = x.of => r = x

(* What the oracle's catalog asks of a kernel has passed.                  *)
Complete(k, E) ==
    \A p \in Active(k) : \A c \in Catalog(p) :
        \E x \in E : x.of = Requirement("oracle", p.operation, p, c[1], c[2]) /\ x.outcome = "passed"

Allowed(r, E) ==
    r.of.stage = "target" /\ r.of.kernel \notin Movements /\ r.outcome \in Ran =>
        r.consumed \in certificates /\ r.consumed.kernel = r.of.kernel /\ Complete(r.of.kernel, E)

Trusted == phase \in {"target moves", "target"} => \A c \in certificates : Complete(c.kernel, evidence)

(* The inductive invariant.                                                *)
Staged == Progress /\ Answers(evidence, Required) /\ (\A r \in evidence : Allowed(r, evidence)) /\ Trusted
-----------------------------------------------------------------------------
LEMMA AnswersAdded ==
    ASSUME NEW E, NEW Q, NEW F, NEW P, Answers(E, Q), Answers(F, P), Q \cap P = {}
    PROVE  Answers(E \union F, Q \union P)
  BY DEF Answers, AreRecords

LEMMA RequirementFields ==
    ASSUME NEW s, NEW k, NEW p, NEW class, NEW label
    PROVE  LET q == Requirement(s, k, p, class, label)
           IN  q.stage = s /\ q.kernel = k /\ q.plan = p /\ q.class = class /\ q.label = label
  BY DEF Requirement

LEMMA RecordFields ==
    ASSUME NEW q, NEW outcome, NEW receipt, NEW consumed
    PROVE  LET r == Record(q, outcome, receipt, consumed)
           IN  r.of = q /\ r.outcome = outcome /\ r.receipt = receipt /\ r.consumed = consumed
  BY DEF Record

LEMMA CasesArePairs ==
    ASSUME NEW p
    PROVE  /\ \A c \in Catalog(p) : c = <<c[1], c[2]>>
           /\ \A c \in TargetCatalog(p) : c = <<c[1], c[2]>>
  BY DEF Catalog, TargetCatalog, Case, ExactCases, StructuralCases, NumericalCases, AnalyticCases

LEMMA PlanRequirementFields ==
    ASSUME NEW s, NEW p, NEW catalog, NEW q \in PlanRequirements(s, p, catalog)
    PROVE  q.stage = s /\ q.kernel = p.operation /\ q.plan = p
  BY RequirementFields DEF PlanRequirements, DeferredCase

LEMMA MoveFields ==
    ASSUME NEW s, NEW q \in Moves(s)
    PROVE  q.stage = s /\ q.kernel \in Movements /\ q.plan = Absent
  BY RequirementFields DEF Moves, MovementCase

LEMMA PlansAreSequences ==
    /\ ArePlans(OraclePlans) /\ ArePlans(TargetPlans)
    /\ Len(OraclePlans) \in Nat /\ DOMAIN OraclePlans = 1 .. Len(OraclePlans)
    /\ Len(TargetPlans) \in Nat /\ DOMAIN TargetPlans = 1 .. Len(TargetPlans)
<1>1. ArePlans(OraclePlans) /\ ArePlans(TargetPlans)
  BY StagesAssumption DEF TargetPlans
<1>2. ASSUME NEW plans, ArePlans(plans) PROVE Len(plans) \in Nat /\ DOMAIN plans = 1 .. Len(plans)
  <2>1. PICK S : plans \in Seq(S)
    BY <1>2 DEF ArePlans
  <2> QED BY <2>1
<1> QED BY <1>1, <1>2

LEMMA StageOne == \A q \in OracleRequirements : q.stage = "oracle"
  BY MoveFields, PlanRequirementFields DEF OracleRequirements, Moves

LEMMA StageTwo == \A q \in TargetRequirements : q.stage = "target"
  BY MoveFields, PlanRequirementFields DEF TargetRequirements, Moves

(* One more plan: what it requires was not required before.                *)
LEMMA OracleNext ==
    ASSUME NEW n \in 1 .. Len(OraclePlans)
    PROVE  LET P == PlanRequirements("oracle", OraclePlans[n], Catalog(OraclePlans[n]))
           IN  /\ OracleUntil(n + 1) = OracleUntil(n) \union P
               /\ (Moves("oracle") \union OracleUntil(n)) \cap P = {}
<1> DEFINE P(i) == PlanRequirements("oracle", OraclePlans[i], Catalog(OraclePlans[i]))
<1>0. Len(OraclePlans) \in Nat /\ n \in Nat
  BY PlansAreSequences
<1>1. 1 .. (n + 1) - 1 = (1 .. n - 1) \union {n}
  BY <1>0
<1>2. OracleUntil(n + 1) = OracleUntil(n) \union P(n)
  BY <1>1 DEF OracleUntil
<1>3. ASSUME NEW q \in P(n), q \in Moves("oracle") \union OracleUntil(n) PROVE FALSE
  <2>1. q.plan = OraclePlans[n] /\ OraclePlans[n] # Absent
    BY PlanRequirementFields, PlansAreSequences, <1>3 DEF ArePlans, IsPlan
  <2>2. q \notin Moves("oracle")
    BY <2>1, MoveFields
  <2>3. PICK i \in 1 .. n - 1 : q \in P(i)
    BY <1>3, <2>2 DEF OracleUntil
  <2>4. i \in 1 .. Len(OraclePlans) /\ i # n
    BY <1>0
  <2>5. q.plan = OraclePlans[i]
    BY <2>3, PlanRequirementFields
  <2> QED BY <2>1, <2>4, <2>5, PlansAreSequences DEF ArePlans
<1> QED BY <1>2, <1>3

LEMMA TargetNext ==
    ASSUME NEW n \in 1 .. Len(TargetPlans)
    PROVE  LET P == PlanRequirements("target", TargetPlans[n], TargetCatalog(TargetPlans[n]))
           IN  /\ TargetUntil(n + 1) = TargetUntil(n) \union P
               /\ (OracleRequirements \union Moves("target") \union TargetUntil(n)) \cap P = {}
<1> DEFINE P(i) == PlanRequirements("target", TargetPlans[i], TargetCatalog(TargetPlans[i]))
<1>0. Len(TargetPlans) \in Nat /\ n \in Nat
  BY PlansAreSequences
<1>1. 1 .. (n + 1) - 1 = (1 .. n - 1) \union {n}
  BY <1>0
<1>2. TargetUntil(n + 1) = TargetUntil(n) \union P(n)
  BY <1>1 DEF TargetUntil
<1>3. ASSUME NEW q \in P(n), q \in OracleRequirements \union Moves("target") \union TargetUntil(n) PROVE FALSE
  <2>1. q.stage = "target" /\ q.plan = TargetPlans[n] /\ TargetPlans[n] # Absent
    BY PlanRequirementFields, PlansAreSequences, <1>3 DEF ArePlans, IsPlan
  <2>2. q \notin Moves("target") /\ q \notin OracleRequirements
    BY <2>1, MoveFields, StageOne
  <2>3. PICK i \in 1 .. n - 1 : q \in P(i)
    BY <1>3, <2>2 DEF TargetUntil
  <2>4. i \in 1 .. Len(TargetPlans) /\ i # n
    BY <1>0
  <2>5. q.plan = TargetPlans[i]
    BY <2>3, PlanRequirementFields
  <2> QED BY <2>1, <2>4, <2>5, PlansAreSequences DEF ArePlans
<1> QED BY <1>2, <1>3

LEMMA UntilEnds ==
    /\ OracleUntil(1) = {} /\ TargetUntil(1) = {}
    /\ OracleRequirements = Moves("oracle") \union OracleUntil(Len(OraclePlans) + 1)
    /\ TargetRequirements = Moves("target") \union TargetUntil(Len(TargetPlans) + 1)
<1>1. OracleUntil(1) = {} /\ TargetUntil(1) = {}
  BY DEF OracleUntil, TargetUntil
<1>2. OracleRequirements = Moves("oracle") \union OracleUntil(Len(OraclePlans) + 1)
  <2>1. DOMAIN OraclePlans = 1 .. (Len(OraclePlans) + 1) - 1
    BY PlansAreSequences
  <2> QED BY <2>1 DEF OracleRequirements, OracleUntil, Moves, Declared
<1>3. TargetRequirements = Moves("target") \union TargetUntil(Len(TargetPlans) + 1)
  <2>1. DOMAIN TargetPlans = 1 .. (Len(TargetPlans) + 1) - 1
    BY PlansAreSequences
  <2> QED BY <2>1 DEF TargetRequirements, TargetUntil, Moves, Declared
<1> QED BY <1>1, <1>2, <1>3
-----------------------------------------------------------------------------
(* The sets of records the steps add.                                      *)
(* F holds one record for each index, and each answers its own member of Q. *)
Indexed(F, Q, I, of, outcome, receipt, consumed) ==
    /\ \A i, j \in I : of[i] = of[j] => i = j
    /\ \A r : r \in F <=> \E i \in I : r = Record(of[i], outcome[i], receipt[i], consumed[i])
    /\ \A q : q \in Q <=> \E i \in I : q = of[i]

LEMMA IndexedAnswers ==
    ASSUME NEW I, NEW of, NEW outcome, NEW receipt, NEW consumed, NEW F, NEW Q,
           Indexed(F, Q, I, of, outcome, receipt, consumed)
    PROVE  Answers(F, Q)
<1> DEFINE R(i) == Record(of[i], outcome[i], receipt[i], consumed[i])
<1>1. \A i \in I : R(i).of = of[i] /\ R(i) = Record(R(i).of, R(i).outcome, R(i).receipt, R(i).consumed)
  BY RecordFields
<1>2. \A r : r \in F <=> \E i \in I : r = R(i)
  BY DEF Indexed
<1> HIDE DEF R
<1>3. AreRecords(F)
  BY <1>1, <1>2 DEF AreRecords
<1>4. {r.of : r \in F} = Q
  BY <1>1, <1>2 DEF Indexed
<1>5. \A r, x \in F : r.of = x.of => r = x
  BY <1>1, <1>2 DEF Indexed
<1> QED BY <1>3, <1>4, <1>5 DEF Answers

LEMMA MovesAnswered ==
    ASSUME NEW s, NEW outcome
    PROVE  Answers({Plain(MovementCase(s, m), outcome[m]) : m \in Movements}, Moves(s))
<1> DEFINE of == [m \in Movements |-> MovementCase(s, m)]
           none == [m \in Movements |-> Absent]
           F == {Plain(MovementCase(s, m), outcome[m]) : m \in Movements}
<1>1. \A m, n \in Movements : of[m] = of[n] => m = n
  BY RequirementFields DEF MovementCase
<1>2. \A r : r \in F <=> \E m \in Movements : r = Record(of[m], outcome[m], none[m], none[m])
  BY DEF Plain
<1>3. \A q : q \in Moves(s) <=> \E m \in Movements : q = of[m]
  BY DEF Moves
<1> HIDE DEF of, none, F
<1>4. Indexed(F, Moves(s), Movements, of, outcome, none, none)
  BY <1>1, <1>2, <1>3 DEF Indexed
<1> QED BY <1>4, IndexedAnswers DEF F

LEMMA BlockedAnswered ==
    ASSUME NEW Q
    PROVE  Answers({Blocked(q) : q \in Q}, Q)
<1> DEFINE of == [q \in Q |-> q]
           outcome == [q \in Q |-> IF q.class = "deferred" THEN "deferred" ELSE "blocked"]
           none == [q \in Q |-> Absent]
           F == {Blocked(q) : q \in Q}
<1>1. \A q, w \in Q : of[q] = of[w] => q = w
  OBVIOUS
<1>2. \A r : r \in F <=> \E q \in Q : r = Record(of[q], outcome[q], none[q], none[q])
  BY DEF Blocked, Plain
<1>3. \A q : q \in Q <=> \E w \in Q : q = of[w]
  OBVIOUS
<1> HIDE DEF of, outcome, none, F
<1>4. Indexed(F, Q, Q, of, outcome, none, none)
  BY <1>1, <1>2, <1>3 DEF Indexed
<1> QED BY <1>4, IndexedAnswers DEF F

(* The records of a plan's cases.                                          *)
CaseRecords(s, p, catalog, outcome, receipt, consumed) ==
    {Record(Requirement(s, p.operation, p, c[1], c[2]), outcome[c], receipt[c], consumed) : c \in catalog}

LEMMA CasesAnswered ==
    ASSUME NEW s, NEW p, NEW catalog, ~Deferred(p), \A c \in catalog : c = <<c[1], c[2]>>,
           NEW outcome, NEW receipt, NEW consumed
    PROVE  Answers(CaseRecords(s, p, catalog, outcome, receipt, consumed), PlanRequirements(s, p, catalog))
<1> DEFINE of == [c \in catalog |-> Requirement(s, p.operation, p, c[1], c[2])]
           same == [c \in catalog |-> consumed]
           F == CaseRecords(s, p, catalog, outcome, receipt, consumed)
<1>1. ASSUME NEW c \in catalog, NEW d \in catalog, of[c] = of[d] PROVE c = d
  <2>1. c[1] = d[1] /\ c[2] = d[2]
    BY <1>1, RequirementFields
  <2> QED BY <2>1
<1>2. \A r : r \in F <=> \E c \in catalog : r = Record(of[c], outcome[c], receipt[c], same[c])
  BY DEF CaseRecords
<1>3. \A q : q \in PlanRequirements(s, p, catalog) <=> \E c \in catalog : q = of[c]
  BY DEF PlanRequirements
<1> HIDE DEF of, same, F
<1>4. Indexed(F, PlanRequirements(s, p, catalog), catalog, of, outcome, receipt, same)
  BY <1>1, <1>2, <1>3 DEF Indexed
<1> QED BY <1>4, IndexedAnswers DEF F

LEMMA StampedAnswers ==
    ASSUME NEW E, NEW Q, Answers(E, Q)
    PROVE  /\ Answers(Stamped(E), Q)
           /\ \A r \in Stamped(E) : \E x \in E : r.of = x.of /\ r.outcome = x.outcome /\ r.consumed = x.consumed
           /\ \A x \in E : \E r \in Stamped(E) : r.of = x.of /\ r.outcome = x.outcome
<1> DEFINE St(r) == IF r.receipt = Absent /\ r.outcome \in Ran /\ Receipt(r.of) \in Installed
                    THEN [r EXCEPT !.receipt = Receipt(r.of)] ELSE r
<1>1. Stamped(E) = {St(r) : r \in E}
  BY DEF Stamped
<1>2. ASSUME NEW r \in E
      PROVE  /\ St(r).of = r.of /\ St(r).outcome = r.outcome /\ St(r).consumed = r.consumed
             /\ St(r) = Record(St(r).of, St(r).outcome, St(r).receipt, St(r).consumed)
  <2>1. r = Record(r.of, r.outcome, r.receipt, r.consumed)
    BY DEF Answers, AreRecords
  <2>2. [r EXCEPT !.receipt = Receipt(r.of)] = Record(r.of, r.outcome, Receipt(r.of), r.consumed)
    BY <2>1 DEF Record
  <2> QED BY <2>1, <2>2, RecordFields
<1> HIDE DEF St
<1>3. AreRecords(Stamped(E))
  BY <1>1, <1>2 DEF AreRecords
<1>4. {r.of : r \in Stamped(E)} = Q
  <2>1. ASSUME NEW r \in Stamped(E) PROVE r.of \in Q
    BY <1>1, <1>2 DEF Answers
  <2>2. ASSUME NEW q \in Q PROVE q \in {r.of : r \in Stamped(E)}
    <3>1. PICK r \in E : r.of = q
      BY DEF Answers
    <3>2. St(r) \in Stamped(E) /\ St(r).of = q
      BY <1>1, <1>2, <3>1
    <3> QED BY <3>2
  <2> QED BY <2>1, <2>2
<1>5. \A r, x \in Stamped(E) : r.of = x.of => r = x
  BY <1>1, <1>2 DEF Answers
<1> QED BY <1>1, <1>2, <1>3, <1>4, <1>5 DEF Answers
-----------------------------------------------------------------------------
(* A step that adds records to the evidence and moves on.                  *)
LEMMA Grown ==
    ASSUME Staged, NEW F, NEW P, evidence' = evidence \union F, certificates' = certificates,
           Answers(F, P), Required \cap P = {}, Required' = Required \union P,
           \A r \in F : Allowed(r, evidence), Progress',
           phase' \in {"target moves", "target"} => phase \in {"target moves", "target"}
    PROVE  Staged'
<1>1. Answers(evidence', Required')
  BY AnswersAdded DEF Staged
<1>2. ASSUME NEW r, Allowed(r, evidence) PROVE Allowed(r, evidence)'
  BY <1>2 DEF Allowed, Complete
<1>3. \A r \in evidence' : Allowed(r, evidence)'
  BY <1>2 DEF Staged
<1>4. Trusted'
  BY DEF Staged, Trusted, Complete
<1> QED BY <1>1, <1>3, <1>4 DEF Staged

(* A step that only moves on.                                              *)
LEMMA Moved ==
    ASSUME Staged, UNCHANGED <<evidence, certificates>>, Required' = Required, Progress', Trusted'
    PROVE  Staged'
<1>1. \A r \in evidence' : Allowed(r, evidence)'
  BY DEF Staged, Allowed, Complete
<1>2. Answers(evidence', Required')
  BY DEF Staged
<1> QED BY <1>1, <1>2 DEF Staged

LEMMA OracleMovesStaged == Staged /\ OracleMoves => Staged'
<1> SUFFICES ASSUME Staged, OracleMoves PROVE Staged'
  OBVIOUS
<1>1. PICK outcome \in [Movements -> Ran] :
         evidence' = evidence \union {Plain(MovementCase("oracle", m), outcome[m]) : m \in Movements}
  BY DEF OracleMoves, Add
<1> DEFINE F == {Plain(MovementCase("oracle", m), outcome[m]) : m \in Movements}
<1>2. Answers(F, Moves("oracle"))
  BY MovesAnswered
<1>3. Required = {} /\ Required' = Moves("oracle") \union OracleUntil(1)
  BY DEF OracleMoves, Required, Staged, Progress, OracleUntil
<1>4. \A r \in F : Allowed(r, evidence)
  BY RecordFields, RequirementFields DEF Allowed, Plain, MovementCase
<1>5. Progress'
  <2>1. phase' = "oracle" /\ at' = 1 /\ Len(OraclePlans) \in Nat
    BY PlansAreSequences DEF OracleMoves, Staged, Progress
  <2> QED BY <2>1 DEF Progress
<1> HIDE DEF F
<1> QED BY <1>1, <1>2, <1>3, <1>4, <1>5, UntilEnds, Grown DEF OracleMoves, F

LEMMA OraclePlanStaged == Staged /\ OraclePlan => Staged'
<1> SUFFICES ASSUME Staged, OraclePlan PROVE Staged'
  OBVIOUS
<1> DEFINE p == OraclePlans[at]
           P == PlanRequirements("oracle", p, Catalog(p))
<1>1. PICK F : evidence' = evidence \union F /\ Answers(F, P) /\ \A r \in F : r.of.stage = "oracle"
  <2>1. CASE Deferred(p)
    <3>1. evidence' = evidence \union {Plain(DeferredCase("oracle", p), "deferred")}
      BY <2>1 DEF OraclePlan, Add
    <3>2. Answers({Plain(DeferredCase("oracle", p), "deferred")}, P)
      BY <2>1, RecordFields DEF Answers, AreRecords, Plain, PlanRequirements
    <3>3. Plain(DeferredCase("oracle", p), "deferred").of.stage = "oracle"
      BY RecordFields, RequirementFields DEF Plain, DeferredCase
    <3> QED BY <3>1, <3>2, <3>3
  <2>2. CASE ~Deferred(p)
    <3>1. PICK outcome \in [Catalog(p) -> Ran] :
             evidence' = evidence \union {Plain(Requirement("oracle", p.operation, p, c[1], c[2]), outcome[c]) : c \in Catalog(p)}
      BY <2>2 DEF OraclePlan, Add
    <3> DEFINE F == {Plain(Requirement("oracle", p.operation, p, c[1], c[2]), outcome[c]) : c \in Catalog(p)}
    <3>0. PICK none : none = [c \in Catalog(p) |-> Absent]
      OBVIOUS
    <3>2. F = CaseRecords("oracle", p, Catalog(p), outcome, none, Absent)
      BY <3>0 DEF Plain, CaseRecords
    <3>3. Answers(F, P)
      <4>1. \A c \in Catalog(p) : c = <<c[1], c[2]>>
        BY CasesArePairs
      <4> HIDE DEF F, p
      <4> QED BY <2>2, <3>2, <4>1, CasesAnswered
    <3>4. \A r \in F : r.of.stage = "oracle"
      BY RecordFields, RequirementFields DEF Plain
    <3> HIDE DEF F
    <3> QED BY <3>1, <3>2, <3>3, <3>4 DEF F
  <2> QED BY <2>1, <2>2
<1>2. at \in 1 .. Len(OraclePlans) /\ Len(OraclePlans) \in Nat /\ at' = at + 1 /\ phase = "oracle" /\ phase' = "oracle"
  BY PlansAreSequences DEF OraclePlan, Staged, Progress
<1>3. Required = Moves("oracle") \union OracleUntil(at) /\ Required' = Moves("oracle") \union OracleUntil(at + 1)
  BY <1>2 DEF Required, OracleUntil
<1>4. Required \cap P = {} /\ Required' = Required \union P
  BY <1>2, <1>3, OracleNext
<1>5. \A r \in F : Allowed(r, evidence)
  BY <1>1 DEF Allowed
<1>6. Progress'
  BY <1>2 DEF Progress
<1> HIDE DEF P
<1> QED BY <1>1, <1>2, <1>4, <1>5, <1>6, Grown DEF OraclePlan

LEMMA StampedAllowed ==
    ASSUME Staged, evidence' = Stamped(evidence)
    PROVE  /\ \A k : Complete(k, evidence) => Complete(k, evidence')
           /\ certificates' = certificates => \A r \in evidence' : Allowed(r, evidence)'
<1>1. Answers(evidence, Required)
  BY DEF Staged
<1>2. ASSUME NEW k, Complete(k, evidence) PROVE Complete(k, evidence')
  <2>1. ASSUME NEW q, NEW x \in evidence, x.of = q, x.outcome = "passed"
        PROVE  \E r \in evidence' : r.of = q /\ r.outcome = "passed"
    <3>1. PICK r \in Stamped(evidence) : r.of = x.of /\ r.outcome = x.outcome
      BY <1>1, StampedAnswers
    <3> QED BY <2>1, <3>1
  <2> QED BY <1>2, <2>1 DEF Complete
<1>3. ASSUME certificates' = certificates, NEW r \in evidence' PROVE Allowed(r, evidence)'
  <2>1. PICK x \in evidence : r.of = x.of /\ r.outcome = x.outcome /\ r.consumed = x.consumed
    BY <1>1, StampedAnswers
  <2>2. Allowed(x, evidence)
    BY DEF Staged
  <2> QED BY <1>2, <1>3, <2>1, <2>2 DEF Allowed
<1> QED BY <1>2, <1>3

LEMMA CertifyStaged == Staged /\ Certify => Staged'
<1> SUFFICES ASSUME Staged, Certify PROVE Staged'
  OBVIOUS
<1>1. at = Len(OraclePlans) + 1 /\ phase = "oracle" /\ phase' = "authorize" /\ at' = 1
  BY PlansAreSequences DEF Certify, Staged, Progress
<1>2. Required = OracleRequirements /\ Required' = OracleRequirements
  BY <1>1, UntilEnds DEF Required, OracleRequirements
<1>3. Answers(evidence', Required')
  BY <1>2, StampedAnswers DEF Certify, Staged
<1>4. \A r \in evidence' : r.of.stage = "oracle"
  BY <1>2, <1>3, StageOne DEF Answers
<1>5. \A r \in evidence' : Allowed(r, evidence)'
  BY <1>4 DEF Allowed
<1>6. Progress' /\ Trusted'
  BY <1>1 DEF Progress, Trusted
<1> QED BY <1>3, <1>5, <1>6 DEF Staged

(* Stage two finds that what the certificates need has passed.             *)
LEMMA AcceptedIsComplete ==
    ASSUME OracleAccepted, NEW cert \in certificates
    PROVE  Complete(cert.kernel, evidence)
<1>1. PICK k \in Certifiable :
         /\ cert = Certificate(k, RequiredClasses(k), OracleRecords(k, Oracle))
         /\ \A r \in OracleRecords(k, Oracle) : <<r.of.plan, r.of.class, r.of.label>> \in RequiredCases(k) => r.outcome = "passed"
  BY DEF OracleAccepted
<1>2. cert.kernel = k
  BY <1>1 DEF Certificate
<1>3. ASSUME NEW p \in Active(k), NEW c \in Catalog(p)
      PROVE  \E x \in evidence : x.of = Requirement("oracle", p.operation, p, c[1], c[2]) /\ x.outcome = "passed"
  <2> DEFINE q == Requirement("oracle", p.operation, p, c[1], c[2])
  <2>1. p \in Declared(OraclePlans) /\ p.operation = k /\ ~Deferred(p)
    BY DEF Active
  <2>2. q \in PlanRequirements("oracle", p, Catalog(p))
    BY <2>1 DEF PlanRequirements
  <2>3. q \in OracleRequirements
    BY <2>1, <2>2 DEF OracleRequirements
  <2>4. PICK x \in Oracle : x.of = q
    BY <2>3 DEF OracleAccepted
  <2>5. q.stage = "oracle" /\ q.kernel = k /\ q.plan = p /\ q.class = c[1] /\ q.label = c[2]
    BY <2>1, RequirementFields
  <2>6. x \in OracleRecords(k, Oracle)
    BY <2>4, <2>5 DEF OracleRecords
  <2>7. <<p, c[1], c[2]>> \in RequiredCases(k)
    BY DEF RequiredCases
  <2> QED BY <1>1, <2>4, <2>5, <2>6, <2>7 DEF Oracle
<1> QED BY <1>2, <1>3 DEF Complete

LEMMA AuthorizeStaged == Staged /\ Authorize => Staged'
<1> SUFFICES ASSUME Staged, Authorize PROVE Staged'
  OBVIOUS
<1>1. Trusted'
  BY AcceptedIsComplete DEF Authorize, Trusted, Complete
<1>2. Required' = Required
  BY DEF Authorize, Required
<1>3. Progress'
  BY DEF Authorize, Staged, Progress
<1> QED BY <1>1, <1>2, <1>3, Moved DEF Authorize

LEMMA BlockedAllowed ==
    ASSUME NEW q PROVE Allowed(Blocked(q), evidence)
<1>1. Blocked(q).outcome \in {"blocked", "deferred"}
  BY RecordFields DEF Blocked, Plain
<1> QED BY <1>1 DEF Allowed, Ran

LEMMA BlockTargetStaged == Staged /\ BlockTarget => Staged'
<1> SUFFICES ASSUME Staged, BlockTarget PROVE Staged'
  OBVIOUS
<1> DEFINE F == {Blocked(q) : q \in TargetRequirements}
<1>1. evidence' = evidence \union F /\ certificates' = certificates /\ phase' = "report" /\ phase = "authorize"
  BY DEF BlockTarget, Add
<1>2. Answers(F, TargetRequirements)
  BY BlockedAnswered
<1>3. Required = OracleRequirements /\ Required' = OracleRequirements \union TargetRequirements
  BY <1>1 DEF Required, BlockTarget, OracleRequirements, TargetRequirements, TargetPlans
<1>4. OracleRequirements \cap TargetRequirements = {}
  BY StageOne, StageTwo
<1>5. \A r \in F : Allowed(r, evidence)
  BY BlockedAllowed
<1>6. Progress'
  BY DEF BlockTarget, Staged, Progress
<1> HIDE DEF F
<1> QED BY <1>1, <1>2, <1>3, <1>4, <1>5, <1>6, Grown

LEMMA TargetMovesStaged == Staged /\ TargetMoves => Staged'
<1> SUFFICES ASSUME Staged, TargetMoves PROVE Staged'
  OBVIOUS
<1>1. PICK outcome \in [Movements -> Ran] :
         evidence' = evidence \union {Plain(MovementCase("target", m), outcome[m]) : m \in Movements}
  BY DEF TargetMoves, Add
<1> DEFINE F == {Plain(MovementCase("target", m), outcome[m]) : m \in Movements}
<1>2. Answers(F, Moves("target"))
  BY MovesAnswered
<1>3. at = 1 /\ at' = 1 /\ phase = "target moves" /\ phase' = "target" /\ certificates' = certificates /\ provider' = provider
  BY DEF TargetMoves, Staged, Progress
<1>4. Required = OracleRequirements /\ Required' = OracleRequirements \union Moves("target")
  <2>1. TargetUntil(1)' = {}
    BY DEF TargetUntil
  <2> QED BY <1>3, <2>1 DEF Required, OracleRequirements, Moves, TargetUntil
<1>5. OracleRequirements \cap Moves("target") = {}
  BY StageOne, MoveFields
<1>6. \A r \in F : Allowed(r, evidence)
  BY RecordFields, RequirementFields DEF Allowed, Plain, MovementCase
<1>7. Progress'
  <2>1. Len(OraclePlans) \in Nat /\ Len(TargetPlans)' \in Nat
    BY <1>3, PlansAreSequences DEF TargetPlans
  <2>5. at' = 1
    BY <1>3
  <2>2. at' \in Nat /\ at' >= 1 /\ at' <= Len(TargetPlans)' + 1
    BY <2>1, <2>5
  <2>3. phase' # "oracle" /\ phase' \notin {"oracle moves", "authorize", "target moves"}
    BY <1>3
  <2>4. phase' \in {"oracle moves", "oracle", "authorize", "target moves", "target", "report", "reported", "refused"}
    BY <1>3
  <2> QED BY <2>2, <2>3, <2>4 DEF Progress
<1> HIDE DEF F
<1> QED BY <1>1, <1>2, <1>3, <1>4, <1>5, <1>6, <1>7, Grown DEF F

(* A step of stage two that answers what the plan it is at requires.       *)
LEMMA TargetGrown ==
    ASSUME Staged, AtTarget, TargetDone, NEW F, evidence' = evidence \union F,
           Answers(F, Tried), \A r \in F : Allowed(r, evidence)
    PROVE  Staged'
<1>1. at \in 1 .. Len(TargetPlans) /\ Len(TargetPlans) \in Nat /\ at' = at + 1 /\ phase = "target" /\ phase' = "target"
  BY PlansAreSequences DEF AtTarget, TargetDone, Staged, Progress
<1>2. /\ Required = OracleRequirements \union Moves("target") \union TargetUntil(at)
      /\ Required' = OracleRequirements \union Moves("target") \union TargetUntil(at + 1)
  BY <1>1 DEF Required, TargetDone, TargetUntil, TargetPlans, OracleRequirements, Moves
<1>3. Required \cap Tried = {} /\ Required' = Required \union Tried
  BY <1>1, <1>2, TargetNext DEF Tried
<1>4. Progress'
  BY <1>1 DEF Progress, TargetDone, TargetPlans
<1> QED BY <1>1, <1>3, <1>4, Grown DEF TargetDone

LEMMA AuthorityIsComplete ==
    ASSUME Staged, AtTarget, NEW k, NEW cert \in Authority(k)
    PROVE  cert \in certificates /\ cert.kernel = k /\ Complete(k, evidence)
  BY DEF Staged, Trusted, AtTarget, Authority

LEMMA TargetWithheldStaged == Staged /\ TargetWithheld => Staged'
<1> SUFFICES ASSUME Staged, TargetWithheld PROVE Staged'
  OBVIOUS
<1> DEFINE F == {Blocked(q) : q \in Tried}
<1>1. Answers(F, Tried)
  BY BlockedAnswered
<1>2. \A r \in F : Allowed(r, evidence)
  BY BlockedAllowed
<1>3. AtTarget /\ TargetDone /\ evidence' = evidence \union F
  BY DEF TargetWithheld, Add
<1> HIDE DEF F
<1> QED BY <1>1, <1>2, <1>3, TargetGrown

LEMMA RanStaged ==
    ASSUME Staged, AtTarget, TargetDone, NEW p, p = TargetPlans[at], ~Deferred(p),
           NEW cert \in Authority(p.operation), NEW outcome, NEW receipt,
           evidence' = evidence \union Results(p, cert, outcome, receipt)
    PROVE  Staged'
<1> DEFINE F == Results(p, cert, outcome, receipt)
<1>1. Answers(F, Tried)
  <2>1. \A c \in TargetCatalog(p) : c = <<c[1], c[2]>>
    BY CasesArePairs
  <2>2. F = CaseRecords("target", p, TargetCatalog(p), outcome, receipt, cert)
    BY DEF Results, CaseRecords
  <2> HIDE DEF F
  <2>3. Answers(F, PlanRequirements("target", p, TargetCatalog(p)))
    BY <2>1, <2>2, CasesAnswered
  <2> QED BY <2>3 DEF Tried
<1>2. \A r \in F : Allowed(r, evidence)
  BY AuthorityIsComplete, RecordFields, RequirementFields DEF Allowed, Results
<1> HIDE DEF F
<1> QED BY <1>1, <1>2, TargetGrown DEF F

LEMMA CompiledTargetRunsStaged == Staged /\ CompiledTargetRuns => Staged'
  BY RanStaged DEF CompiledTargetRuns, Add

LEMMA JitTargetRunsStaged == Staged /\ JitTargetRuns => Staged'
  BY RanStaged DEF JitTargetRuns, Add

LEMMA TargetFailsStaged == Staged /\ TargetFails => Staged'
<1> SUFFICES ASSUME Staged, TargetFails PROVE Staged'
  OBVIOUS
<1>1. PICK cert \in Authority(TargetPlans[at].operation) :
         evidence' = evidence \union {Record(q, "error", Absent, cert) : q \in Tried}
  BY DEF TargetFails, Add
<1> DEFINE F == {Record(q, "error", Absent, cert) : q \in Tried}
<1>2. Answers(F, Tried)
  <2> DEFINE of == [q \in Tried |-> q]
             error == [q \in Tried |-> "error"]
             none == [q \in Tried |-> Absent]
             same == [q \in Tried |-> cert]
  <2>1. \A r : r \in F <=> \E q \in Tried : r = Record(of[q], error[q], none[q], same[q])
    OBVIOUS
  <2>2. \A q, w \in Tried : of[q] = of[w] => q = w
    OBVIOUS
  <2>3. \A q : q \in Tried <=> \E w \in Tried : q = of[w]
    OBVIOUS
  <2> HIDE DEF F, of, error, none, same
  <2>4. Indexed(F, Tried, Tried, of, error, none, same)
    BY <2>1, <2>2, <2>3 DEF Indexed
  <2> QED BY <2>4, IndexedAnswers
<1>3. \A r \in F : Allowed(r, evidence)
  BY AuthorityIsComplete, RecordFields, PlanRequirementFields DEF Allowed, TargetFails, Tried
<1> HIDE DEF F
<1> QED BY <1>1, <1>2, <1>3, TargetGrown DEF F, TargetFails

LEMMA TargetEndsStaged == Staged /\ TargetEnds => Staged'
<1> SUFFICES ASSUME Staged, TargetEnds PROVE Staged'
  OBVIOUS
<1>1. at = Len(TargetPlans) + 1 /\ phase = "target" /\ phase' = "report" /\ provider' = provider
  BY PlansAreSequences DEF TargetEnds, Staged, Progress
<1>2. Required' = Required
  BY <1>1, UntilEnds DEF Required, OracleRequirements, TargetRequirements, TargetPlans
<1>3. Progress' /\ Trusted'
  BY <1>1 DEF Progress, Trusted, TargetEnds, Staged
<1> QED BY <1>2, <1>3, Moved DEF TargetEnds

LEMMA MakeReportStaged == Staged /\ MakeReport => Staged'
<1> SUFFICES ASSUME Staged, MakeReport PROVE Staged'
  OBVIOUS
<1>1. phase = "report" /\ phase' \in {"reported", "refused"} /\ UNCHANGED <<provider, at, certificates>>
  BY DEF MakeReport
<1>2. Required' = Required
  BY <1>1 DEF Required, OracleRequirements, TargetRequirements, TargetPlans
<1>3. Answers(evidence', Required')
  BY <1>2, StampedAnswers DEF MakeReport, Staged
<1>4. \A r \in evidence' : Allowed(r, evidence)'
  BY <1>1, StampedAllowed DEF MakeReport
<1>5. Progress' /\ Trusted'
  BY <1>1 DEF Progress, Trusted, Staged
<1> QED BY <1>3, <1>4, <1>5 DEF Staged

LEMMA StagedInvariant == StagesSpec => []Staged
<1>1. StagesInit => Staged
  <2> SUFFICES ASSUME StagesInit PROVE Staged
    OBVIOUS
  <2>1. phase = "oracle moves"
    BY DEF StagesInit
  <2>7. at = 1
    BY DEF StagesInit
  <2>4. at \in Nat /\ at >= 1
    BY <2>7
  <2>5. /\ phase \in {"oracle moves", "oracle", "authorize", "target moves", "target", "report", "reported", "refused"}
        /\ phase # "oracle" /\ phase # "target" /\ phase \notin {"target moves", "target"}
    BY <2>1
  <2>6. Progress /\ Trusted
    BY <2>1, <2>4, <2>5, <2>7 DEF Progress, Trusted
  <2>2. Required = {} /\ evidence = {}
    BY DEF StagesInit, Required
  <2>3. Answers({}, {})
    BY DEF Answers, AreRecords
  <2> QED BY <2>2, <2>3, <2>6 DEF Staged
<1>2. Staged /\ [StagesNext]_stagesVars => Staged'
  <2>1. ASSUME Staged, UNCHANGED stagesVars PROVE Staged'
    <3>1. Required' = Required /\ Progress' /\ Trusted'
      BY <2>1 DEF stagesVars, Staged, Required, Progress, Trusted, OracleUntil, TargetUntil, TargetPlans,
                  OracleRequirements, TargetRequirements, Moves, Complete
    <3> QED BY <2>1, <3>1, Moved DEF stagesVars
  <2> QED
    BY <2>1, OracleMovesStaged, OraclePlanStaged, CertifyStaged, AuthorizeStaged, BlockTargetStaged, TargetMovesStaged,
       TargetWithheldStaged, CompiledTargetRunsStaged, JitTargetRunsStaged, TargetFailsStaged, TargetEndsStaged,
       MakeReportStaged DEF StagesNext
<1> QED BY <1>1, <1>2, PTL DEF StagesSpec

(* For any plans, movements and witnesses, and whatever fails: what has    *)
(* run at the target was authorized by a certificate of its kernel, all of *)
(* whose cases the oracle has passed.                                      *)
THEOREM RunsStayAuthorized == StagesSpec => []RunsAuthorized
<1>1. Staged => RunsAuthorized
  BY DEF Staged, Allowed, Complete, RunsAuthorized
<1> QED BY <1>1, StagedInvariant, PTL

(* A report answers every requirement of both stages once.                 *)
THEOREM EveryCaseIsAnswered == StagesSpec => []EveryCaseAnswered
<1>1. Staged => EveryCaseAnswered
  BY DEF Staged, Answers, Required, EveryCaseAnswered
<1> QED BY <1>1, StagedInvariant, PTL
-----------------------------------------------------------------------------
(* What a record says of itself, of the receipts and of the certificates.  *)
Fitting(r) ==
    /\ r.outcome \in Ran \union {"blocked", "deferred"} /\ (r.of.class = "deferred" <=> r.outcome = "deferred")
    /\ r.of.stage = "oracle" => r.consumed = Absent /\ r.outcome # "blocked"
    /\ r.outcome \in {"blocked", "deferred"} => r.receipt = Absent /\ r.consumed = Absent
    /\ r.receipt # Absent => r.receipt = Receipt(r.of) /\ r.of.kernel \notin Movements
    /\ r.consumed # Absent => /\ r.of.stage = "target" /\ r.of.kernel \notin Movements
                              /\ r.consumed \in certificates /\ r.consumed.kernel = r.of.kernel
                              /\ \E p \in Active(r.of.kernel) : r.of.class \in Classes(p)
    /\ r.of.stage = "target" /\ r.outcome \in Ran /\ r.of.kernel \notin Movements => r.consumed # Absent
    /\ r.outcome \in {"passed", "failed"} /\ r.of.kernel \notin Movements =>
          r.receipt # Absent \/ Receipt(r.of) \in Installed

(* Every computation that has run has the receipt of its kernel.           *)
BoundTo(E) == \A r \in E : r.outcome \in {"passed", "failed"} /\ r.of.kernel \notin Movements => r.receipt # Absent

(* The certificates are those that the records of the oracle give again.   *)
Passes(k, E) == \A r \in OracleRecords(k, E) : <<r.of.plan, r.of.class, r.of.label>> \in RequiredCases(k) => r.outcome = "passed"
RestoredFrom(E) == {Certificate(k, RequiredClasses(k), OracleRecords(k, E)) : k \in {j \in Certifiable : Passes(j, E)}}
Restored(E) == certificates = RestoredFrom(E)

Vouched ==
    /\ \A r \in evidence : Fitting(r)
    /\ phase \in {"oracle moves", "oracle"} => certificates = {}
    /\ phase \notin {"oracle moves", "oracle"} => Restored(evidence)
    /\ phase \in {"authorize", "reported"} => BoundTo(evidence)
    /\ phase # "refused"
-----------------------------------------------------------------------------
(* What a plan must show.                                                  *)
CaseClasses == {"exact_arithmetic", "structural", "analytic", "numerical"}

LEMMA PlansOfAKind ==
    \A p \in Declared(OraclePlans) \union Declared(TargetPlans) :
        /\ \/ p.operation \in ExactOperations \/ p.operation \in StructuralOperations
           \/ p.operation \in TranscendentalOperations \/ p.operation \in CertifiedSums \/ p.operation = "pow"
        /\ p.operation \in Operations(OraclePlans) \union Operations(JitPlans)
        /\ p.operation \notin Movements
<1> SUFFICES ASSUME NEW p \in Declared(OraclePlans) \union Declared(TargetPlans)
             PROVE /\ \/ p.operation \in ExactOperations \/ p.operation \in StructuralOperations
                      \/ p.operation \in TranscendentalOperations \/ p.operation \in CertifiedSums \/ p.operation = "pow"
                   /\ p.operation \in Operations(OraclePlans) \union Operations(JitPlans)
                   /\ p.operation \notin Movements
  OBVIOUS
<1>1. p.operation \in Operations(OraclePlans) \union Operations(JitPlans)
  BY DEF Declared, Operations, TargetPlans
<1>2. PICK i \in 1 .. 5 : p.operation \in Kinds[i]
  BY <1>1, ClassesAssumption
<1>3. \/ p.operation \in ExactOperations \/ p.operation \in StructuralOperations
      \/ p.operation \in TranscendentalOperations \/ p.operation \in CertifiedSums \/ p.operation \in {"pow"}
  <2>1. i = 1 \/ i = 2 \/ i = 3 \/ i = 4 \/ i = 5
    OBVIOUS
  <2>. QED
    BY <1>2, <2>1 DEF Kinds
<1>4. p.operation \notin Movements
  BY PlansAreSequences DEF ArePlans, Declared
<1>. QED
  BY <1>1, <1>3, <1>4

LEMMA KindsApart ==
    /\ ExactOperations \cap StructuralOperations = {} /\ ExactOperations \cap TranscendentalOperations = {}
    /\ ExactOperations \cap CertifiedSums = {} /\ "pow" \notin ExactOperations
    /\ StructuralOperations \cap TranscendentalOperations = {} /\ StructuralOperations \cap CertifiedSums = {}
    /\ "pow" \notin StructuralOperations
    /\ TranscendentalOperations \cap CertifiedSums = {} /\ "pow" \notin TranscendentalOperations
    /\ "pow" \notin CertifiedSums
<1>1. /\ Kinds[1] \cap Kinds[2] = {} /\ Kinds[1] \cap Kinds[3] = {} /\ Kinds[1] \cap Kinds[4] = {} /\ Kinds[1] \cap Kinds[5] = {}
      /\ Kinds[2] \cap Kinds[3] = {} /\ Kinds[2] \cap Kinds[4] = {} /\ Kinds[2] \cap Kinds[5] = {}
      /\ Kinds[3] \cap Kinds[4] = {} /\ Kinds[3] \cap Kinds[5] = {} /\ Kinds[4] \cap Kinds[5] = {}
  BY ClassesAssumption
<1>2. /\ Kinds[1] = ExactOperations /\ Kinds[2] = StructuralOperations /\ Kinds[3] = TranscendentalOperations
      /\ Kinds[4] = CertifiedSums /\ Kinds[5] = {"pow"}
  BY DEF Kinds
<1>. QED
  BY <1>1, <1>2

LEMMA ClassesAre ==
    ASSUME NEW p \in Declared(OraclePlans) \union Declared(TargetPlans)
    PROVE  /\ p.operation \in ExactOperations => Classes(p) = {"exact_arithmetic"}
           /\ p.operation \in StructuralOperations => Classes(p) = {"structural"}
           /\ p.operation \in CertifiedSums => Classes(p) = {"structural", "analytic", "numerical"}
           /\ p.operation = "pow" => Classes(p) = IF p.compute = "BINARY32" THEN {} ELSE {"exact_arithmetic"}
           /\ p.operation \in TranscendentalOperations => Classes(p) = {}
<1>1. CASE p.operation \in ExactOperations
  <2>1. /\ p.operation \notin StructuralOperations /\ p.operation \notin CertifiedSums
        /\ p.operation \notin TranscendentalOperations /\ p.operation # "pow"
    BY <1>1, KindsApart
  <2>2. Classes(p) = {"exact_arithmetic"}
    BY <1>1, <2>1 DEF Classes
  <2>. QED
    BY <2>1, <2>2
<1>2. CASE p.operation \in StructuralOperations
  <2>1. /\ p.operation \notin ExactOperations /\ p.operation \notin CertifiedSums
        /\ p.operation \notin TranscendentalOperations /\ p.operation # "pow"
    BY <1>2, KindsApart
  <2>2. Classes(p) = {"structural"}
    BY <1>2, <2>1 DEF Classes
  <2>. QED
    BY <2>1, <2>2
<1>3. CASE p.operation \in CertifiedSums
  <2>1. /\ p.operation \notin ExactOperations /\ p.operation \notin StructuralOperations
        /\ p.operation \notin TranscendentalOperations /\ p.operation # "pow"
    BY <1>3, KindsApart
  <2>2. Classes(p) = {"structural", "analytic", "numerical"}
    BY <1>3, <2>1 DEF Classes
  <2>. QED
    BY <2>1, <2>2
<1>4. CASE p.operation = "pow"
  <2>1. /\ p.operation \notin ExactOperations /\ p.operation \notin StructuralOperations
        /\ p.operation \notin TranscendentalOperations /\ p.operation \notin CertifiedSums
    BY <1>4, KindsApart
  <2>2. Classes(p) = IF p.compute = "BINARY32" THEN {} ELSE {"exact_arithmetic"}
    <3>1. CASE p.compute = "BINARY32"
      BY <1>4, <2>1, <3>1 DEF Classes
    <3>2. CASE p.compute # "BINARY32"
      BY <1>4, <2>1, <3>2 DEF Classes
    <3>. QED
      BY <3>1, <3>2
  <2>. QED
    BY <2>1, <2>2
<1>5. CASE p.operation \in TranscendentalOperations
  <2>1. /\ p.operation \notin ExactOperations /\ p.operation \notin StructuralOperations
        /\ p.operation # "pow" /\ p.operation \notin CertifiedSums
    BY <1>5, KindsApart
  <2>2. Classes(p) = {}
    BY <1>5, <2>1 DEF Classes
  <2>. QED
    BY <2>1, <2>2
<1>. QED
  BY <1>1, <1>2, <1>3, <1>4, <1>5, PlansOfAKind

LEMMA SameClasses ==
    ASSUME NEW p \in Declared(OraclePlans) \union Declared(TargetPlans),
           NEW q \in Declared(OraclePlans) \union Declared(TargetPlans),
           p.operation = q.operation, ~Deferred(p), ~Deferred(q)
    PROVE  Classes(p) = Classes(q)
  BY ClassesAre, PlansOfAKind DEF Deferred

LEMMA ClassesKnown ==
    ASSUME NEW p \in Declared(OraclePlans) \union Declared(TargetPlans)
    PROVE  Classes(p) \subseteq CaseClasses /\ "deferred" \notin Classes(p)
<1>1. Classes(p) \subseteq CaseClasses
  BY ClassesAre, PlansOfAKind DEF CaseClasses
<1>. QED
  BY <1>1 DEF CaseClasses

LEMMA CatalogClasses ==
    ASSUME NEW p \in Declared(OraclePlans) \union Declared(TargetPlans)
    PROVE  /\ \A c \in Catalog(p) : c[1] \in Classes(p)
           /\ \A class \in Classes(p) : \E c \in Catalog(p) : c[1] = class
           /\ \A c \in TargetCatalog(p) : c[1] \in Classes(p)
<1>1. \A c \in Catalog(p) : c[1] \in Classes(p)
  BY DEF Catalog
<1>2. ASSUME NEW class \in Classes(p) PROVE \E c \in Catalog(p) : c[1] = class
  <2>0. PICK w : w \in Witnesses
    BY StagesAssumption
  <2>1. class \in CaseClasses
    BY ClassesKnown
  <2>2. CASE class = "exact_arithmetic"
    <3>1. <<class, "exact">> \in ExactCases
      BY <2>2 DEF ExactCases, Case
    <3>2. <<class, "exact">> \in Catalog(p)
      BY <3>1 DEF Catalog
    <3>. QED
      BY <3>2
  <2>3. CASE class = "structural"
    <3>1. <<class, "structural">> \in StructuralCases
      BY <2>3 DEF StructuralCases, Case
    <3>2. <<class, "structural">> \in Catalog(p)
      BY <3>1 DEF Catalog
    <3>. QED
      BY <3>2
  <2>4. CASE class = "analytic"
    <3>1. <<class, w>> \in AnalyticCases
      BY <2>0, <2>4 DEF AnalyticCases, Case
    <3>2. <<class, w>> \in Catalog(p)
      BY <3>1 DEF Catalog
    <3>. QED
      BY <3>2
  <2>5. CASE class = "numerical"
    <3>1. <<class, "numerical">> \in NumericalCases
      BY <2>5 DEF NumericalCases, Case
    <3>2. <<class, "numerical">> \in Catalog(p)
      BY <3>1 DEF Catalog
    <3>. QED
      BY <3>2
  <2>. QED
    BY <2>1, <2>2, <2>3, <2>4, <2>5 DEF CaseClasses
<1>3. ASSUME NEW c \in TargetCatalog(p) PROVE c[1] \in Classes(p)
  <2>1. CASE p.operation \in CertifiedSums
    <3>1. Classes(p) = {"structural", "analytic", "numerical"}
      BY <2>1, ClassesAre
    <3>2. c[1] \in {"structural", "analytic", "numerical"}
      BY <1>3, <2>1 DEF TargetCatalog, Case, AnalyticCases
    <3>. QED
      BY <3>1, <3>2
  <2>2. CASE p.operation \notin CertifiedSums
    BY <1>1, <1>3, <2>2 DEF TargetCatalog
  <2>. QED
    BY <2>1, <2>2
<1>. QED
  BY <1>1, <1>2, <1>3

(* A case of the oracle, by its kernel.                                    *)
LEMMA OracleRequirementIs ==
    ASSUME NEW q \in OracleRequirements, q.kernel \notin Movements
    PROVE  \/ \E p \in Declared(OraclePlans) : Deferred(p) /\ p.operation = q.kernel /\ q = DeferredCase("oracle", p)
           \/ \E p \in Active(q.kernel) : \E c \in Catalog(p) :
                 q = Requirement("oracle", p.operation, p, c[1], c[2])
<1>1. q \notin Moves("oracle")
  BY MoveFields
<1>2. PICK p \in Declared(OraclePlans) : q \in PlanRequirements("oracle", p, Catalog(p))
  BY <1>1 DEF OracleRequirements, Moves
<1>3. q.kernel = p.operation
  BY <1>2, PlanRequirementFields
<1>4. CASE Deferred(p)
  BY <1>2, <1>3, <1>4 DEF PlanRequirements
<1>5. CASE ~Deferred(p)
  <2>1. PICK c \in Catalog(p) : q = Requirement("oracle", p.operation, p, c[1], c[2])
    BY <1>2, <1>5 DEF PlanRequirements
  <2>2. p \in Active(q.kernel)
    BY <1>3, <1>5 DEF Active
  <2>. QED
    BY <2>1, <2>2
<1>. QED
  BY <1>4, <1>5

LEMMA OracleRequires ==
    ASSUME NEW k
    PROVE  /\ \A p \in Active(k) : \A c \in Catalog(p) : Requirement("oracle", p.operation, p, c[1], c[2]) \in OracleRequirements
           /\ \A p \in Declared(OraclePlans) : Deferred(p) => DeferredCase("oracle", p) \in OracleRequirements
<1>1. ASSUME NEW p \in Active(k), NEW c \in Catalog(p)
      PROVE  Requirement("oracle", p.operation, p, c[1], c[2]) \in OracleRequirements
  <2>1. p \in Declared(OraclePlans) /\ ~Deferred(p)
    BY DEF Active
  <2>2. Requirement("oracle", p.operation, p, c[1], c[2]) \in PlanRequirements("oracle", p, Catalog(p))
    BY <2>1 DEF PlanRequirements
  <2>. QED
    BY <2>1, <2>2 DEF OracleRequirements
<1>2. ASSUME NEW p \in Declared(OraclePlans), Deferred(p) PROVE DeferredCase("oracle", p) \in OracleRequirements
  <2>1. DeferredCase("oracle", p) \in PlanRequirements("oracle", p, Catalog(p))
    BY <1>2 DEF PlanRequirements
  <2>. QED
    BY <2>1 DEF OracleRequirements
<1>. QED
  BY <1>1, <1>2
-----------------------------------------------------------------------------
(* Evidence in which every record fits, made of answers to all the oracle  *)
(* is asked and to some of what the target is, with the certificates that  *)
(* its oracle records give.                                                *)
Sound(E) ==
    /\ \E Q : Answers(E, Q) /\ OracleRequirements \subseteq Q /\ Q \subseteq OracleRequirements \union TargetRequirements
    /\ \A r \in E : Fitting(r)
    /\ Restored(E) /\ BoundTo(E)

LEMMA CertificateFields ==
    ASSUME NEW k, NEW f, NEW E
    PROVE  LET c == Certificate(k, f, E)
           IN c.kernel = k /\ c.classes = f /\ c.evidence = {<<r.of, r.outcome>> : r \in E}
  BY DEF Certificate

LEMMA CertificateIs ==
    ASSUME NEW E, Restored(E), NEW c \in certificates
    PROVE  /\ c.kernel \in Certifiable /\ Passes(c.kernel, E)
           /\ c = Certificate(c.kernel, RequiredClasses(c.kernel), OracleRecords(c.kernel, E))
           /\ c.classes = RequiredClasses(c.kernel)
           /\ c.evidence = {<<r.of, r.outcome>> : r \in OracleRecords(c.kernel, E)}
           /\ \A d \in certificates : d.kernel = c.kernel => d = c
<1>1. \A d \in certificates : \E k \in Certifiable : Passes(k, E) /\ d = Certificate(k, RequiredClasses(k), OracleRecords(k, E))
  BY DEF Restored, RestoredFrom
<1>2. \A d \in certificates : /\ d.kernel \in Certifiable /\ Passes(d.kernel, E)
                              /\ d = Certificate(d.kernel, RequiredClasses(d.kernel), OracleRecords(d.kernel, E))
  BY <1>1, CertificateFields
<1>. QED
  BY <1>2, CertificateFields

LEMMA CertifiableKernels ==
    ASSUME NEW k \in Certifiable
    PROVE  k \notin Movements /\ Active(k) # {} /\ k \in Operations(OraclePlans)
<1>1. PICK p \in Declared(OraclePlans) : ~Deferred(p) /\ p.operation = k
  BY DEF Certifiable
<1>. QED
  BY <1>1, PlansOfAKind DEF Active, Declared, Operations

(* The records of the oracle about a kernel.                               *)
LEMMA OracleRecordIs ==
    ASSUME NEW E, NEW Q, Answers(E, Q), Q \subseteq OracleRequirements \union TargetRequirements,
           NEW k, k \notin Movements, NEW r \in OracleRecords(k, E)
    PROVE  /\ r \in E /\ r.of.stage = "oracle" /\ r.of.kernel = k
           /\ \/ /\ r.of.class = "deferred"
                 /\ \E p \in Declared(OraclePlans) : Deferred(p) /\ p.operation = k /\ r.of = DeferredCase("oracle", p)
              \/ /\ r.of.class # "deferred" /\ r.of.plan \in Active(k) /\ r.of.class \in Classes(r.of.plan)
                 /\ <<r.of.plan, r.of.class, r.of.label>> \in RequiredCases(k)
<1>1. r \in E /\ r.of.stage = "oracle" /\ r.of.kernel = k
  BY DEF OracleRecords
<1>2. r.of \in OracleRequirements
  BY <1>1, StageTwo DEF Answers
<1>3. ASSUME NEW p \in Declared(OraclePlans), Deferred(p), p.operation = k, r.of = DeferredCase("oracle", p)
      PROVE  r.of.class = "deferred"
  BY <1>3, RequirementFields DEF DeferredCase
<1>4. ASSUME NEW p \in Active(k), NEW c \in Catalog(p), r.of = Requirement("oracle", p.operation, p, c[1], c[2])
      PROVE  /\ r.of.class # "deferred" /\ r.of.plan \in Active(k) /\ r.of.class \in Classes(r.of.plan)
             /\ <<r.of.plan, r.of.class, r.of.label>> \in RequiredCases(k)
  <2>1. r.of.plan = p /\ r.of.class = c[1] /\ r.of.label = c[2]
    BY <1>4, RequirementFields
  <2>2. p \in Declared(OraclePlans)
    BY DEF Active
  <2>3. c[1] \in Classes(p) /\ c[1] # "deferred"
    BY <2>2, CatalogClasses, ClassesKnown
  <2>4. <<p, c[1], c[2]>> \in RequiredCases(k)
    BY DEF RequiredCases
  <2>. QED
    BY <2>1, <2>3, <2>4
<1>. QED
  BY <1>1, <1>2, <1>3, <1>4, OracleRequirementIs

LEMMA DeferredRecordIs ==
    ASSUME NEW E, NEW Q, Answers(E, Q), Q \subseteq OracleRequirements \union TargetRequirements,
           NEW k, k \notin Movements, NEW r \in OracleRecords(k, E), r.of.class = "deferred"
    PROVE  \E p \in Declared(OraclePlans) : Deferred(p) /\ p.operation = k /\ r.of = DeferredCase("oracle", p)
<1>1. r \in E /\ r.of.stage = "oracle" /\ r.of.kernel = k
  BY DEF OracleRecords
<1>2. r.of \in OracleRequirements
  BY <1>1, StageTwo DEF Answers
<1>3. CASE \E p \in Active(r.of.kernel) : \E c \in Catalog(p) :
             r.of = Requirement("oracle", p.operation, p, c[1], c[2])
  <2>1. PICK p \in Active(r.of.kernel) : \E c \in Catalog(p) : r.of = Requirement("oracle", p.operation, p, c[1], c[2])
    BY <1>3
  <2>2. PICK c \in Catalog(p) : r.of = Requirement("oracle", p.operation, p, c[1], c[2])
    BY <2>1
  <2>3. p \in Declared(OraclePlans) /\ r.of.class = c[1]
    BY <2>2, RequirementFields DEF Active
  <2>. QED
    BY <2>3, CatalogClasses, ClassesKnown
<1>4. CASE \E p \in Declared(OraclePlans) : Deferred(p) /\ p.operation = r.of.kernel /\ r.of = DeferredCase("oracle", p)
  BY <1>1, <1>4
<1>. QED
  BY <1>1, <1>2, <1>3, <1>4, OracleRequirementIs

LEMMA OracleRecordOf ==
    ASSUME NEW E, NEW Q, Answers(E, Q), OracleRequirements \subseteq Q, NEW k
    PROVE  /\ \A p \in Active(k) : \A c \in Catalog(p) :
                 \E r \in OracleRecords(k, E) : r.of.plan = p /\ r.of.class = c[1] /\ r.of.label = c[2]
           /\ \A p \in Active(k) : \A class \in Classes(p) : \E r \in OracleRecords(k, E) : r.of.plan = p /\ r.of.class = class
           /\ \A p \in Declared(OraclePlans) : Deferred(p) /\ p.operation = k =>
                 \E r \in OracleRecords(k, E) : r.of = DeferredCase("oracle", p)
<1>1. ASSUME NEW p \in Active(k), NEW c \in Catalog(p)
      PROVE  \E r \in OracleRecords(k, E) : r.of.plan = p /\ r.of.class = c[1] /\ r.of.label = c[2]
  <2> DEFINE q == Requirement("oracle", p.operation, p, c[1], c[2])
  <2>1. q.stage = "oracle" /\ q.kernel = p.operation /\ q.plan = p /\ q.class = c[1] /\ q.label = c[2]
    BY RequirementFields
  <2>2. p.operation = k /\ q \in OracleRequirements
    BY OracleRequires DEF Active
  <2> HIDE DEF q
  <2>3. PICK r \in E : r.of = q
    BY <2>2 DEF Answers
  <2>4. r \in OracleRecords(k, E)
    BY <2>1, <2>2, <2>3 DEF OracleRecords
  <2>. QED
    BY <2>1, <2>3, <2>4
<1>2. ASSUME NEW p \in Active(k), NEW class \in Classes(p)
      PROVE  \E r \in OracleRecords(k, E) : r.of.plan = p /\ r.of.class = class
  <2>1. p \in Declared(OraclePlans)
    BY DEF Active
  <2>2. PICK c \in Catalog(p) : c[1] = class
    BY <2>1, CatalogClasses
  <2>. QED
    BY <1>1, <2>2
<1>3. ASSUME NEW p \in Declared(OraclePlans), Deferred(p), p.operation = k
      PROVE  \E r \in OracleRecords(k, E) : r.of = DeferredCase("oracle", p)
  <2>1. DeferredCase("oracle", p) \in OracleRequirements
    BY <1>3, OracleRequires
  <2>2. PICK r \in E : r.of = DeferredCase("oracle", p)
    BY <2>1 DEF Answers
  <2>3. r.of.stage = "oracle" /\ r.of.kernel = k
    BY <1>3, <2>2, RequirementFields DEF DeferredCase
  <2>. QED
    BY <2>2, <2>3 DEF OracleRecords
<1>. QED
  BY <1>1, <1>2, <1>3

(* What a certificate is made again from.                                  *)
ShownIn(M) == {r \in M : r.of.class # "deferred"}
SeenIn(M) == [p \in {r.of.plan : r \in ShownIn(M)} |-> {r.of.class : r \in {x \in ShownIn(M) : x.of.plan = p}}]

LEMMA AgreesIs ==
    ASSUME NEW c, NEW R
    PROVE  LET M == OracleRecords(c.kernel, R)
               seen == SeenIn(M)
           IN Agrees(c, R) <=>
                 (M # {} =>
                    /\ \A p \in DOMAIN seen : p \in DOMAIN c.classes /\ seen[p] \subseteq c.classes[p]
                    /\ (\A p \in DOMAIN c.classes : p \in DOMAIN seen /\ c.classes[p] \subseteq seen[p])
                          => Shown(seen, {}, M) /\ Certificate(c.kernel, seen, M) = c)
  BY Zenon DEF Agrees, SeenIn, ShownIn

LEMMA SeenIs ==
    ASSUME NEW E, NEW Q, Answers(E, Q), OracleRequirements \subseteq Q, Q \subseteq OracleRequirements \union TargetRequirements,
           NEW k \in Certifiable, NEW M, ShownIn(M) = ShownIn(OracleRecords(k, E))
    PROVE  SeenIn(M) = RequiredClasses(k)
<1> DEFINE S == ShownIn(OracleRecords(k, E))
<1>1. \A r \in S : r.of.plan \in Active(k) /\ r.of.class \in Classes(r.of.plan)
  BY CertifiableKernels, OracleRecordIs DEF ShownIn
<1>2. \A p \in Active(k) : \A class \in Classes(p) : \E r \in S : r.of.plan = p /\ r.of.class = class
  <2> SUFFICES ASSUME NEW p \in Active(k), NEW class \in Classes(p) PROVE \E r \in S : r.of.plan = p /\ r.of.class = class
    OBVIOUS
  <2>1. PICK r \in OracleRecords(k, E) : r.of.plan = p /\ r.of.class = class
    BY OracleRecordOf
  <2>2. class # "deferred"
    BY ClassesKnown DEF Active
  <2>. QED
    BY <2>1, <2>2 DEF ShownIn
<1>3. \A p \in Active(k) : Classes(p) # {}
  BY DEF Active, Deferred
<1> HIDE DEF S
<1>4. {r.of.plan : r \in S} = Active(k)
  BY <1>1, <1>2, <1>3
<1>5. \A p \in Active(k) : {r.of.class : r \in {x \in S : x.of.plan = p}} = Classes(p)
  BY <1>1, <1>2
<1>6. SeenIn(M) = [p \in {r.of.plan : r \in S} |-> {r.of.class : r \in {x \in S : x.of.plan = p}}]
  BY DEF SeenIn, S
<1>. QED
  BY <1>4, <1>5, <1>6 DEF RequiredClasses

(* A kernel all of whose cases have passed is shown by its records.        *)
LEMMA ShownByAll ==
    ASSUME NEW E, NEW Q, Answers(E, Q), OracleRequirements \subseteq Q, Q \subseteq OracleRequirements \union TargetRequirements,
           NEW k \in Certifiable
    PROVE  /\ Passes(k, E) => Shown(RequiredClasses(k), {}, OracleRecords(k, E))
           /\ Shown(RequiredClasses(k), RequiredCases(k), OracleRecords(k, E)) <=> Passes(k, E)
<1> DEFINE M == OracleRecords(k, E)
           classes == RequiredClasses(k)
<1>1. DOMAIN classes = Active(k) /\ \A p \in Active(k) : classes[p] = Classes(p)
  BY DEF RequiredClasses
<1>2. \A r \in M : r.of.class = "deferred" \/ ( /\ r.of.plan \in Active(k) /\ r.of.class \in Classes(r.of.plan)
                                                /\ <<r.of.plan, r.of.class, r.of.label>> \in RequiredCases(k))
  BY CertifiableKernels, OracleRecordIs
<1>3. \A p \in Active(k) : "deferred" \notin Classes(p)
  BY ClassesKnown DEF Active
<1>4. /\ \A p \in Active(k) : \A c \in Catalog(p) : \E r \in M : r.of.plan = p /\ r.of.class = c[1] /\ r.of.label = c[2]
      /\ \A p \in Active(k) : \A class \in Classes(p) : \E r \in M : r.of.plan = p /\ r.of.class = class
  BY OracleRecordOf
<1> HIDE DEF M, classes
<1>5. ASSUME Passes(k, E)
      PROVE  /\ \A r \in M : r.of.class \in UNION {classes[p] : p \in DOMAIN classes} => r.outcome = "passed"
             /\ \A p \in DOMAIN classes : \A c \in classes[p] :
                   \E r \in M : r.of.plan = p /\ r.of.class = c /\ r.outcome = "passed"
  <2>1. \A r \in M : r.of.class # "deferred" => r.outcome = "passed"
    BY <1>2, <1>5 DEF Passes, M
  <2>. QED
    BY <1>1, <1>3, <1>4, <2>1
<1>6. RequiredCases(k) # {} => {<<r.of.plan, r.of.class, r.of.label>> : r \in {x \in M : x.of.plan \in DOMAIN classes}} = RequiredCases(k)
  <2>1. ASSUME NEW r \in M, r.of.plan \in Active(k) PROVE <<r.of.plan, r.of.class, r.of.label>> \in RequiredCases(k)
    <3>1. r.of.class # "deferred"
      <4>1. SUFFICES ASSUME r.of.class = "deferred" PROVE FALSE
        OBVIOUS
      <4>2. PICK p \in Declared(OraclePlans) : Deferred(p) /\ p.operation = k /\ r.of = DeferredCase("oracle", p)
        <5>1. k \notin Movements /\ r \in OracleRecords(k, E)
          BY CertifiableKernels DEF M
        <5>. QED
          BY <4>1, <5>1, DeferredRecordIs
      <4>3. r.of.plan = p
        BY <4>2, RequirementFields DEF DeferredCase
      <4>. QED
        BY <2>1, <4>2, <4>3 DEF Active
    <3>. QED
      BY <1>2, <3>1
  <2>2. ASSUME NEW x \in RequiredCases(k)
        PROVE \E r \in M : r.of.plan \in Active(k) /\ x = <<r.of.plan, r.of.class, r.of.label>>
    <3>0. PICK p \in Active(k) : \E c \in Catalog(p) : x = <<p, c[1], c[2]>>
      BY DEF RequiredCases
    <3>1. PICK c \in Catalog(p) : x = <<p, c[1], c[2]>>
      BY <3>0
    <3>2. PICK r \in M : r.of.plan = p /\ r.of.class = c[1] /\ r.of.label = c[2]
      BY <1>4
    <3>. QED
      BY <3>1, <3>2
  <2>. QED
    BY <1>1, <2>1, <2>2
<1>7. ASSUME Shown(classes, RequiredCases(k), M) PROVE Passes(k, E)
  <2>1. \A r \in M : r.of.class \in UNION {classes[p] : p \in DOMAIN classes} => r.outcome = "passed"
    BY <1>7 DEF Shown
  <2>2. ASSUME NEW r \in M, <<r.of.plan, r.of.class, r.of.label>> \in RequiredCases(k) PROVE r.outcome = "passed"
    <3>0. PICK p \in Active(k) : \E c \in Catalog(p) : <<r.of.plan, r.of.class, r.of.label>> = <<p, c[1], c[2]>>
      BY <2>2 DEF RequiredCases
    <3>1. PICK c \in Catalog(p) : <<r.of.plan, r.of.class, r.of.label>> = <<p, c[1], c[2]>>
      BY <3>0
    <3>2. r.of.plan = p /\ r.of.class = c[1] /\ p \in Declared(OraclePlans)
      BY <3>1 DEF Active
    <3>3. r.of.class \in classes[p] /\ p \in DOMAIN classes
      BY <1>1, <3>2, CatalogClasses
    <3>. QED
      BY <2>1, <3>3
  <2>. QED
    BY <2>2 DEF Passes, M
<1>8. Passes(k, E) => Shown(classes, {}, M) /\ Shown(classes, RequiredCases(k), M)
  BY <1>5, <1>6 DEF Shown
<1>. QED
  BY <1>7, <1>8 DEF M, classes

-----------------------------------------------------------------------------
(* What a report shows of a certificate: all that it was made of, nothing, *)
(* or all but the plans that were deferred.                                *)
LEMMA AgreesFull ==
    ASSUME NEW E, Sound(E), NEW c \in certificates, NEW R, OracleRecords(c.kernel, R) = OracleRecords(c.kernel, E)
    PROVE  Agrees(c, R)
<1> DEFINE k == c.kernel
           M == OracleRecords(k, R)
<1>1. PICK Q : Answers(E, Q) /\ OracleRequirements \subseteq Q /\ Q \subseteq OracleRequirements \union TargetRequirements
  BY DEF Sound
<1>2. /\ k \in Certifiable /\ Passes(k, E) /\ c.classes = RequiredClasses(k)
      /\ c = Certificate(k, RequiredClasses(k), OracleRecords(k, E))
  BY CertificateIs DEF Sound
<1>3. SeenIn(M) = RequiredClasses(k)
  <2>1. ShownIn(M) = ShownIn(OracleRecords(k, E))
    OBVIOUS
  <2> HIDE DEF k, M
  <2>. QED
    BY <1>1, <1>2, <2>1, SeenIs
<1>4. Shown(RequiredClasses(k), {}, M)
  <2>1. M = OracleRecords(k, E)
    OBVIOUS
  <2> HIDE DEF k, M
  <2>. QED
    BY <1>1, <1>2, <2>1, ShownByAll
<1>5. Certificate(k, RequiredClasses(k), M) = c
  BY <1>2
<1>6. \A p \in DOMAIN SeenIn(M) : p \in DOMAIN c.classes /\ SeenIn(M)[p] \subseteq c.classes[p]
  <2> HIDE DEF k, M
  <2>. QED
    BY <1>2, <1>3
<1>7. Shown(SeenIn(M), {}, M) /\ Certificate(k, SeenIn(M), M) = c
  <2> HIDE DEF k, M
  <2>. QED
    BY <1>3, <1>4, <1>5
<1>8. Agrees(c, R) <=>
          (M # {} => /\ \A p \in DOMAIN SeenIn(M) : p \in DOMAIN c.classes /\ SeenIn(M)[p] \subseteq c.classes[p]
                     /\ (\A p \in DOMAIN c.classes : p \in DOMAIN SeenIn(M) /\ c.classes[p] \subseteq SeenIn(M)[p])
                          => Shown(SeenIn(M), {}, M) /\ Certificate(k, SeenIn(M), M) = c)
  BY AgreesIs
<1> HIDE DEF k, M
<1>. QED
  BY <1>6, <1>7, <1>8

LEMMA AgreesNone ==
    ASSUME NEW c, NEW R, OracleRecords(c.kernel, R) = {}
    PROVE  Agrees(c, R)
  BY AgreesIs

PassedOf(E) == {r \in E : r.outcome = "passed"}

LEMMA PassedRecords ==
    ASSUME NEW E, Sound(E), NEW c \in certificates
    PROVE  /\ OracleRecords(c.kernel, PassedOf(E)) = {r \in OracleRecords(c.kernel, E) : r.outcome = "passed"}
           /\ \A r \in OracleRecords(c.kernel, E) :
                 IF r.of.class = "deferred"
                 THEN /\ r.outcome = "deferred"
                      /\ \E p \in Declared(OraclePlans) : Deferred(p) /\ p.operation = c.kernel
                 ELSE r.outcome = "passed"
<1>1. OracleRecords(c.kernel, PassedOf(E)) = {r \in OracleRecords(c.kernel, E) : r.outcome = "passed"}
  BY DEF OracleRecords, PassedOf
<1>2. PICK Q : Answers(E, Q) /\ OracleRequirements \subseteq Q /\ Q \subseteq OracleRequirements \union TargetRequirements
  BY DEF Sound
<1>3. c.kernel \notin Movements /\ Passes(c.kernel, E)
  BY CertificateIs, CertifiableKernels DEF Sound
<1>4. ASSUME NEW r \in OracleRecords(c.kernel, E)
      PROVE  IF r.of.class = "deferred"
             THEN /\ r.outcome = "deferred"
                  /\ \E p \in Declared(OraclePlans) : Deferred(p) /\ p.operation = c.kernel
             ELSE r.outcome = "passed"
  <2>1. r \in E /\ Fitting(r)
    BY <1>2, <1>3, OracleRecordIs DEF Sound
  <2>2. CASE r.of.class = "deferred"
    <3>1. \E p \in Declared(OraclePlans) : Deferred(p) /\ p.operation = c.kernel
      BY <1>2, <1>3, <2>2, DeferredRecordIs
    <3>2. r.outcome = "deferred"
      BY <2>1, <2>2 DEF Fitting
    <3>. QED
      BY <2>2, <3>1, <3>2
  <2>3. CASE r.of.class # "deferred"
    <3>1. <<r.of.plan, r.of.class, r.of.label>> \in RequiredCases(c.kernel)
      BY <1>2, <1>3, <2>3, OracleRecordIs
    <3>. QED
      BY <1>3, <2>3, <3>1 DEF Passes
  <2>. QED
    BY <2>2, <2>3
<1>. QED
  BY <1>1, <1>4

LEMMA AgreesPassed ==
    ASSUME NEW E, Sound(E), NEW c \in certificates
    PROVE  Agrees(c, PassedOf(E)) <=> ~ \E p \in Declared(OraclePlans) : Deferred(p) /\ p.operation = c.kernel
<1> DEFINE k == c.kernel
           M == OracleRecords(k, PassedOf(E))
           N == OracleRecords(k, E)
<1>1. PICK Q : Answers(E, Q) /\ OracleRequirements \subseteq Q /\ Q \subseteq OracleRequirements \union TargetRequirements
  BY DEF Sound
<1>2. /\ M = {r \in N : r.outcome = "passed"}
      /\ \A r \in N : IF r.of.class = "deferred"
                      THEN r.outcome = "deferred" /\ \E p \in Declared(OraclePlans) : Deferred(p) /\ p.operation = k
                      ELSE r.outcome = "passed"
  BY PassedRecords
<1>3. CASE ~ \E p \in Declared(OraclePlans) : Deferred(p) /\ p.operation = k
  <2>1. M = N
    <3> HIDE DEF M, N, k
    <3>. QED
      BY <1>2, <1>3
  <2>2. Agrees(c, PassedOf(E))
    BY <2>1, AgreesFull
  <2>. QED
    BY <1>3, <2>2
<1>4. CASE \E p \in Declared(OraclePlans) : Deferred(p) /\ p.operation = k
  <2>1. PICK p \in Declared(OraclePlans) : Deferred(p) /\ p.operation = k
    BY <1>4
  <2>2. PICK d \in N : d.of = DeferredCase("oracle", p)
    BY <1>1, <2>1, OracleRecordOf
  <2>3. d.outcome = "deferred"
    <3>1. d.of.class = "deferred"
      BY <2>2, RequirementFields DEF DeferredCase
    <3> HIDE DEF M, N, k
    <3>. QED
      BY <1>2, <3>1
  <2>4. /\ k \in Certifiable /\ c.classes = RequiredClasses(k)
        /\ c.evidence = {<<r.of, r.outcome>> : r \in N}
    BY CertificateIs DEF Sound
  <2>5. SeenIn(M) = RequiredClasses(k)
    <3>1. ShownIn(M) = ShownIn(N)
      <4> HIDE DEF M, N, k
      <4>. QED
        BY <1>2 DEF ShownIn
    <3>2. ShownIn(M) = ShownIn(OracleRecords(k, E))
      BY <3>1
    <3> HIDE DEF M, k
    <3>. QED
      BY <1>1, <2>4, <3>2, SeenIs
  <2>6. M # {}
    <3>1. PICK q \in Active(k) : TRUE
      BY <2>4, CertifiableKernels
    <3>2. PICK class \in Classes(q) : TRUE
      BY <3>1 DEF Active, Deferred
    <3>3. PICK r \in N : r.of.class = class
      BY <1>1, <3>1, <3>2, OracleRecordOf
    <3>4. class # "deferred"
      BY <3>1, <3>2, ClassesKnown DEF Active
    <3> HIDE DEF M, N, k
    <3>. QED
      BY <1>2, <3>3, <3>4
  <2>7. Certificate(k, RequiredClasses(k), M) # c
    <3>1. SUFFICES ASSUME Certificate(k, RequiredClasses(k), M) = c PROVE FALSE
      OBVIOUS
    <3>2. c.evidence = {<<r.of, r.outcome>> : r \in M}
      <4> HIDE DEF M, k
      <4>. QED
        BY <3>1, CertificateFields
    <3> HIDE DEF M, N, k
    <3>3. <<d.of, d.outcome>> \in {<<r.of, r.outcome>> : r \in M}
      BY <2>2, <2>4, <3>2
    <3>4. PICK r \in M : d.outcome = r.outcome
      BY <3>3
    <3>. QED
      BY <1>2, <2>3, <3>4
  <2>8. Agrees(c, PassedOf(E)) <=>
            (M # {} => /\ \A x \in DOMAIN SeenIn(M) : x \in DOMAIN c.classes /\ SeenIn(M)[x] \subseteq c.classes[x]
                       /\ (\A x \in DOMAIN c.classes : x \in DOMAIN SeenIn(M) /\ c.classes[x] \subseteq SeenIn(M)[x])
                            => Shown(SeenIn(M), {}, M) /\ Certificate(k, SeenIn(M), M) = c)
    BY AgreesIs
  <2> HIDE DEF M, N, k
  <2>9. ~ Agrees(c, PassedOf(E))
    BY <2>4, <2>5, <2>6, <2>7, <2>8
  <2>. QED
    BY <1>4, <2>9 DEF k
<1>. QED
  BY <1>3, <1>4

(* Any part of it is a report that agrees with the certificates it shows.  *)
LEMMA ReceiptKernels ==
    ASSUME NEW E, Sound(E), NEW x \in ReceiptBundle(E)
    PROVE  x.kernel \notin Movements
<1>1. CASE x \in Installed
  BY <1>1, PlansOfAKind DEF Installed
<1>2. CASE x \notin Installed
  <2>1. PICK r \in E : x = r.receipt /\ x # Absent
    BY <1>2 DEF ReceiptBundle
  <2>2. x = Receipt(r.of) /\ r.of.kernel \notin Movements
    BY <2>1 DEF Sound, Fitting
  <2>3. x.kernel = r.of.kernel
    BY <2>2 DEF Receipt
  <2>. QED
    BY <2>2, <2>3
<1>. QED
  BY <1>1, <1>2

LEMMA PartsValid ==
    ASSUME NEW E, Sound(E), NEW R, R \subseteq E,
           NEW T, T \subseteq ReceiptBundle(E), \A r \in R : r.receipt # Absent => r.receipt \in T,
           NEW C, C \subseteq certificates, \A r \in R : r.consumed # Absent => r.consumed \in C,
           \A c \in C : Agrees(c, R)
    PROVE  Valid(ReportOf(R, T, C))
<1>1. PICK Q : Answers(E, Q)
  BY DEF Sound
<1>2. ASSUME NEW r \in R PROVE WellFormed(r)
  BY DEF Sound, Fitting, WellFormed
<1>3. ASSUME NEW r \in R, NEW x \in R, x.of = r.of PROVE x = r
  BY <1>1, <1>3 DEF Answers
<1>4. ASSUME NEW r \in R PROVE ReceiptFits(r, T)
  <2>1. Fitting(r) /\ BoundTo(E) /\ r \in E
    BY DEF Sound
  <2>2. CASE r.receipt = Absent
    <3>1. SUFFICES ASSUME r.outcome \in {"passed", "failed"}, Receipt(r.of) \in T PROVE FALSE
      BY <2>2 DEF ReceiptFits
    <3>2. r.of.kernel \in Movements
      BY <2>1, <2>2, <3>1 DEF BoundTo
    <3>3. Receipt(r.of).kernel = r.of.kernel
      BY DEF Receipt
    <3>. QED
      BY <3>1, <3>2, <3>3, ReceiptKernels
  <2>3. CASE r.receipt # Absent
    <3>1. r.receipt \in T /\ r.receipt = Receipt(r.of) /\ r.outcome # "blocked"
      BY <2>1, <2>3 DEF Fitting
    <3>. QED
      BY <2>3, <3>1 DEF ReceiptFits
  <2>. QED
    BY <2>2, <2>3
<1>5. ASSUME NEW r \in R PROVE CertificateFits(r, T, C)
  <2>1. Fitting(r) /\ r \in E
    BY DEF Sound
  <2>2. ASSUME r.consumed # Absent
        PROVE  /\ r.consumed \in C
               /\ \E p \in DOMAIN r.consumed.classes : p.operation = r.of.kernel
               /\ \E p \in DOMAIN r.consumed.classes : r.of.class \in r.consumed.classes[p]
    <3>1. r.consumed \in C /\ r.consumed \in certificates
      BY <2>2
    <3>2. r.consumed.kernel = r.of.kernel
      BY <2>1, <2>2 DEF Fitting
    <3>3. PICK p \in Active(r.of.kernel) : r.of.class \in Classes(p)
      BY <2>1, <2>2 DEF Fitting
    <3>4. r.consumed.classes = RequiredClasses(r.of.kernel)
      BY <3>1, <3>2, CertificateIs DEF Sound
    <3>5. p.operation = r.of.kernel
      BY DEF Active
    <3>. QED
      BY <3>1, <3>3, <3>4, <3>5 DEF RequiredClasses
  <2>3. ASSUME r.of.stage = "target", r.outcome \in Ran, [profile |-> "cpu-compiled", kernel |-> r.of.kernel] \in T
        PROVE  r.consumed # Absent
    <3>1. [profile |-> "cpu-compiled", kernel |-> r.of.kernel].kernel \notin Movements
      BY <2>3, ReceiptKernels
    <3>2. r.of.kernel \notin Movements
      BY <3>1
    <3>. QED
      BY <2>1, <2>3, <3>2 DEF Fitting
  <2>. QED
    BY <2>2, <2>3 DEF CertificateFits
<1>6. \A c, d \in C : c.kernel = d.kernel => c = d
  BY CertificateIs DEF Sound
<1>7. /\ ReportOf(R, T, C).records = R /\ ReportOf(R, T, C).receipts = T /\ ReportOf(R, T, C).certificates = C
  BY DEF ReportOf
<1>. QED
  BY <1>2, <1>3, <1>4, <1>5, <1>6, <1>7 DEF Valid

-----------------------------------------------------------------------------
(* Receipts and certificates are something.                                *)
LEMMA ReceiptsExist ==
    /\ \A q : q.stage = "oracle" /\ q.kernel \in Operations(OraclePlans) => Receipt(q) \in Installed
    /\ provider = "compiled-executable" => \A q : q.kernel \in Operations(OraclePlans) => Receipt(q) \in Installed
    /\ \A q : q.kernel \in Operations(OraclePlans) \union Operations(JitPlans) => Receipt(q) # Absent
    /\ \A q : Receipt(q) \in Installed => Receipt(q) # Absent /\ q.kernel \notin Movements
<1>1. \A k \in Operations(OraclePlans) : [profile |-> "cpu-compiled", kernel |-> k] \in Installed
  BY DEF Operations, Declared, Installed
<1>2. \A q : /\ Receipt(q) = [profile |-> Profile(q.stage), kernel |-> q.kernel]
             /\ Receipt(q).kernel = q.kernel
             /\ Profile(q.stage) \in {"cpu-compiled", "metal-tilelang"}
             /\ q.stage = "oracle" => Profile(q.stage) = "cpu-compiled"
             /\ provider = "compiled-executable" => Profile(q.stage) = "cpu-compiled"
  BY DEF Receipt, Profile
<1>3. ASSUME NEW q, q.kernel \in Operations(OraclePlans) \union Operations(JitPlans) PROVE Receipt(q) # Absent
  <2>1. Receipt(q) \in [profile : {"cpu-compiled", "metal-tilelang"}, kernel : Operations(OraclePlans) \union Operations(JitPlans)]
    BY <1>2, <1>3
  <2>. QED
    BY <2>1, AbsentAssumption
<1>4. ASSUME NEW q, Receipt(q) \in Installed PROVE q.kernel \in Operations(OraclePlans) /\ q.kernel \notin Movements
  <2>1. PICK p \in Declared(OraclePlans) : Receipt(q) = [profile |-> "cpu-compiled", kernel |-> p.operation]
    BY <1>4 DEF Installed
  <2>2. q.kernel = p.operation
    BY <1>2, <2>1
  <2>. QED
    BY <2>2, PlansOfAKind DEF Operations, Declared
<1>. QED
  BY <1>1, <1>2, <1>3, <1>4

LEMMA CertificatesExist ==
    ASSUME NEW E, NEW Q, Answers(E, Q), Q \subseteq OracleRequirements \union TargetRequirements,
           \A r \in E : Fitting(r), NEW c \in RestoredFrom(E)
    PROVE  c # Absent
<1>1. PICK k \in Certifiable : c = Certificate(k, RequiredClasses(k), OracleRecords(k, E))
  BY DEF RestoredFrom
<1> DEFINE M == OracleRecords(k, E)
<1>2. \A r \in M : r.of \in OracleRequirements /\ r.outcome \in Ran \union {"deferred"}
  <2> SUFFICES ASSUME NEW r \in M PROVE r.of \in OracleRequirements /\ r.outcome \in Ran \union {"deferred"}
    OBVIOUS
  <2>1. r \in E /\ r.of.stage = "oracle"
    BY DEF OracleRecords
  <2>2. r.of \in OracleRequirements
    BY <2>1, StageTwo DEF Answers
  <2>3. r.outcome \in Ran \union {"deferred"}
    BY <2>1 DEF Fitting
  <2>. QED
    BY <2>2, <2>3
<1> HIDE DEF M
<1>3. {<<r.of, r.outcome>> : r \in M} \in SUBSET (OracleRequirements \X (Ran \union {"deferred"}))
  BY <1>2
<1>4. c = [kernel |-> k, classes |-> RequiredClasses(k), evidence |-> {<<r.of, r.outcome>> : r \in M}]
  BY <1>1 DEF Certificate, M
<1> DEFINE evidences == SUBSET (OracleRequirements \X (Ran \union {"deferred"}))
<1>5. Absent \notin [kernel : {k}, classes : {RequiredClasses(k)}, evidence : evidences]
  BY AbsentAssumption
<1> HIDE DEF evidences
<1>6. c \in [kernel : {k}, classes : {RequiredClasses(k)}, evidence : evidences]
  BY <1>3, <1>4 DEF evidences
<1>. QED
  BY <1>5, <1>6

(* Stamping the evidence changes receipts only, and leaves none out.       *)
LEMMA StampedIs ==
    ASSUME NEW E, AreRecords(E), NEW r \in Stamped(E)
    PROVE  \E x \in E :
              /\ r.of = x.of /\ r.outcome = x.outcome /\ r.consumed = x.consumed
              /\ IF x.receipt = Absent /\ x.outcome \in Ran /\ Receipt(x.of) \in Installed
                 THEN r.receipt = Receipt(x.of) ELSE r.receipt = x.receipt
<1>1. PICK x \in E : r = IF x.receipt = Absent /\ x.outcome \in Ran /\ Receipt(x.of) \in Installed
                         THEN [x EXCEPT !.receipt = Receipt(x.of)] ELSE x
  BY DEF Stamped
<1>2. x = Record(x.of, x.outcome, x.receipt, x.consumed)
  BY DEF AreRecords
<1>3. LET y == [x EXCEPT !.receipt = Receipt(x.of)]
      IN  y.of = x.of /\ y.outcome = x.outcome /\ y.consumed = x.consumed /\ y.receipt = Receipt(x.of)
  BY <1>2 DEF Record
<1>. QED
  BY <1>1, <1>3

LEMMA StampedFits ==
    ASSUME NEW E, AreRecords(E), \A r \in E : Fitting(r)
    PROVE  (\A r \in Stamped(E) : Fitting(r)) /\ BoundTo(Stamped(E))
<1> SUFFICES ASSUME NEW r \in Stamped(E)
             PROVE  Fitting(r) /\ (r.outcome \in {"passed", "failed"} /\ r.of.kernel \notin Movements => r.receipt # Absent)
  BY DEF BoundTo
<1>1. PICK x \in E : /\ r.of = x.of /\ r.outcome = x.outcome /\ r.consumed = x.consumed
                     /\ IF x.receipt = Absent /\ x.outcome \in Ran /\ Receipt(x.of) \in Installed
                        THEN r.receipt = Receipt(x.of) ELSE r.receipt = x.receipt
  BY StampedIs
<1>2. Fitting(x)
  OBVIOUS
<1>3. CASE x.receipt = Absent /\ x.outcome \in Ran /\ Receipt(x.of) \in Installed
  <2>1. r.receipt = Receipt(r.of) /\ r.receipt # Absent /\ r.of.kernel \notin Movements
    BY <1>1, <1>3, ReceiptsExist
  <2>2. r.outcome \notin {"blocked", "deferred"}
    BY <1>1, <1>3 DEF Ran
  <2>. QED
    BY <1>1, <1>2, <2>1, <2>2 DEF Fitting
<1>4. CASE ~(x.receipt = Absent /\ x.outcome \in Ran /\ Receipt(x.of) \in Installed)
  <2>1. r.receipt = x.receipt
    BY <1>1, <1>4
  <2>2. Fitting(r)
    BY <1>1, <1>2, <2>1 DEF Fitting
  <2>3. ASSUME r.outcome \in {"passed", "failed"}, r.of.kernel \notin Movements PROVE r.receipt # Absent
    <3>1. r.receipt # Absent \/ Receipt(r.of) \in Installed
      BY <2>2, <2>3 DEF Fitting
    <3>2. x.outcome \in Ran
      BY <1>1, <2>3 DEF Ran
    <3>. QED
      BY <1>1, <1>4, <2>1, <3>1, <3>2
  <2>. QED
    BY <2>2, <2>3
<1>. QED
  BY <1>3, <1>4

LEMMA StampedRestored ==
    ASSUME NEW E, NEW Q, Answers(E, Q)
    PROVE  RestoredFrom(Stamped(E)) = RestoredFrom(E)
<1>1. /\ \A r \in Stamped(E) : \E x \in E : r.of = x.of /\ r.outcome = x.outcome
      /\ \A x \in E : \E r \in Stamped(E) : r.of = x.of /\ r.outcome = x.outcome
  BY StampedAnswers
<1>2. ASSUME NEW k
      PROVE /\ Passes(k, Stamped(E)) <=> Passes(k, E)
            /\ {<<r.of, r.outcome>> : r \in OracleRecords(k, Stamped(E))} = {<<r.of, r.outcome>> : r \in OracleRecords(k, E)}
  <2> DEFINE M == OracleRecords(k, Stamped(E))
             N == OracleRecords(k, E)
  <2>1. /\ \A r \in M : \E x \in N : r.of = x.of /\ r.outcome = x.outcome
        /\ \A x \in N : \E r \in M : r.of = x.of /\ r.outcome = x.outcome
    BY <1>1 DEF OracleRecords
  <2> HIDE DEF M, N
  <2>2. {<<r.of, r.outcome>> : r \in M} = {<<r.of, r.outcome>> : r \in N}
    BY <2>1
  <2>3. ASSUME \A r \in N : <<r.of.plan, r.of.class, r.of.label>> \in RequiredCases(k) => r.outcome = "passed",
               NEW r \in M, <<r.of.plan, r.of.class, r.of.label>> \in RequiredCases(k)
        PROVE  r.outcome = "passed"
    <3>1. PICK x \in N : r.of = x.of /\ r.outcome = x.outcome
      BY <2>1
    <3>. QED
      BY <2>3, <3>1
  <2>4. ASSUME \A r \in M : <<r.of.plan, r.of.class, r.of.label>> \in RequiredCases(k) => r.outcome = "passed",
               NEW x \in N, <<x.of.plan, x.of.class, x.of.label>> \in RequiredCases(k)
        PROVE  x.outcome = "passed"
    <3>1. PICK r \in M : r.of = x.of /\ r.outcome = x.outcome
      BY <2>1
    <3>. QED
      BY <2>4, <3>1
  <2>5. Passes(k, Stamped(E)) <=> Passes(k, E)
    BY <2>3, <2>4 DEF Passes, M, N
  <2>. QED
    BY <2>2, <2>5 DEF M, N
<1>3. ASSUME NEW k, NEW f
      PROVE Certificate(k, f, OracleRecords(k, Stamped(E))) = Certificate(k, f, OracleRecords(k, E))
  BY <1>2 DEF Certificate
<1>. QED
  BY <1>2, <1>3 DEF RestoredFrom

LEMMA CertifiedAre ==
    ASSUME NEW E, NEW Q, Answers(E, Q), OracleRequirements \subseteq Q, Q \subseteq OracleRequirements \union TargetRequirements
    PROVE  Certified(E) = RestoredFrom(E)
  BY ShownByAll DEF Certified, RestoredFrom

-----------------------------------------------------------------------------
(* The records the steps add.                                              *)
LEMMA MoveFits ==
    ASSUME NEW s \in {"oracle", "target"}, NEW m \in Movements, NEW o \in Ran
    PROVE  LET r == Plain(MovementCase(s, m), o) IN Fitting(r) /\ r.of.stage = s
<1> DEFINE r == Plain(MovementCase(s, m), o)
<1>1. /\ r.of.stage = s /\ r.of.kernel = m /\ r.of.class = "bit_exact" /\ r.outcome = o
      /\ r.receipt = Absent /\ r.consumed = Absent
  BY RecordFields, RequirementFields DEF Plain, MovementCase
<1> HIDE DEF r
<1>2. Fitting(r)
  BY <1>1 DEF Fitting, Ran
<1>. QED
  BY <1>1, <1>2 DEF r

LEMMA BlockedFits ==
    ASSUME NEW q, q.stage = "target"
    PROVE  Fitting(Blocked(q)) /\ Blocked(q).of.stage = "target"
<1>1. LET r == Blocked(q)
      IN  /\ r.of = q /\ r.outcome = IF q.class = "deferred" THEN "deferred" ELSE "blocked"
          /\ r.receipt = Absent /\ r.consumed = Absent
  BY RecordFields DEF Plain, Blocked
<1>. QED
  BY <1>1 DEF Fitting, Ran

LEMMA OracleDeferredFits ==
    ASSUME NEW p
    PROVE  Fitting(Plain(DeferredCase("oracle", p), "deferred"))
<1>1. LET r == Plain(DeferredCase("oracle", p), "deferred")
      IN  /\ r.of.stage = "oracle" /\ r.of.class = "deferred" /\ r.outcome = "deferred"
          /\ r.receipt = Absent /\ r.consumed = Absent
  BY RecordFields, RequirementFields DEF Plain, DeferredCase
<1>. QED
  BY <1>1 DEF Fitting, Ran

LEMMA OracleCaseFits ==
    ASSUME NEW p \in Declared(OraclePlans), NEW c \in Catalog(p), NEW o \in Ran
    PROVE  Fitting(Plain(Requirement("oracle", p.operation, p, c[1], c[2]), o))
<1> DEFINE r == Plain(Requirement("oracle", p.operation, p, c[1], c[2]), o)
<1>1. /\ r.of.stage = "oracle" /\ r.of.kernel = p.operation /\ r.of.class = c[1] /\ r.outcome = o
      /\ r.receipt = Absent /\ r.consumed = Absent
  BY RecordFields, RequirementFields DEF Plain
<1>2. c[1] # "deferred"
  BY CatalogClasses, ClassesKnown
<1>3. Receipt(r.of) \in Installed
  <2>1. p.operation \in Operations(OraclePlans)
    BY DEF Operations, Declared
  <2> HIDE DEF r
  <2>. QED
    BY <1>1, <2>1, ReceiptsExist
<1> HIDE DEF r
<1>. QED
  BY <1>1, <1>2, <1>3 DEF Fitting, Ran, r

LEMMA ResultFits ==
    ASSUME NEW E, NEW Q, Answers(E, Q), Q \subseteq OracleRequirements \union TargetRequirements,
           \A r \in E : Fitting(r), Restored(E),
           NEW p \in Declared(TargetPlans), ~Deferred(p), NEW cert \in Authority(p.operation),
           NEW c \in TargetCatalog(p), NEW o \in Ran, NEW receipt,
           receipt # Absent => receipt = Receipt(Requirement("target", p.operation, p, c[1], c[2])),
           o \in {"passed", "failed"} => receipt # Absent \/ Receipt(Requirement("target", p.operation, p, c[1], c[2])) \in Installed
    PROVE  Fitting(Record(Requirement("target", p.operation, p, c[1], c[2]), o, receipt, cert))
<1> DEFINE q == Requirement("target", p.operation, p, c[1], c[2])
           r == Record(q, o, receipt, cert)
<1>1. q.stage = "target" /\ q.kernel = p.operation /\ q.class = c[1]
  BY RequirementFields
<1>2. r.of = q /\ r.outcome = o /\ r.receipt = receipt /\ r.consumed = cert
  BY RecordFields
<1>3. c[1] \in Classes(p) /\ c[1] # "deferred" /\ p.operation \notin Movements
  BY CatalogClasses, ClassesKnown, PlansOfAKind
<1>4. cert \in certificates /\ cert.kernel = p.operation /\ cert # Absent
  <2>1. cert \in certificates /\ cert.kernel = p.operation
    BY DEF Authority
  <2>. QED
    BY <2>1, CertificatesExist DEF Restored
<1>5. \E x \in Active(p.operation) : c[1] \in Classes(x)
  <2>1. PICK x \in Active(p.operation) : TRUE
    BY DEF Authority
  <2>2. x \in Declared(OraclePlans) /\ x.operation = p.operation /\ ~Deferred(x)
    BY DEF Active
  <2>3. Classes(x) = Classes(p)
    BY <2>2, SameClasses
  <2>. QED
    BY <1>3, <2>3
<1>6. o \notin {"blocked", "deferred"} /\ o \in Ran
  BY DEF Ran
<1>7. /\ receipt # Absent => receipt = Receipt(q)
      /\ o \in {"passed", "failed"} => receipt # Absent \/ Receipt(q) \in Installed
  OBVIOUS
<1> HIDE DEF q, r
<1>8. Fitting(r)
  BY <1>1, <1>2, <1>3, <1>4, <1>5, <1>6, <1>7 DEF Fitting
<1>. QED
  BY <1>8 DEF q, r

-----------------------------------------------------------------------------
(* The steps.                                                              *)
LEMMA RequiredIs ==
    ASSUME Staged
    PROVE  /\ Required \subseteq OracleRequirements \union TargetRequirements
           /\ phase \notin {"oracle moves", "oracle"} => OracleRequirements \subseteq Required
<1>1. Progress
  BY DEF Staged
<1>2. Moves("oracle") \subseteq OracleRequirements /\ Moves("target") \subseteq TargetRequirements
  BY DEF Moves, OracleRequirements, TargetRequirements
<1>3. phase = "oracle" => OracleUntil(at) \subseteq OracleRequirements
  BY <1>1, PlansAreSequences DEF Progress, OracleUntil, OracleRequirements, Declared
<1>4. phase = "target" => TargetUntil(at) \subseteq TargetRequirements
  BY <1>1, PlansAreSequences DEF Progress, TargetUntil, TargetRequirements, Declared
<1>5. phase \in {"oracle moves", "oracle", "authorize", "target moves", "target", "report", "reported", "refused"}
  BY <1>1 DEF Progress
<1>6. /\ phase = "oracle moves" => Required = {}
      /\ phase = "oracle" => Required = Moves("oracle") \union OracleUntil(at)
      /\ phase \in {"authorize", "target moves"} => Required = OracleRequirements
      /\ phase = "target" => Required = OracleRequirements \union Moves("target") \union TargetUntil(at)
      /\ phase \in {"report", "reported", "refused"} => Required = OracleRequirements \union TargetRequirements
  BY <1>5 DEF Required
<1>7. CASE phase = "oracle moves"
  BY <1>6, <1>7
<1>8. CASE phase = "oracle"
  BY <1>2, <1>3, <1>6, <1>8
<1>9. CASE phase = "target"
  BY <1>2, <1>4, <1>6, <1>9
<1>10. CASE phase \in {"authorize", "target moves", "report", "reported", "refused"}
  BY <1>6, <1>10
<1>. QED
  BY <1>5, <1>7, <1>8, <1>9, <1>10

LEMMA FittingKept ==
    ASSUME provider' = provider, certificates \subseteq certificates', NEW r, Fitting(r)
    PROVE  Fitting(r)'
<1>1. Receipt(r.of)' = Receipt(r.of)
  BY DEF Receipt, Profile
<1>2. /\ r.outcome \in Ran \union {"blocked", "deferred"} /\ (r.of.class = "deferred" <=> r.outcome = "deferred")
      /\ r.of.stage = "oracle" => r.consumed = Absent /\ r.outcome # "blocked"
      /\ r.outcome \in {"blocked", "deferred"} => r.receipt = Absent /\ r.consumed = Absent
      /\ r.receipt # Absent => r.receipt = Receipt(r.of)' /\ r.of.kernel \notin Movements
      /\ r.consumed # Absent => /\ r.of.stage = "target" /\ r.of.kernel \notin Movements
                                /\ r.consumed \in certificates' /\ r.consumed.kernel = r.of.kernel
                                /\ \E p \in Active(r.of.kernel) : r.of.class \in Classes(p)
      /\ r.of.stage = "target" /\ r.outcome \in Ran /\ r.of.kernel \notin Movements => r.consumed # Absent
      /\ r.outcome \in {"passed", "failed"} /\ r.of.kernel \notin Movements =>
            r.receipt # Absent \/ Receipt(r.of)' \in Installed
  BY <1>1 DEF Fitting
<1>. QED
  BY <1>2 DEF Fitting

LEMMA GrownVouched ==
    ASSUME Staged, Vouched, NEW F, evidence' = evidence \union F, provider' = provider, certificates' = certificates,
           \A r \in F : Fitting(r), phase' \notin {"authorize", "reported", "refused"},
           \/ phase \in {"oracle moves", "oracle"} /\ phase' \in {"oracle moves", "oracle"}
           \/ /\ phase \notin {"oracle moves", "oracle"} /\ phase' \notin {"oracle moves", "oracle"}
              /\ \A r \in F : r.of.stage = "target"
    PROVE  Vouched'
<1>1. \A r \in evidence \union F : Fitting(r)
  BY DEF Vouched
<1>2. \A r \in evidence' : Fitting(r)'
  BY <1>1, FittingKept
<1>4. CASE phase \in {"oracle moves", "oracle"} /\ phase' \in {"oracle moves", "oracle"}
  BY <1>2, <1>4 DEF Vouched
<1>5. CASE /\ phase \notin {"oracle moves", "oracle"} /\ phase' \notin {"oracle moves", "oracle"}
           /\ \A r \in F : r.of.stage = "target"
  <2> PICK E : E = evidence
    OBVIOUS
  <2>1. \A k : OracleRecords(k, E \union F) = OracleRecords(k, E)
    BY <1>5 DEF OracleRecords
  <2>2. RestoredFrom(E \union F) = RestoredFrom(E)
    BY <2>1 DEF RestoredFrom, Passes
  <2>3. certificates' = RestoredFrom(E \union F) /\ evidence' = E \union F
    BY <1>5, <2>2 DEF Vouched, Restored
  <2>4. Restored(evidence)'
    BY <2>3 DEF Restored
  <2>. QED
    BY <1>2, <1>5, <2>4 DEF Vouched
<1>. QED
  BY <1>4, <1>5

LEMMA OracleMovesVouched == Staged /\ Vouched /\ OracleMoves => Vouched'
<1> SUFFICES ASSUME Staged, Vouched, OracleMoves PROVE Vouched'
  OBVIOUS
<1>1. PICK outcome \in [Movements -> Ran] :
         evidence' = evidence \union {Plain(MovementCase("oracle", m), outcome[m]) : m \in Movements}
  BY DEF OracleMoves, Add
<1> DEFINE F == {Plain(MovementCase("oracle", m), outcome[m]) : m \in Movements}
<1>2. \A r \in F : Fitting(r)
  BY MoveFits
<1>3. /\ phase = "oracle moves" /\ phase' = "oracle" /\ provider' = provider /\ certificates' = certificates
      /\ evidence' = evidence \union F
  BY <1>1 DEF OracleMoves
<1> HIDE DEF F
<1>4. phase' \notin {"authorize", "reported", "refused"} /\ phase \in {"oracle moves", "oracle"} /\ phase' \in {"oracle moves", "oracle"}
  BY <1>3
<1>. QED
  BY <1>2, <1>3, <1>4, GrownVouched

LEMMA OraclePlanVouched == Staged /\ Vouched /\ OraclePlan => Vouched'
<1> SUFFICES ASSUME Staged, Vouched, OraclePlan PROVE Vouched'
  OBVIOUS
<1> DEFINE p == OraclePlans[at]
<1>0. p \in Declared(OraclePlans)
  <2>1. at \in 1 .. Len(OraclePlans)
    BY PlansAreSequences DEF OraclePlan, Staged, Progress
  <2>. QED
    BY <2>1, PlansAreSequences DEF Declared
<1>1. /\ phase = "oracle" /\ phase' = "oracle" /\ provider' = provider /\ certificates' = certificates
  BY DEF OraclePlan
<1>2. phase' \notin {"authorize", "reported", "refused"} /\ phase \in {"oracle moves", "oracle"} /\ phase' \in {"oracle moves", "oracle"}
  BY <1>1
<1>3. CASE Deferred(p)
  <2> DEFINE F == {Plain(DeferredCase("oracle", p), "deferred")}
  <2>1. evidence' = evidence \union F
    BY <1>3 DEF OraclePlan, Add
  <2>2. \A r \in F : Fitting(r)
    BY OracleDeferredFits
  <2> HIDE DEF p, F
  <2>. QED
    BY <1>1, <1>2, <2>1, <2>2, GrownVouched
<1>4. CASE ~Deferred(p)
  <2>1. PICK outcome \in [Catalog(p) -> Ran] :
           evidence' = evidence \union {Plain(Requirement("oracle", p.operation, p, c[1], c[2]), outcome[c]) : c \in Catalog(p)}
    BY <1>4 DEF OraclePlan, Add
  <2> HIDE DEF p
  <2> DEFINE F == {Plain(Requirement("oracle", p.operation, p, c[1], c[2]), outcome[c]) : c \in Catalog(p)}
  <2>2. \A r \in F : Fitting(r)
    BY <1>0, OracleCaseFits
  <2>3. evidence' = evidence \union F
    BY <2>1
  <2> HIDE DEF F
  <2>. QED
    BY <1>1, <1>2, <2>2, <2>3, GrownVouched
<1>. QED
  BY <1>3, <1>4

LEMMA StampedSound ==
    ASSUME Staged, NEW Q, Answers(evidence, Q), \A r \in evidence : Fitting(r),
           OracleRequirements \subseteq Q, Q \subseteq OracleRequirements \union TargetRequirements
    PROVE  /\ \A r \in Stamped(evidence) : Fitting(r)
           /\ BoundTo(Stamped(evidence)) /\ Answers(Stamped(evidence), Q)
           /\ RestoredFrom(Stamped(evidence)) = RestoredFrom(evidence)
  BY StampedFits, StampedAnswers, StampedRestored DEF Answers

LEMMA CertifyVouched == Staged /\ Vouched /\ Certify => Vouched'
<1> SUFFICES ASSUME Staged, Vouched, Certify PROVE Vouched'
  OBVIOUS
<1>1. /\ phase = "oracle" /\ phase' = "authorize" /\ provider' = provider
      /\ evidence' = Stamped(evidence) /\ certificates' = Certified(evidence)
  BY DEF Certify
<1>2. Answers(evidence, OracleRequirements)
  <2>1. at = Len(OraclePlans) + 1
    BY <1>1, PlansAreSequences DEF Certify, Staged, Progress
  <2>2. Required = OracleRequirements
    BY <1>1, <2>1, UntilEnds DEF Required
  <2>. QED
    BY <2>2 DEF Staged
<1>3. certificates = {} /\ \A r \in evidence : Fitting(r)
  BY <1>1 DEF Vouched
<1>4. /\ \A r \in Stamped(evidence) : Fitting(r)
      /\ BoundTo(Stamped(evidence)) /\ RestoredFrom(Stamped(evidence)) = RestoredFrom(evidence)
  BY <1>2, <1>3, StampedSound
<1>5. Certified(evidence) = RestoredFrom(evidence)
  BY <1>2, CertifiedAre
<1>6. \A r \in evidence' : Fitting(r)'
  BY <1>1, <1>3, <1>4, FittingKept
<1> PICK E : E = Stamped(evidence)
  OBVIOUS
<1>7. evidence' = E /\ certificates' = RestoredFrom(E) /\ BoundTo(E)
  BY <1>1, <1>4, <1>5
<1>8. Restored(evidence)' /\ BoundTo(evidence)'
  BY <1>7 DEF Restored, BoundTo
<1>. QED
  BY <1>1, <1>6, <1>8 DEF Vouched

(* A step that only moves on from there.                                   *)
LEMMA MovedVouched ==
    ASSUME Vouched, UNCHANGED <<provider, evidence, certificates>>,
           phase \notin {"oracle moves", "oracle"}, phase' \notin {"oracle moves", "oracle", "authorize", "reported", "refused"}
    PROVE  Vouched'
<1>1. \A r \in evidence' : Fitting(r)'
  BY FittingKept DEF Vouched
<1>2. Restored(evidence)'
  BY DEF Vouched, Restored, RestoredFrom
<1>. QED
  BY <1>1, <1>2 DEF Vouched

LEMMA BlockTargetVouched == Staged /\ Vouched /\ BlockTarget => Vouched'
<1> SUFFICES ASSUME Staged, Vouched, BlockTarget PROVE Vouched'
  OBVIOUS
<1> DEFINE F == {Blocked(q) : q \in TargetRequirements}
<1>1. \A r \in F : Fitting(r) /\ r.of.stage = "target"
  BY BlockedFits, StageTwo
<1>2. /\ phase = "authorize" /\ phase' = "report" /\ provider' = provider /\ certificates' = certificates
      /\ evidence' = evidence \union F
  BY DEF BlockTarget, Add
<1> HIDE DEF F
<1>3. /\ phase' \notin {"authorize", "reported", "refused"}
      /\ phase \notin {"oracle moves", "oracle"} /\ phase' \notin {"oracle moves", "oracle"}
  BY <1>2
<1>. QED
  BY <1>1, <1>2, <1>3, GrownVouched

LEMMA TargetMovesVouched == Staged /\ Vouched /\ TargetMoves => Vouched'
<1> SUFFICES ASSUME Staged, Vouched, TargetMoves PROVE Vouched'
  OBVIOUS
<1>1. PICK outcome \in [Movements -> Ran] :
         evidence' = evidence \union {Plain(MovementCase("target", m), outcome[m]) : m \in Movements}
  BY DEF TargetMoves, Add
<1> DEFINE F == {Plain(MovementCase("target", m), outcome[m]) : m \in Movements}
<1>2. \A r \in F : Fitting(r) /\ r.of.stage = "target"
  BY MoveFits
<1>3. /\ phase = "target moves" /\ phase' = "target" /\ provider' = provider /\ certificates' = certificates
      /\ evidence' = evidence \union F
  BY <1>1 DEF TargetMoves
<1> HIDE DEF F
<1>4. /\ phase' \notin {"authorize", "reported", "refused"}
      /\ phase \notin {"oracle moves", "oracle"} /\ phase' \notin {"oracle moves", "oracle"}
  BY <1>3
<1>. QED
  BY <1>2, <1>3, <1>4, GrownVouched

(* The plan the target is at.                                              *)
LEMMA TargetVouched ==
    ASSUME Staged, Vouched, AtTarget, TargetDone, NEW F, evidence' = evidence \union F,
           \A r \in F : Fitting(r) /\ r.of.stage = "target"
    PROVE  Vouched'
<1>1. phase = "target" /\ phase' = "target" /\ provider' = provider /\ certificates' = certificates
  BY DEF AtTarget, TargetDone
<1>2. /\ phase' \notin {"authorize", "reported", "refused"}
      /\ phase \notin {"oracle moves", "oracle"} /\ phase' \notin {"oracle moves", "oracle"}
  BY <1>1
<1>. QED
  BY <1>1, <1>2, GrownVouched

LEMMA TargetWithheldVouched == Staged /\ Vouched /\ TargetWithheld => Vouched'
<1> SUFFICES ASSUME Staged, Vouched, TargetWithheld PROVE Vouched'
  OBVIOUS
<1> DEFINE F == {Blocked(q) : q \in Tried}
<1>1. \A r \in F : Fitting(r) /\ r.of.stage = "target"
  BY BlockedFits, PlanRequirementFields DEF Tried
<1>2. AtTarget /\ TargetDone /\ evidence' = evidence \union F
  BY DEF TargetWithheld, Add
<1> HIDE DEF F
<1>. QED
  BY <1>1, <1>2, TargetVouched

LEMMA Attempted ==
    ASSUME Staged, AtTarget
    PROVE  TargetPlans[at] \in Declared(TargetPlans)
<1>1. at \in 1 .. Len(TargetPlans)
  BY PlansAreSequences DEF AtTarget, Staged, Progress
<1>. QED
  BY <1>1, PlansAreSequences DEF Declared

LEMMA RanVouched ==
    ASSUME Staged, Vouched, AtTarget, TargetDone, NEW p \in Declared(TargetPlans), ~Deferred(p),
           NEW cert \in Authority(p.operation), NEW outcome, NEW receipt,
           \A c \in TargetCatalog(p) : outcome[c] \in Ran,
           \A c \in TargetCatalog(p) :
              LET q == Requirement("target", p.operation, p, c[1], c[2])
              IN  /\ receipt[c] # Absent => receipt[c] = Receipt(q)
                  /\ outcome[c] \in {"passed", "failed"} => receipt[c] # Absent \/ Receipt(q) \in Installed,
           evidence' = evidence \union Results(p, cert, outcome, receipt)
    PROVE  Vouched'
<1> DEFINE F == Results(p, cert, outcome, receipt)
<1>1. Answers(evidence, Required) /\ Required \subseteq OracleRequirements \union TargetRequirements
  BY RequiredIs DEF Staged
<1>2. Restored(evidence) /\ \A r \in evidence : Fitting(r)
  BY DEF AtTarget, Vouched
<1>3. ASSUME NEW r \in F PROVE Fitting(r) /\ r.of.stage = "target"
  <2>1. PICK c \in TargetCatalog(p) : r = Record(Requirement("target", p.operation, p, c[1], c[2]), outcome[c], receipt[c], cert)
    BY DEF Results
  <2>2. Fitting(r)
    BY <1>1, <1>2, <2>1, ResultFits
  <2>3. r.of.stage = "target"
    BY <2>1, RecordFields, RequirementFields
  <2>. QED
    BY <2>2, <2>3
<1> HIDE DEF F
<1>. QED
  BY <1>3, TargetVouched DEF F

LEMMA CompiledTargetRunsVouched == Staged /\ Vouched /\ CompiledTargetRuns => Vouched'
<1> SUFFICES ASSUME Staged, Vouched, CompiledTargetRuns PROVE Vouched'
  OBVIOUS
<1> PICK p : p = TargetPlans[at]
  OBVIOUS
<1>1. AtTarget /\ TargetDone /\ provider = "compiled-executable" /\ ~Deferred(p)
  BY DEF CompiledTargetRuns
<1>2. p \in Declared(TargetPlans) /\ p.operation \in Operations(OraclePlans)
  BY <1>1, Attempted DEF TargetPlans, Declared, Operations
<1>3. PICK cert \in Authority(p.operation), outcome \in [TargetCatalog(p) -> Ran] :
         evidence' = evidence \union Results(p, cert, outcome, [c \in TargetCatalog(p) |-> Absent])
  BY DEF CompiledTargetRuns, Add
<1> DEFINE receipt == [c \in TargetCatalog(p) |-> Absent]
<1>4. \A c \in TargetCatalog(p) : receipt[c] = Absent /\ outcome[c] \in Ran
  OBVIOUS
<1>5. \A c \in TargetCatalog(p) : Receipt(Requirement("target", p.operation, p, c[1], c[2])) \in Installed
  BY <1>1, <1>2, ReceiptsExist, RequirementFields
<1>6. evidence' = evidence \union Results(p, cert, outcome, receipt)
  BY <1>3
<1> HIDE DEF receipt
<1>. QED
  BY <1>1, <1>2, <1>4, <1>5, <1>6, RanVouched

LEMMA JitTargetRunsVouched == Staged /\ Vouched /\ JitTargetRuns => Vouched'
<1> SUFFICES ASSUME Staged, Vouched, JitTargetRuns PROVE Vouched'
  OBVIOUS
<1> PICK p : p = TargetPlans[at]
  OBVIOUS
<1> DEFINE its == Receipt([stage |-> "target", kernel |-> p.operation])
<1>1. AtTarget /\ TargetDone /\ ~Deferred(p)
  BY DEF JitTargetRuns
<1>2. p \in Declared(TargetPlans) /\ p.operation \in Operations(OraclePlans) \union Operations(JitPlans)
  BY <1>1, Attempted, PlansOfAKind
<1>3. PICK cert \in Authority(p.operation), outcome \in [TargetCatalog(p) -> Ran], launched \in SUBSET TargetCatalog(p) :
         /\ \A c \in TargetCatalog(p) \ launched : outcome[c] = "error"
         /\ evidence' = evidence \union Results(p, cert, outcome, [c \in TargetCatalog(p) |-> IF c \in launched THEN its ELSE Absent])
  BY DEF JitTargetRuns, Add
<1> DEFINE receipt == [c \in TargetCatalog(p) |-> IF c \in launched THEN its ELSE Absent]
<1>4. its # Absent
  BY <1>2, ReceiptsExist
<1>5. \A c \in TargetCatalog(p) : Receipt(Requirement("target", p.operation, p, c[1], c[2])) = its
  BY RequirementFields DEF Receipt
<1> HIDE DEF its
<1>6. \A c \in TargetCatalog(p) : /\ outcome[c] \in Ran
                                  /\ receipt[c] # Absent => receipt[c] = its
                                  /\ outcome[c] \in {"passed", "failed"} => receipt[c] # Absent
  BY <1>3, <1>4
<1>7. evidence' = evidence \union Results(p, cert, outcome, receipt)
  BY <1>3
<1> HIDE DEF receipt
<1>. QED
  BY <1>1, <1>2, <1>5, <1>6, <1>7, RanVouched

LEMMA TargetFailsVouched == Staged /\ Vouched /\ TargetFails => Vouched'
<1> SUFFICES ASSUME Staged, Vouched, TargetFails PROVE Vouched'
  OBVIOUS
<1> PICK p : p = TargetPlans[at]
  OBVIOUS
<1>1. AtTarget /\ TargetDone /\ ~Deferred(p)
  BY DEF TargetFails
<1>2. p \in Declared(TargetPlans)
  BY <1>1, Attempted
<1>3. PICK cert \in Authority(p.operation) : evidence' = evidence \union {Record(q, "error", Absent, cert) : q \in Tried}
  BY DEF TargetFails, Add
<1>4. Tried = {Requirement("target", p.operation, p, c[1], c[2]) : c \in TargetCatalog(p)}
  BY <1>1 DEF Tried, PlanRequirements
<1>5. Answers(evidence, Required) /\ Required \subseteq OracleRequirements \union TargetRequirements
  BY RequiredIs DEF Staged
<1>6. Restored(evidence) /\ \A r \in evidence : Fitting(r)
  BY <1>1 DEF AtTarget, Vouched
<1> DEFINE F == {Record(q, "error", Absent, cert) : q \in Tried}
<1>7. ASSUME NEW r \in F PROVE Fitting(r) /\ r.of.stage = "target"
  <2>1. PICK c \in TargetCatalog(p) : r = Record(Requirement("target", p.operation, p, c[1], c[2]), "error", Absent, cert)
    BY <1>4
  <2>2. "error" \in Ran /\ "error" \notin {"passed", "failed"}
    BY DEF Ran
  <2>3. Fitting(r)
    BY <1>1, <1>2, <1>5, <1>6, <2>1, <2>2, ResultFits
  <2>4. r.of.stage = "target"
    BY <2>1, RecordFields, RequirementFields
  <2>. QED
    BY <2>3, <2>4
<1>8. evidence' = evidence \union F
  BY <1>3
<1> HIDE DEF F
<1>. QED
  BY <1>1, <1>7, <1>8, TargetVouched

(* The report is of evidence that is whole.                                *)
LEMMA SoundReport ==
    ASSUME NEW E, Sound(E)
    PROVE  Valid(FullReport(E))
<1>1. \A r \in E : r.receipt # Absent => r.receipt \in ReceiptBundle(E)
  BY DEF ReceiptBundle
<1>2. \A r \in E : r.consumed # Absent => r.consumed \in certificates
  BY DEF Sound, Fitting
<1>3. \A c \in certificates : Agrees(c, E)
  BY AgreesFull
<1>. QED
  BY <1>1, <1>2, <1>3, PartsValid DEF FullReport

LEMMA MakeReportVouched == Staged /\ Vouched /\ MakeReport => Vouched'
<1> SUFFICES ASSUME Staged, Vouched, MakeReport PROVE Vouched'
  OBVIOUS
<1>1. /\ phase = "report" /\ provider' = provider /\ certificates' = certificates
      /\ evidence' = Stamped(evidence)
      /\ phase' = IF Valid(FullReport(Stamped(evidence))) THEN "reported" ELSE "refused"
  BY DEF MakeReport
<1>2. /\ Answers(evidence, Required) /\ OracleRequirements \subseteq Required
      /\ Required \subseteq OracleRequirements \union TargetRequirements
  BY <1>1, RequiredIs DEF Staged
<1>3. Restored(evidence) /\ \A r \in evidence : Fitting(r)
  BY <1>1 DEF Vouched
<1>4. /\ \A r \in Stamped(evidence) : Fitting(r)
      /\ BoundTo(Stamped(evidence)) /\ Answers(Stamped(evidence), Required)
      /\ RestoredFrom(Stamped(evidence)) = RestoredFrom(evidence)
  BY <1>2, <1>3, StampedSound
<1> PICK E : E = Stamped(evidence)
  OBVIOUS
<1>5. Restored(E)
  BY <1>3, <1>4 DEF Restored
<1>6. Sound(E)
  BY <1>2, <1>4, <1>5 DEF Sound
<1>7. phase' = "reported"
  BY <1>1, <1>6, SoundReport
<1>8. \A r \in evidence' : Fitting(r)'
  BY <1>1, <1>4, FittingKept
<1>9. evidence' = E /\ certificates' = RestoredFrom(E) /\ BoundTo(E)
  BY <1>1, <1>4, <1>5 DEF Restored
<1>10. Restored(evidence)' /\ BoundTo(evidence)'
  BY <1>9 DEF Restored, BoundTo
<1>. QED
  BY <1>7, <1>8, <1>10 DEF Vouched

LEMMA VouchedInvariant == StagesSpec => []Vouched
<1>1. StagesInit => Vouched
  BY DEF StagesInit, Vouched
<1>2. Staged /\ Vouched /\ [StagesNext]_stagesVars => Vouched'
  <2>1. ASSUME Staged, Vouched, UNCHANGED stagesVars PROVE Vouched'
    <3>1. \A r \in evidence' : Fitting(r)'
      BY <2>1, FittingKept DEF Vouched, stagesVars
    <3>2. evidence' = evidence /\ certificates' = certificates /\ phase' = phase
      BY <2>1 DEF stagesVars
    <3>3. (Restored(evidence)' <=> Restored(evidence)) /\ (BoundTo(evidence)' <=> BoundTo(evidence))
      BY <3>2 DEF Restored, RestoredFrom, BoundTo
    <3>. QED
      BY <2>1, <3>1, <3>2, <3>3 DEF Vouched
  <2>2. ASSUME Staged, Vouched, Authorize \/ TargetEnds PROVE Vouched'
    BY <2>2, MovedVouched DEF Authorize, TargetEnds
  <2>. QED
    BY <2>1, <2>2, OracleMovesVouched, OraclePlanVouched, CertifyVouched, BlockTargetVouched, TargetMovesVouched,
       TargetWithheldVouched, CompiledTargetRunsVouched, JitTargetRunsVouched, TargetFailsVouched, MakeReportVouched
       DEF StagesNext
<1>. QED
  BY <1>1, <1>2, StagedInvariant, PTL DEF StagesSpec

-----------------------------------------------------------------------------
(* A view of whole evidence is a report exactly if it agrees with the      *)
(* certificates its records consumed.                                      *)
LEMMA ViewsHold ==
    ASSUME Sound(evidence), NEW R, R \subseteq evidence
    PROVE  ViewHolds(R) <=> \A c \in certificates : (\E r \in R : r.consumed = c) => Agrees(c, R)
<1> DEFINE T == {x \in ReceiptBundle(evidence) : \E r \in R : r.receipt = x}
           C == {c \in certificates : \E r \in R : r.consumed = c}
<1>1. View(FullReport(evidence), R) = ReportOf(R, T, C)
  BY DEF View, FullReport, ReportOf
<1>2. \A r \in R : r.receipt # Absent => r.receipt \in T
  BY DEF ReceiptBundle
<1>3. \A r \in R : r.consumed # Absent => r.consumed \in C
  BY DEF Sound, Fitting
<1>4. T \subseteq ReceiptBundle(evidence) /\ C \subseteq certificates
  OBVIOUS
<1>5. (\A c \in C : Agrees(c, R)) <=> \A c \in certificates : (\E r \in R : r.consumed = c) => Agrees(c, R)
  OBVIOUS
<1> HIDE DEF T, C
<1>6. (\A c \in C : Agrees(c, R)) => Valid(ReportOf(R, T, C))
  BY <1>2, <1>3, <1>4, PartsValid
<1>7. Valid(ReportOf(R, T, C)) => \A c \in C : Agrees(c, R)
  BY DEF Valid, ReportOf
<1>. QED
  BY <1>1, <1>5, <1>6, <1>7 DEF ViewHolds

LEMMA SoundEvidence ==
    ASSUME Staged, Vouched, phase \in {"authorize", "reported"}
    PROVE  Sound(evidence)
<1>1. Answers(evidence, Required) /\ OracleRequirements \subseteq Required /\ Required \subseteq OracleRequirements \union TargetRequirements
  BY RequiredIs DEF Staged
<1>. QED
  BY <1>1 DEF Vouched, Sound

LEMMA ConsumedExists ==
    ASSUME NEW E, Sound(E), NEW c \in certificates
    PROVE  c # Absent
  BY CertificatesExist DEF Sound, Restored

LEMMA Accepted == Staged /\ Vouched /\ phase = "authorize" => OracleAccepted
<1> SUFFICES ASSUME Staged, Vouched, phase = "authorize" PROVE OracleAccepted
  OBVIOUS
<1>1. Sound(evidence)
  BY SoundEvidence
<1>2. Answers(evidence, OracleRequirements)
  BY DEF Staged, Required
<1>3. Oracle = evidence
  BY <1>2, StageOne DEF Oracle, Answers
<1>4. Valid(FullReport(Oracle))
  BY <1>1, <1>3, SoundReport
<1>5. {r.of : r \in Oracle} = OracleRequirements
  BY <1>2, <1>3 DEF Answers
<1>6. certificates = {Certificate(k, RequiredClasses(k), OracleRecords(k, Oracle)) :
                         k \in {j \in Certifiable : \A r \in OracleRecords(j, Oracle) :
                                   <<r.of.plan, r.of.class, r.of.label>> \in RequiredCases(j) => r.outcome = "passed"}}
  BY <1>1, <1>3 DEF Sound, Restored, RestoredFrom, Passes
<1>. QED
  BY <1>4, <1>5, <1>6 DEF OracleAccepted

LEMMA ReportedViews ==
    ASSUME Staged, Vouched, phase = "reported"
    PROVE  /\ ViewHolds(WithOutcome(Problems))
           /\ ViewHolds(Oracle) /\ ViewHolds(evidence \ Oracle)
           /\ \A k \in {r.of.kernel : r \in evidence} : ViewHolds({r \in evidence : r.of.kernel = k})
<1>1. Sound(evidence)
  BY SoundEvidence
<1>2. ViewHolds(WithOutcome(Problems))
  <2> DEFINE R == WithOutcome(Problems)
  <2>1. ASSUME NEW c \in certificates PROVE OracleRecords(c.kernel, R) = {}
    <3>1. \A r \in OracleRecords(c.kernel, evidence) : r.outcome \in {"deferred", "passed"}
      BY <1>1, PassedRecords
    <3>2. \A r \in OracleRecords(c.kernel, R) : r \in OracleRecords(c.kernel, evidence) /\ r.outcome \in Problems
      BY DEF OracleRecords, WithOutcome
    <3>. QED
      BY <3>1, <3>2 DEF Problems
  <2>2. R \subseteq evidence
    BY DEF WithOutcome
  <2> HIDE DEF R
  <2>3. ViewHolds(R)
    BY <1>1, <2>1, <2>2, AgreesNone, ViewsHold
  <2>. QED
    BY <2>3 DEF R
<1>3. ViewHolds(Oracle)
  <2>1. Oracle \subseteq evidence
    BY DEF Oracle
  <2>2. \A r \in Oracle : r.consumed = Absent
    BY <1>1 DEF Oracle, Sound, Fitting
  <2>. QED
    BY <1>1, <2>1, <2>2, ConsumedExists, ViewsHold
<1>4. ViewHolds(evidence \ Oracle)
  <2> DEFINE R == evidence \ Oracle
  <2>1. \A c \in certificates : OracleRecords(c.kernel, R) = {}
    BY DEF OracleRecords, Oracle
  <2>2. R \subseteq evidence
    OBVIOUS
  <2> HIDE DEF R
  <2>3. ViewHolds(R)
    BY <1>1, <2>1, <2>2, AgreesNone, ViewsHold
  <2>. QED
    BY <2>3 DEF R
<1>5. ASSUME NEW k PROVE ViewHolds({r \in evidence : r.of.kernel = k})
  <2> DEFINE R == {r \in evidence : r.of.kernel = k}
  <2>1. ASSUME NEW c \in certificates, NEW r \in R, r.consumed = c PROVE Agrees(c, R)
    <3>1. c.kernel = k
      BY <1>1, <2>1, ConsumedExists DEF Sound, Fitting
    <3>2. OracleRecords(c.kernel, R) = OracleRecords(c.kernel, evidence)
      BY <3>1 DEF OracleRecords
    <3> HIDE DEF R
    <3>. QED
      BY <1>1, <3>2, AgreesFull
  <2>2. R \subseteq evidence
    OBVIOUS
  <2> HIDE DEF R
  <2>3. ViewHolds(R)
    BY <1>1, <2>1, <2>2, ViewsHold
  <2>. QED
    BY <2>3 DEF R
<1>. QED
  BY <1>2, <1>3, <1>4, <1>5

LEMMA PassedViewHolds == Staged /\ Vouched => PassedView
<1> SUFFICES ASSUME Staged, Vouched, phase = "reported"
             PROVE  ViewHolds(WithOutcome({"passed"})) <=>
                        ~ \E r \in WithOutcome({"passed"}), p \in Declared(OraclePlans) :
                              r.consumed # Absent /\ p.operation = r.of.kernel /\ Deferred(p)
  BY DEF PassedView
<1>1. Sound(evidence)
  BY SoundEvidence
<1> DEFINE R == PassedOf(evidence)
<1>2. R = WithOutcome({"passed"}) /\ R \subseteq evidence
  BY DEF PassedOf, WithOutcome
<1>3. \A c \in certificates : Agrees(c, R) <=> ~ \E p \in Declared(OraclePlans) : Deferred(p) /\ p.operation = c.kernel
  BY <1>1, AgreesPassed
<1>4. \A r \in R : r.consumed # Absent => r.consumed \in certificates /\ r.consumed.kernel = r.of.kernel
  BY <1>1, <1>2 DEF Sound, Fitting
<1>5. \A c \in certificates : c # Absent
  BY <1>1, ConsumedExists
<1> HIDE DEF R
<1>6. ViewHolds(R) <=> \A c \in certificates : (\E r \in R : r.consumed = c) => Agrees(c, R)
  BY <1>1, <1>2, ViewsHold
<1>7. ViewHolds(R) <=> ~ \E r \in R, p \in Declared(OraclePlans) :
                            r.consumed # Absent /\ p.operation = r.of.kernel /\ Deferred(p)
  BY <1>3, <1>4, <1>5, <1>6
<1>. QED
  BY <1>2, <1>7

(* For any plans, movements and witnesses, whatever passes, fails or is    *)
(* compiled when: what the target ran was authorized, a report answers     *)
(* each requirement once, no evidence the stages can gather is refused by  *)
(* its own report, stage two accepts what stage one certified, and the     *)
(* views by stage and by kernel and that of the problems are reports.      *)
THEOREM EvidenceIsSound == StagesSpec => []EvidenceSound
<1>1. Vouched /\ Staged => ReportsHold
  BY Accepted, ReportedViews DEF ReportsHold, Vouched
<1>2. RunsAuthorized /\ EveryCaseAnswered /\ ReportsHold => EvidenceSound
  BY DEF EvidenceSound
<1>. QED
  BY <1>1, <1>2, StagedInvariant, VouchedInvariant, RunsStayAuthorized, EveryCaseIsAnswered, PTL

(* The view of what passed is a report exactly when no kernel it shows the *)
(* authority of has a plan that was deferred: Certificate and              *)
(* VerificationReport (verification/model.py) refuse it otherwise.         *)
THEOREM PassedViewIsExact == StagesSpec => []PassedView
  BY PassedViewHolds, StagedInvariant, VouchedInvariant, PTL
-----------------------------------------------------------------------------
(* The place of a stage in its plans.                                      *)
Within == /\ provider \in {"compiled-executable", "jit-specialization"}
          /\ at \in 1 .. Len(OraclePlans) + Len(JitPlans) + 1

(* The types: the phases, a place within the plans, records of what is     *)
(* required and certificates of kernels that can have one.                 *)
THEOREM StagesTyped == StagesSpec => []StagesTypeOK
<1>1. Len(OraclePlans) \in Nat /\ Len(JitPlans) \in Nat /\ Len(TargetPlans) \in Nat
      /\ DOMAIN OraclePlans = 1 .. Len(OraclePlans) /\ DOMAIN TargetPlans = 1 .. Len(TargetPlans)
  BY StagesAssumption DEF TargetPlans
<1>l. Len(OraclePlans) \in Nat /\ Len(JitPlans) \in Nat
  BY <1>1
<1>2. StagesInit => Within
  <2>1. 1 \in 1 .. Len(OraclePlans) + Len(JitPlans) + 1
    BY <1>l
  <2> QED BY <2>1, Zenon DEF StagesInit, Within
<1>3. Within /\ Staged /\ [StagesNext]_stagesVars => Within'
  <2> SUFFICES ASSUME Within, Staged, [StagesNext]_stagesVars PROVE Within'
    OBVIOUS
  <2>1. provider' = provider
    BY DEF StagesNext, stagesVars, OracleMoves, OraclePlan, Certify, Authorize, BlockTarget, TargetMoves, TargetDone,
           TargetWithheld, CompiledTargetRuns, JitTargetRuns, TargetFails, TargetEnds, MakeReport
  <2>2. \/ at' = at \/ at' = 1
        \/ at' = at + 1 /\ (at <= Len(OraclePlans) \/ at <= Len(TargetPlans))
    BY DEF StagesNext, stagesVars, OracleMoves, OraclePlan, Certify, Authorize, BlockTarget, TargetMoves, TargetDone, AtTarget,
           TargetWithheld, CompiledTargetRuns, JitTargetRuns, TargetFails, TargetEnds, MakeReport
  <2>3. Len(TargetPlans) = Len(OraclePlans) \/ Len(TargetPlans) = Len(JitPlans)
    BY DEF TargetPlans
  <2>4. at \in 1 .. Len(OraclePlans) + Len(JitPlans) + 1
    BY DEF Within
  <2>5. at' \in 1 .. Len(OraclePlans) + Len(JitPlans) + 1
    <3>1. CASE at' = at \/ at' = 1
      BY <1>l, <2>4, <3>1
    <3>2. CASE at' = at + 1 /\ (at <= Len(OraclePlans) \/ at <= Len(JitPlans))
      BY <1>l, <2>4, <3>2
    <3> QED BY <2>2, <2>3, <3>1, <3>2
  <2> QED BY <2>1, <2>5 DEF Within
<1>4. Within /\ Staged /\ Vouched => StagesTypeOK
  <2> SUFFICES ASSUME Within, Staged, Vouched PROVE StagesTypeOK
    OBVIOUS
  <2>1. Progress /\ {r.of : r \in evidence} = Required
    BY DEF Staged, Answers
  <2>2. ASSUME phase = "oracle" PROVE OracleUntil(at) \subseteq OracleRequirements
    BY <1>1, <2>1, <2>2 DEF Progress, OracleUntil, OracleRequirements, Declared
  <2>3. ASSUME phase = "target" PROVE TargetUntil(at) \subseteq TargetRequirements
    BY <1>1, <2>1, <2>3 DEF Progress, TargetUntil, TargetRequirements, Declared
  <2>4. Moves("oracle") \subseteq OracleRequirements /\ Moves("target") \subseteq TargetRequirements
    BY DEF Moves, OracleRequirements, TargetRequirements
  <2>5. Required \subseteq OracleRequirements \union TargetRequirements
    BY <2>1, <2>2, <2>3, <2>4 DEF Required, Progress
  <2>6. \A r \in evidence : WellFormed(r)
    BY DEF Vouched, Fitting, WellFormed
  <2>7. \A c \in certificates : c.kernel \in Certifiable
    <3>1. certificates = {} \/ certificates = RestoredFrom(evidence)
      BY DEF Vouched, Restored
    <3>2. ASSUME NEW c \in RestoredFrom(evidence) PROVE c.kernel \in Certifiable
      <4>1. PICK k \in Certifiable : c = Certificate(k, RequiredClasses(k), OracleRecords(k, evidence))
        BY <3>2 DEF RestoredFrom
      <4> QED BY <4>1 DEF Certificate
    <3> QED BY <3>1, <3>2
  <2> QED BY <2>1, <2>5, <2>6, <2>7 DEF StagesTypeOK, Progress, Within
<1> QED BY <1>2, <1>3, <1>4, StagedInvariant, VouchedInvariant, PTL DEF StagesSpec
=============================================================================
