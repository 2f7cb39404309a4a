---------------------------- MODULE ManagedServers ----------------------------
(***************************************************************************)
(* The servers one process runs for its evidence stores                    *)
(* (verification/store/server.py): a registry with one server for each     *)
(* data directory, acquisitions that start a server on demand, and         *)
(* shutdowns that run beside them.                                         *)
(*                                                                         *)
(* The registry is guarded by one condition, _servers_lock, whose blocks   *)
(* are short and are single steps here.  Starting and stopping a process   *)
(* takes long and is guarded by the lock of the server object.  A process  *)
(* can exit by itself at any time.  A server whose termination raises has  *)
(* let go of a process that may still run.                                 *)
(***************************************************************************)
EXTENDS Naturals, Sequences

CONSTANTS Dir,
          Acquisition,   \* calls of acquire_server
          Shutdown,      \* calls of shutdown_servers
          Attempts,      \* _ACQUISITION_ATTEMPTS
          Launches       \* _STARTUP_ATTEMPTS

ASSUME ServersAssumption == Attempts \in Nat \ {0} /\ Launches \in Nat \ {0}

VARIABLES
    registry,    \* _servers: for each directory the number of a server, or 0
    reserved,    \* _stopping
    server,      \* every ManagedDoltServer made so far
    acquiring,   \* the acquisitions
    stopping     \* the shutdowns

serversVars == <<registry, reserved, server, acquiring, stopping>>
-----------------------------------------------------------------------------
Unserved == [dir |-> CHOOSE d \in Dir : TRUE, op |-> "idle", server |-> 0, attempt |-> 0, launch |-> 0]
NotStopping == [op |-> "idle", left |-> {}, server |-> 0]

ServersInit == /\ registry = [d \in Dir |-> 0] /\ reserved = {} /\ server = <<>>
               /\ acquiring = [a \in Acquisition |-> Unserved]
               /\ stopping = [k \in Shutdown |-> NotStopping]

Made == 1 .. Len(server)
Running(s) == server[s].running
Mine(a) == acquiring[a].server
DirOf(a) == acquiring[a].dir

(* The lock of a server: held over a launch, and taken for a short while   *)
(* by whoever finds it free.                                               *)
LockFree(s) == ~server[s].locked

(* notify_all: who waits for a directory looks again.                      *)
Notified(f) == [a \in Acquisition |-> IF f[a].op = "waits" THEN [f[a] EXCEPT !.op = "looks"] ELSE f[a]]

(* A call that is over keeps nothing but its directory and its outcome.    *)
Ended(f, a, op) == [f EXCEPT ![a] = [Unserved EXCEPT !.dir = f[a].dir, !.op = op]]

Advances(a, op) == acquiring' = [acquiring EXCEPT ![a].op = op]

(* _terminate, as a shutdown and a failed start do it: the server is       *)
(* retired and lets go of its process before it stops it.  When stopping   *)
(* raises, because the process does not end in time or the wait is         *)
(* interrupted, the process is a stray that nothing refers to.             *)
Terminated(s, raises) ==
    [server EXCEPT ![s].retired = TRUE, ![s].running = FALSE, ![s].locked = FALSE,
                   ![s].stray = @ \/ (raises /\ Running(s))]
-----------------------------------------------------------------------------
CallAcquire(a, d) ==
    /\ acquiring[a].op = "idle"
    /\ acquiring' = [acquiring EXCEPT ![a] = [@ EXCEPT !.dir = d, !.op = "looks", !.attempt = 1]]
    /\ UNCHANGED <<registry, reserved, server, stopping>>

(* A directory that is being stopped is waited for; otherwise its server   *)
(* is taken, or made when there is none or it is retired.                  *)
Look(a) ==
    LET d == DirOf(a)
        kept == registry[d] # 0 /\ ~server[registry[d]].retired
        s == IF kept THEN registry[d] ELSE Len(server) + 1
    IN /\ acquiring[a].op = "looks"
       /\ IF d \in reserved
          THEN Advances(a, "waits") /\ UNCHANGED <<registry, server>>
          ELSE /\ server' = IF kept THEN server
                            ELSE Append(server, [dir |-> d, retired |-> FALSE, running |-> FALSE, locked |-> FALSE,
                                                   stray |-> FALSE])
               /\ registry' = [registry EXCEPT ![d] = s]
               /\ acquiring' = [acquiring EXCEPT ![a].op = "starts", ![a].server = s, ![a].launch = 1]
       /\ UNCHANGED <<reserved, stopping>>

(* _RELEASE_TIMEOUT_SECONDS have passed.                                   *)
TimeOut(a) == /\ acquiring[a].op = "waits" /\ DirOf(a) \in reserved
              /\ acquiring' = Ended(acquiring, a, "raised")
              /\ UNCHANGED <<registry, reserved, server, stopping>>

(* ensure_started, with the lock of the server: it is retired, it runs, or *)
(* it is launched.                                                         *)
EnsureStarted(a) ==
    LET s == Mine(a)
    IN /\ acquiring[a].op = "starts" /\ LockFree(s)
       /\ IF server[s].retired THEN Advances(a, "retires") /\ UNCHANGED server
          ELSE IF Running(s) THEN Advances(a, "checks") /\ UNCHANGED server
          ELSE /\ Advances(a, "launches")
               /\ server' = [server EXCEPT ![s].running = TRUE, ![s].locked = TRUE]
       /\ UNCHANGED <<registry, reserved, stopping>>

(* A process that exits while it starts is launched again on another port. *)
Relaunch(a) ==
    /\ acquiring[a].op = "launches" /\ ~Running(Mine(a)) /\ acquiring[a].launch < Launches
    /\ acquiring' = [acquiring EXCEPT ![a].launch = @ + 1]
    /\ server' = [server EXCEPT ![Mine(a)].running = TRUE]
    /\ UNCHANGED <<registry, reserved, stopping>>

(* The server answers, or it does not and is terminated, which may raise   *)
(* in its turn; it is retired in any case.                                 *)
Ready(a) ==
    /\ acquiring[a].op = "launches" /\ Running(Mine(a))
    /\ Advances(a, "checks")
    /\ server' = [server EXCEPT ![Mine(a)].locked = FALSE]
    /\ UNCHANGED <<registry, reserved, stopping>>

StartFails(a) ==
    /\ acquiring[a].op = "launches"
    /\ Running(Mine(a)) \/ acquiring[a].launch = Launches
    /\ Advances(a, "fails")
    /\ \E raises \in BOOLEAN : server' = Terminated(Mine(a), raises)
    /\ UNCHANGED <<registry, reserved, stopping>>

Again(f, a) == IF f[a].attempt < Attempts
               THEN [f EXCEPT ![a].op = "looks", ![a].attempt = @ + 1, ![a].server = 0, ![a].launch = 0]
               ELSE Ended(f, a, "raised")

(* Mutant: the entry goes also when it is a replacement.                   *)
UnregisterAny(d, s) == [registry EXCEPT ![d] = 0]

Unregister(d, s) == IF registry[d] = s THEN [registry EXCEPT ![d] = 0] ELSE registry

(* _release_server, and the next attempt or the error.                     *)
ReleaseServer(a) ==
    /\ acquiring[a].op \in {"retires", "fails"}
    /\ registry' = Unregister(DirOf(a), Mine(a))
    /\ acquiring' = Notified(IF acquiring[a].op = "retires" THEN Again(acquiring, a)
                             ELSE Ended(acquiring, a, "raised"))
    /\ UNCHANGED <<reserved, server, stopping>>

(* A server that is still registered is returned; one that a shutdown has  *)
(* taken out of the registry is stopped.                                   *)
Check(a) ==
    /\ acquiring[a].op = "checks"
    /\ IF registry[DirOf(a)] = Mine(a) THEN acquiring' = Ended(acquiring, a, "returned")
       ELSE Advances(a, "discards")
    /\ UNCHANGED <<registry, reserved, server, stopping>>

Discard(a) ==
    /\ acquiring[a].op = "discards" /\ LockFree(Mine(a))
    /\ \/ server' = Terminated(Mine(a), FALSE) /\ acquiring' = Again(acquiring, a)
       \/ /\ Running(Mine(a))
          /\ server' = Terminated(Mine(a), TRUE) /\ acquiring' = Ended(acquiring, a, "raised")
    /\ UNCHANGED <<registry, reserved, stopping>>
-----------------------------------------------------------------------------
Reserves(chosen) == reserved \union {server[s].dir : s \in chosen}

(* shutdown_servers: the selected servers leave the registry at once, and  *)
(* are shut down one after the other.                                      *)
CallShutdown(k, dirs) ==
    LET chosen == {registry[d] : d \in dirs} \ {0}
    IN /\ stopping[k].op = "idle" /\ chosen # {}
       /\ registry' = [d \in Dir |-> IF d \in dirs THEN 0 ELSE registry[d]]
       /\ reserved' = Reserves(chosen)
       /\ stopping' = [stopping EXCEPT ![k] = [@ EXCEPT !.op = "stops", !.left = chosen]]
       /\ UNCHANGED <<server, acquiring>>

Stop(k) ==
    /\ stopping[k].op = "stops"
    /\ \E s \in stopping[k].left, op \in {"frees", "raises"} :
          /\ LockFree(s) /\ (op = "raises" => Running(s))
          /\ server' = Terminated(s, op = "raises")
          /\ stopping' = [stopping EXCEPT ![k] = [op |-> op, left |-> @.left \ {s}, server |-> s]]
    /\ UNCHANGED <<registry, reserved, acquiring>>

(* Mutant: nobody is told that a directory is free.                        *)
NotifyNobody(f) == f

NotifyAll(f) == Notified(f)

(* The directory is free, also when the process may still run.  A          *)
(* termination that raised ends the shutdown, and the directories it has   *)
(* not come to stay reserved.                                              *)
FreeDirectory(k) ==
    /\ stopping[k].op \in {"frees", "raises"}
    /\ reserved' = reserved \ {server[stopping[k].server].dir}
    /\ acquiring' = NotifyAll(acquiring)
    /\ stopping' = [stopping EXCEPT ![k].server = 0, ![k].op =
          IF @ = "raises" THEN "raised" ELSE IF stopping[k].left = {} THEN "done" ELSE "stops"]
    /\ UNCHANGED <<registry, server>>

(* A process exits by itself.                                              *)
Exit(s) == /\ Running(s) \/ server[s].stray
           /\ server' = [server EXCEPT ![s].running = FALSE, ![s].stray = FALSE]
           /\ UNCHANGED <<registry, reserved, acquiring, stopping>>
-----------------------------------------------------------------------------
Acquire(a) == \/ Look(a) \/ EnsureStarted(a) \/ Relaunch(a) \/ Ready(a)
              \/ StartFails(a) \/ ReleaseServer(a) \/ Check(a) \/ Discard(a)

ServersNext ==
    \/ \E a \in Acquisition : Acquire(a) \/ TimeOut(a) \/ \E d \in Dir : CallAcquire(a, d)
    \/ \E k \in Shutdown : Stop(k) \/ FreeDirectory(k) \/ \E dirs \in SUBSET Dir : CallShutdown(k, dirs)
    \/ \E s \in Made : Exit(s)

(* While some thread can go on, some thread does; nothing makes a wait     *)
(* time out.                                                               *)
ThreadStep == \/ \E a \in Acquisition : Acquire(a)
              \/ \E k \in Shutdown : Stop(k) \/ FreeDirectory(k)

ServersFairness == WF_serversVars(ThreadStep)

ServersSpec == ServersInit /\ [][ServersNext]_serversVars /\ ServersFairness
-----------------------------------------------------------------------------
ServersTypeOK ==
    /\ registry \in [Dir -> {0} \union Made]
    /\ reserved \in SUBSET Dir
    /\ \A s \in Made : server[s] \in [dir : Dir, retired : BOOLEAN, running : BOOLEAN, locked : BOOLEAN, stray : BOOLEAN]
    /\ \A a \in Acquisition : /\ acquiring[a].op # "idle" => DirOf(a) \in Dir
                              /\ Mine(a) \in {0} \union Made
                              /\ acquiring[a].attempt \in 0 .. Attempts
    /\ \A k \in Shutdown : stopping[k].left \in SUBSET Made

Process(s) == Running(s) \/ server[s].stray

(* Two processes serve one directory at the same time, where the second    *)
(* would be refused by the database locks of the first, only after a       *)
(* termination that raised: one of them is then a stray.  (server.py says  *)
(* of _await_release that waiting keeps the directory reserved until the   *)
(* process has exited; the finally of shutdown_servers frees it anyway.)   *)
ServersExclusive ==
    \A s, t \in Made : Process(s) /\ Process(t) /\ server[s].dir = server[t].dir =>
        s = t \/ server[s].stray \/ server[t].stray

(* No process runs behind the back of the module: it is registered, its    *)
(* directory is reserved, a call that is still running has it in hand, or  *)
(* it is such a stray.                                                     *)
ServersTracked ==
    \A s \in Made : Process(s) =>
        \/ registry[server[s].dir] = s
        \/ server[s].dir \in reserved
        \/ \E a \in Acquisition : Mine(a) = s
        \/ server[s].stray

(* But for the strays, at most one process serves a directory, and the     *)
(* module can reach it.                                                    *)
ServersKept == ServersExclusive /\ ServersTracked

(* The directories of a shutdown that raised and did not come to them.     *)
Abandoned == {server[s].dir : s \in UNION {stopping[k].left : k \in {j \in Shutdown : stopping[j].op = "raised"}}}

(* An acquisition that waits for a directory is woken when the shutdown    *)
(* has let go of it, and need not time out.                                *)
AcquisitionsWake ==
    \A a \in Acquisition : []<>(acquiring[a].op # "waits" \/ DirOf(a) \in Abandoned)
=============================================================================
