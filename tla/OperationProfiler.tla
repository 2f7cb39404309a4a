-------------------------- MODULE OperationProfiler --------------------------
(***************************************************************************)
(* Profilers: contexts that record the operations of the thread that has   *)
(* entered them (profiling.py, core/native/_operation.cpp).  A profiler    *)
(* has a native session, which records operations and their nesting, and   *)
(* a list of the moves that were started inside it, whose later phases     *)
(* other threads add when the context may have been left.                  *)
(*                                                                         *)
(* Time is a counter of what has been recorded; it names an event.         *)
(***************************************************************************)
EXTENDS Naturals, Sequences, FiniteSets

CONSTANTS
    OpThread, Profiler, MoveRequest, Unset,
    OpKind,       \* the classes of carriers an operation may run on
    Selects,      \* Selects[p]: the classes that p records
    MaxEvents,    \* bound on the counter
    MaxDepth      \* bound on the operations a thread runs inside each other

ASSUME ProfilerAssumption ==
    /\ Selects \in [Profiler -> SUBSET OpKind] /\ MaxEvents \in Nat /\ MaxDepth \in Nat
    /\ Unset \notin OpThread \union Profiler

VARIABLES
    session,      \* RawProfilerSession of each profiler
    profiler,     \* Profiler: the part in Python
    activeProfiler,   \* the session of each thread
    current,      \* _active_profiler.current of each thread
    stack,        \* the operations each thread runs, and the session that follows each
    moves,        \* the token of each move
    now,
    ran           \* history: the operations inside a context, and those around them

profilerVars == <<session, profiler, activeProfiler, current, stack, moves, now, ran>>
-----------------------------------------------------------------------------
ProfilerInit ==
    /\ session = [p \in Profiler |-> [active |-> FALSE, abandoned |-> FALSE, owner |-> Unset,
                                      events |-> <<>>, frames |-> <<>>]]
    /\ profiler = [p \in Profiler |-> [entered |-> FALSE, active |-> FALSE, stopping |-> FALSE, completed |-> FALSE,
                                       native |-> <<>>, external |-> {}, pending |-> 0, dirty |-> FALSE, events |-> {}]]
    /\ activeProfiler = [t \in OpThread |-> Unset] /\ current = [t \in OpThread |-> Unset]
    /\ stack = [t \in OpThread |-> <<>>]
    /\ moves = [m \in MoveRequest |-> [at |-> "idle", by |-> Unset, start |-> 0, submitted |-> 0]]
    /\ now = 1 /\ ran = {}

Innermost(s) == s[Len(s)]
Without(s) == SubSeq(s, 1, Len(s) - 1)

(* The session of the thread is given up when it has been abandoned and    *)
(* none of its operations is running.                                      *)
Recovers(t) == LET p == activeProfiler[t]
               IN p # Unset /\ session[p].abandoned /\ session[p].frames = <<>>

RecoveredSessions(t) ==
    IF Recovers(t) THEN [session EXCEPT ![activeProfiler[t]].active = FALSE, ![activeProfiler[t]].events = <<>>]
    ELSE session

RecoveredActive(t) == IF Recovers(t) THEN [activeProfiler EXCEPT ![t] = Unset] ELSE activeProfiler
-----------------------------------------------------------------------------
(* __enter__; refused while the thread has a session.                      *)
EnterContext(t, p) ==
    /\ ~profiler[p].entered
    /\ IF RecoveredActive(t)[t] # Unset
       THEN /\ profiler' = [profiler EXCEPT ![p].entered = TRUE]
            /\ session' = RecoveredSessions(t) /\ activeProfiler' = RecoveredActive(t)
            /\ UNCHANGED current
       ELSE /\ profiler' = [profiler EXCEPT ![p].entered = TRUE, ![p].active = TRUE]
            /\ session' = [RecoveredSessions(t) EXCEPT ![p].active = TRUE, ![p].owner = t]
            /\ activeProfiler' = [activeProfiler EXCEPT ![t] = p]
            /\ current' = [current EXCEPT ![t] = p]
    /\ UNCHANGED <<stack, moves, now, ran>>

(* An exit on a thread that is not the session's, which is any other:      *)
(* it raises, and abandons the session.                                    *)
ExitElsewhere(p) ==
    /\ profiler[p].active /\ session[p].active
    /\ session' = [session EXCEPT ![p].abandoned = TRUE]
    /\ UNCHANGED <<profiler, activeProfiler, current, stack, moves, now, ran>>

(* __exit__ on the thread of the session, unless an operation is running:  *)
(* the session stops, and then, under the lock, the events are published.  *)
StopSession(t, p) ==
    /\ profiler[p].active /\ session[p].active /\ session[p].owner = t
    /\ activeProfiler[t] = p /\ session[p].frames = <<>>
    /\ session' = [session EXCEPT ![p].active = FALSE]
    /\ activeProfiler' = [activeProfiler EXCEPT ![t] = Unset]
    /\ profiler' = [profiler EXCEPT ![p].active = FALSE, ![p].stopping = TRUE]
    /\ current' = [current EXCEPT ![t] = IF @ = p THEN Unset ELSE @]
    /\ UNCHANGED <<stack, moves, now, ran>>

(* _refresh_events_locked: the native and the external events, each at its *)
(* place in time and with its parent, which may not be there yet.          *)
Refreshed(native, external) ==
    LET Event(start, parent) == [start |-> start, parent |-> parent]
        all == {native[n].start : n \in 1 .. Len(native)} \union {e.start : e \in external}
        place(start) == Cardinality({s \in all : s <= start})
    IN {[place |-> place(native[n].start), event |-> Event(native[n].start,
            IF native[n].parent = 0 THEN 0 ELSE place(native[native[n].parent].start))] : n \in 1 .. Len(native)}
       \union {[place |-> place(e.start), event |-> Event(e.start, IF e.parent \in all THEN place(e.parent) ELSE 0)] :
                  e \in external}

PublishEvents(p) ==
    /\ profiler[p].stopping /\ ~profiler[p].completed
    /\ profiler' = [profiler EXCEPT ![p].native = session[p].events, ![p].completed = TRUE, ![p].dirty = FALSE,
                                    ![p].events = Refreshed(session[p].events, profiler[p].external)]
    /\ UNCHANGED <<session, activeProfiler, current, stack, moves, now, ran>>
-----------------------------------------------------------------------------
(* The profilers whose context the thread is in, by what has been called.  *)
Inside(t) == {p \in Profiler : profiler[p].active /\ session[p].owner = t /\ ~session[p].abandoned}

(* Operation::execute.  Only a session that has not been abandoned follows *)
(* the operation, and an operation it does not select is a frame without   *)
(* an event.                                                               *)
BeginOperation(t, kind) ==
    LET sessions == RecoveredSessions(t)
        p == RecoveredActive(t)[t]
        follows == p # Unset /\ ~sessions[p].abandoned
        under == IF sessions[p].frames = <<>> THEN 0 ELSE Innermost(sessions[p].frames)
        id == Len(sessions[p].events) + 1
        counts == follows \/ Inside(t) # {}
        start == IF counts THEN now ELSE 0
    IN /\ now <= MaxEvents /\ Len(stack[t]) < MaxDepth
       /\ activeProfiler' = RecoveredActive(t)
       /\ session' =
            IF ~follows THEN sessions
            ELSE IF kind \in Selects[p]
            THEN [sessions EXCEPT ![p].events = Append(@, [start |-> start, parent |-> under]),
                                  ![p].frames = Append(@, id)]
            ELSE [sessions EXCEPT ![p].frames = Append(@, under)]
       /\ stack' = [stack EXCEPT ![t] = Append(@, [start |-> start, by |-> IF follows THEN p ELSE Unset])]
       /\ IF counts
          THEN /\ ran' = ran \union {[start |-> now, kind |-> kind, inside |-> Inside(t),
                                      around |-> {stack[t][n].start : n \in 1 .. Len(stack[t])}]}
               /\ now' = now + 1
          ELSE UNCHANGED <<ran, now>>
       /\ UNCHANGED <<profiler, current, moves>>

(* It returns or raises.                                                   *)
EndOperation(t) ==
    /\ stack[t] # <<>>
    /\ LET p == Innermost(stack[t]).by
       IN session' = IF p = Unset THEN session ELSE [session EXCEPT ![p].frames = Without(@)]
    /\ stack' = [stack EXCEPT ![t] = Without(@)]
    /\ UNCHANGED <<profiler, activeProfiler, current, moves, now, ran>>
-----------------------------------------------------------------------------
(* _begin_move_profile: the token of a move, in the profiler that Python   *)
(* holds to be active on this thread.                                      *)
BeginMove(t, m, kind) ==
    LET p == current[t]
    IN /\ moves[m].at = "idle" /\ now <= MaxEvents
       /\ p # Unset /\ profiler[p].active /\ kind \in Selects[p]
       /\ moves' = [moves EXCEPT ![m] = [at |-> "begun", by |-> p, start |-> now, submitted |-> 0]]
       /\ profiler' = [profiler EXCEPT ![p].pending = @ + 1]
       /\ now' = now + 1
       /\ UNCHANGED <<session, activeProfiler, current, stack, ran>>

(* _record_move_phase *)
WithEvent(m, start, parent) ==
    [profiler EXCEPT ![moves[m].by].external = @ \union {[start |-> start, parent |-> parent]},
                     ![moves[m].by].dirty = TRUE]

(* The submission starts when the move does, and its end starts the rest.  *)
Submitted(m) == /\ moves[m].at = "begun"
                /\ moves' = [moves EXCEPT ![m].at = "submitted", ![m].submitted = now]
                /\ profiler' = WithEvent(m, moves[m].start, 0)
                /\ now' = now + 1
                /\ UNCHANGED <<session, activeProfiler, current, stack, ran>>

Completed(m) == /\ moves[m].at = "submitted"
                /\ moves' = [moves EXCEPT ![m].at = "recorded"]
                /\ profiler' = WithEvent(m, moves[m].submitted, moves[m].start)
                /\ UNCHANGED <<session, activeProfiler, current, stack, now, ran>>

(* Mutant: a move that ends after the context is left is not published.    *)
PhaseFinishedUnpublished(q) == [q EXCEPT !.pending = @ - 1]

(* _finish_move_profile *)
PhaseFinished(q) ==
    IF q.completed /\ q.pending = 1 /\ q.dirty
    THEN [q EXCEPT !.pending = 0, !.dirty = FALSE, !.events = Refreshed(q.native, q.external)]
    ELSE [q EXCEPT !.pending = @ - 1]

(* The move has completed, or its worker could not be started.             *)
FinishMove(m) ==
    /\ moves[m].at \in {"begun", "recorded"}
    /\ moves' = [moves EXCEPT ![m].at = "done"]
    /\ profiler' = [profiler EXCEPT ![moves[m].by] = PhaseFinished(@)]
    /\ UNCHANGED <<session, activeProfiler, current, stack, now, ran>>
-----------------------------------------------------------------------------
ProfilerNext ==
    \/ \E t \in OpThread, p \in Profiler : EnterContext(t, p) \/ StopSession(t, p)
    \/ \E p \in Profiler : ExitElsewhere(p) \/ PublishEvents(p)
    \/ \E t \in OpThread, kind \in OpKind : BeginOperation(t, kind) \/ \E m \in MoveRequest : BeginMove(t, m, kind)
    \/ \E t \in OpThread : EndOperation(t)
    \/ \E m \in MoveRequest : Submitted(m) \/ Completed(m) \/ FinishMove(m)

ProfilerSpec == ProfilerInit /\ [][ProfilerNext]_profilerVars
-----------------------------------------------------------------------------
ProfilerTypeOK ==
    /\ activeProfiler \in [OpThread -> Profiler \union {Unset}] /\ current \in [OpThread -> Profiler \union {Unset}]
    /\ \A p \in Profiler : session[p].owner \in OpThread \union {Unset} /\ profiler[p].pending \in Nat
    /\ \A m \in MoveRequest : moves[m].at \in {"idle", "begun", "submitted", "recorded", "done"}
    /\ now \in Nat \ {0}

(* The nearest operation around another that p selects: the last to start. *)
RecordedBy(p) == {o \in ran : p \in o.inside /\ o.kind \in Selects[p]}
Nearest(p, around) ==
    LET selected == {0} \union {s \in around : \E o \in RecordedBy(p) : o.start = s}
    IN CHOOSE s \in selected : \A r \in selected : r <= s

ExpectedEvents(p) ==
    {<<o.start, Nearest(p, o.around)>> : o \in RecordedBy(p)}
    \union UNION {{<<moves[m].start, 0>>, <<moves[m].submitted, moves[m].start>>} :
                     m \in {k \in MoveRequest : moves[k].by = p /\ moves[k].submitted > 0}}

(* A profiler that has been left, and whose moves have ended, has exactly  *)
(* the selected operations that its thread ran in the context and both     *)
(* phases of the moves that it was given a token for, once each, in the    *)
(* order in which they started, and each names the nearest selected        *)
(* operation around it.  move_async asks for a token, and so does the      *)
(* public move, which calls it (functional/api.py:2049): its phases are    *)
(* events too, where operation-profiling/spec.md:147-151 and 182-185 says  *)
(* that it leaves the events unchanged.                                    *)
ProfileExact ==
    \A p \in Profiler :
        profiler[p].completed /\ profiler[p].pending = 0 =>
            LET at(n) == CHOOSE e \in profiler[p].events : e.place = n
                start(n) == IF n = 0 THEN 0 ELSE at(n).event.start
            IN /\ {<<e.event.start, start(e.event.parent)>> : e \in profiler[p].events} = ExpectedEvents(p)
               /\ {e.place : e \in profiler[p].events} = 1 .. Cardinality(ExpectedEvents(p))
               /\ \A e, f \in profiler[p].events : e.place < f.place => e.event.start < f.event.start
=============================================================================
