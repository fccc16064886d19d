----------------------------- MODULE DesktopCore -----------------------------
(***************************************************************************)
(* The desktop application: the shell's supervisor, which starts the       *)
(* Python core as a child process, sends it requests over a pipe, cancels  *)
(* and locks (desktop/src-tauri/src/sidecar.rs, lock.rs, commands.rs), and *)
(* the core's side of the pipe (desktop/core/desktop_core/server.py).      *)
(*                                                                         *)
(* The threads are the supervisor with its queue of messages, one writer   *)
(* and one reader per child, the tasks of the requests, and the core with  *)
(* its own tasks.  One generation of the core runs at a time; a request    *)
(* keeps the generation it was sent to.  What a request does in the vault  *)
(* is left out, except that one that unlocks puts the keys into the core's *)
(* memory.  Both pipes are queues; what was written before a process died  *)
(* may still be read.                                                      *)
(***************************************************************************)
EXTENDS Integers, FiniteSets, Sequences

CONSTANTS
  Request,     \* request ids (next_id)
  Unlock,      \* the requests that open the vault
  MaxWaiting,  \* requests that may wait for an answer
  MaxQueued,   \* MAX_QUEUED_FRAMES
  MaxInFlight, \* MAX_IN_FLIGHT, also the core's queue of answers
  MaxRestarts, \* MAX_RESTARTS
  MaxFaults    \* bound: crashes, locks, restarts, late timers, cancellations

ASSUME DesktopCoreAssumption ==
  /\ Request \subseteq Nat \ {0} /\ Unlock \subseteq Request
  /\ MaxWaiting \in Nat /\ MaxQueued \in Nat /\ MaxInFlight \in Nat
  /\ MaxRestarts \in Nat /\ MaxFaults \in Nat

VARIABLES
  sup,      \* what supervise() keeps, and the status it shows
  control,  \* messages to the supervisor
  running,  \* the generation requests are sent to, 0 for None
  req,      \* the shell's requests
  waiting,  \* PendingMap.waiting: who still wants an answer
  closed,   \* the generations whose PendingMap is closed
  frames,   \* frames queued for the writer thread of this generation
  hold,     \* the frame the writer has looked at and is writing
  core,     \* the core process: none, starting, serving, draining, dead
  reading,  \* the reader thread of this generation runs
  pipe,     \* frames on their way to the core
  task,     \* the core's in_flight
  out,      \* answers on their way to the shell
  keys,     \* the request that put keys into the core's memory, or 0
  policy,   \* lock.rs: epoch, deadline (the request that set it), and whether
            \* lock() is under way
  faults,   \* crashes, locks, timers and cancellations so far
  taken,    \* ghost: requests this core took up, with the answers it gave
  unsent,   \* ghost: requests given up before the writer looked at them
  revoked   \* ghost: requests cancelled or timed out after they were queued

shell == <<sup, control, running, req, waiting, closed, frames, hold, reading>>
child == <<core, pipe, task, out, keys, taken>>
vars == <<sup, control, running, req, waiting, closed, frames, hold, reading,
          core, pipe, task, out, keys, taken, policy, faults, unsent, revoked>>

NoFrame == [kind |-> "none", id |-> 0]
Frame(k, id) == [kind |-> k, id |-> id]
Message(k, g) == [kind |-> k, generation |-> g]
NoRequest == [state |-> "idle", generation |-> 0, epoch |-> 0, session |-> FALSE]

Empty == [id \in {} |-> 0] \* no task, no request taken up
Alive == core \in {"starting", "serving", "draining"}
Set(id, s) == [req EXCEPT ![id].state = s]
Over == [NoRequest EXCEPT !.state = "over"] \* the caller has an error
Fault == faults < MaxFaults /\ faults' = faults + 1

Init ==
  /\ sup = [generation |-> 0, child |-> FALSE, writer |-> FALSE, ready |-> FALSE,
            incompatible |-> FALSE, shutting |-> FALSE, crashes |-> 0,
            state |-> "starting", grace |-> FALSE, panicked |-> FALSE,
            own |-> FALSE] \* ghost: the child spawned last is of this version
  /\ control = <<Message("start", 0)>>
  /\ running = 0
  /\ req = [id \in Request |-> NoRequest]
  /\ waiting = {} /\ closed = {} /\ frames = <<>> /\ hold = NoFrame
  /\ core = "none" /\ reading = FALSE
  /\ pipe = <<>> /\ task = Empty /\ out = <<>> /\ keys = 0 /\ taken = Empty
  /\ policy = [epoch |-> 0, deadline |-> 0, locking |-> FALSE]
  /\ faults = 0 /\ unsent = {} /\ revoked = {}

-----------------------------------------------------------------------------
(***************************************************************************)
(* The tasks of the requests (Supervisor::request, core_request).          *)
(***************************************************************************)
\* try_send() to the writer of generation g: the frames after it, or Failed for
\* a full or disconnected queue.  A writer whose child is gone may not know yet.
Failed == <<NoFrame>>
Room(g) == g = sup.generation /\ Alive /\ Len(frames) < MaxQueued
try_send(g, f) ==
  CASE Room(g) -> {Append(frames, f)}
    [] g = sup.generation /\ Alive /\ ~Room(g) -> {Failed}
    [] OTHER -> {frames, Failed}

\* core_request() notes the epoch; request() takes the running generation, whose
\* map may be closed already, and puts itself into it.  That is one poll of the
\* task, short against the restart of a core.
Ask(id) ==
  /\ req[id].state = "idle" /\ running # 0
  /\ IF running \in closed \/ Cardinality(waiting) >= MaxWaiting
     THEN req' = [req EXCEPT ![id] = Over] /\ UNCHANGED waiting
     ELSE /\ req' = [req EXCEPT ![id] = [state |-> "registered", generation |-> running,
                                         epoch |-> policy.epoch, session |-> FALSE]]
          /\ waiting' = waiting \union {id}
  /\ UNCHANGED <<sup, control, running, closed, frames, hold, reading, child,
                 policy, faults, unsent, revoked>>

Queue(id) ==
  /\ req[id].state = "registered"
  /\ \E sent \in try_send(req[id].generation, Frame("request", id)) :
       IF sent = Failed
       THEN /\ req' = [req EXCEPT ![id] = Over] /\ waiting' = waiting \ {id}
            /\ UNCHANGED frames
       ELSE /\ req' = IF id \in waiting THEN Set(id, "sent")
                       ELSE [req EXCEPT ![id] = Over]
            /\ frames' = sent /\ UNCHANGED waiting
  /\ UNCHANGED <<sup, control, running, closed, hold, reading, child, policy,
                 faults, unsent, revoked>>

\* The timeout of the request elapses before its answer is there.
Expire(id) ==
  /\ req[id].state = "sent"
  /\ req' = Set(id, "expired")
  /\ UNCHANGED <<sup, control, running, waiting, closed, frames, hold, reading,
                 child, policy, faults, unsent, revoked>>

\* Mutant: a cancellation that does not fit is dropped.
CancelIfRoom(g, id) ==
  \E sent \in try_send(g, Frame("cancel", id)) :
    frames' = (IF sent = Failed THEN frames ELSE sent) /\ UNCHANGED control

\* A cancellation that cannot be queued locks instead: the core is killed.
CancelOrLock(g, id) ==
  \E sent \in try_send(g, Frame("cancel", id)) :
    IF sent = Failed
    THEN control' = Append(control, Message("lock", 0)) /\ UNCHANGED frames
    ELSE frames' = sent /\ UNCHANGED control

Queued(id) == \E i \in DOMAIN frames : frames[i] = Frame("request", id)

Abandon(id) ==
  /\ req[id].state = "expired"
  /\ req' = [req EXCEPT ![id] = Over] /\ waiting' = waiting \ {id}
  /\ CancelOrLock(req[id].generation, id)
  /\ unsent' = IF Queued(id) THEN unsent \union {id} ELSE unsent
  /\ revoked' = revoked \union {id}
  /\ UNCHANGED <<sup, running, closed, hold, reading, child, policy, faults>>

\* Supervisor::cancel(): the renderer gives up.  The client's name is there from
\* just before the request is queued until its outcome is known.
cancel(id) ==
  /\ req[id].state \in {"registered", "sent"} /\ running # 0
  /\ Fault
  /\ CancelOrLock(running, id)
  /\ revoked' = IF req[id].state = "sent" THEN revoked \union {id} ELSE revoked
  /\ UNCHANGED <<sup, running, req, waiting, closed, hold, reading, child,
                 policy, unsent>>

\* Mutant: an answer counts whatever happened since its request.
ObserveAlways(id) ==
  IF req[id].session THEN [policy EXCEPT !.deadline = id] ELSE policy

\* lock.rs observe(): the answer's session sets the deadline of this epoch.
observe(id) ==
  IF req[id].session /\ req[id].epoch = policy.epoch
  THEN [policy EXCEPT !.deadline = id] ELSE policy

Observe(id) ==
  /\ req[id].state = "answered"
  /\ policy' = observe(id) /\ req' = Set(id, "done")
  /\ UNCHANGED <<sup, control, running, waiting, closed, frames, hold, reading,
                 child, faults, unsent, revoked>>

\* reset_renderer(), n times: every answer still to come is of an older epoch.
reset_renderer(n) == [policy EXCEPT !.epoch = @ + n, !.deadline = 0]

\* lock(), for a lock of the computer, a deadline that passed or a click: first
\* the policy, then the supervisor.
BeginLock ==
  /\ ~policy.locking /\ Fault
  /\ policy' = [reset_renderer(1) EXCEPT !.locking = TRUE]
  /\ UNCHANGED <<shell, child, unsent, revoked>>

lock ==
  /\ policy.locking
  /\ policy' = [policy EXCEPT !.locking = FALSE]
  /\ control' = Append(control, Message("lock", 0))
  /\ UNCHANGED <<sup, running, req, waiting, closed, frames, hold, reading,
                 child, faults, unsent, revoked>>

-----------------------------------------------------------------------------
(***************************************************************************)
(* The writer and the reader of the current generation.                    *)
(***************************************************************************)
\* Mutant: every frame is written.
Wanted(f) == TRUE

\* A request nobody waits for any more is not written.
StillWanted(f) == f.kind = "request" => f.id \in waiting

write_frames ==
  /\ UNCHANGED <<sup, control, running, req, waiting, closed, reading, core,
                 task, out, keys, taken, policy, faults, unsent, revoked>>
  /\ \/ /\ hold = NoFrame /\ frames # <<>>
        /\ frames' = Tail(frames)
        /\ hold' = IF StillWanted(Head(frames)) THEN Head(frames) ELSE NoFrame
        /\ UNCHANGED pipe
     \/ /\ hold # NoFrame
        /\ pipe' = IF Alive THEN Append(pipe, hold) ELSE pipe
        /\ hold' = NoFrame
        /\ UNCHANGED frames

\* deliver(): an answer goes to whoever still waits for it.
deliver ==
  /\ reading /\ out # <<>>
  /\ LET f == Head(out)
     IN  IF f.kind = "ready" \/ f.kind = "other version"
         THEN /\ control' = Append(control, Message(f.kind, sup.generation))
              /\ UNCHANGED <<req, waiting>>
         ELSE /\ waiting' = waiting \ {f.id}
              /\ req' = IF f.id \in waiting /\ req[f.id].state = "sent"
                        THEN [req EXCEPT ![f.id].state = "answered",
                                         ![f.id].session = (f.kind = "session")]
                        ELSE req
              /\ UNCHANGED control
  /\ out' = Tail(out)
  /\ UNCHANGED <<sup, running, closed, frames, hold, reading, core, pipe, task,
                 keys, taken, policy, faults, unsent, revoked>>

\* The end of the reader: fail_all(), then Exited.
fail_all ==
  /\ reading /\ core = "dead" /\ out = <<>>
  /\ reading' = FALSE
  /\ closed' = closed \union {sup.generation}
  /\ waiting' = {id \in waiting : req[id].generation # sup.generation}
  /\ req' = [id \in Request |->
               IF id \in waiting \ waiting' /\ req[id].state = "sent"
               THEN Over ELSE req[id]]
  /\ control' = Append(control, Message("exited", sup.generation))
  /\ UNCHANGED <<sup, running, frames, hold, child, policy, faults, unsent, revoked>>

-----------------------------------------------------------------------------
(***************************************************************************)
(* The core process.                                                       *)
(***************************************************************************)
\* What is left of a process that ends: what it wrote, or nothing.
Ends(written) ==
  /\ core' = "dead" /\ pipe' = <<>> /\ task' = Empty /\ keys' = 0 /\ taken' = Empty
  /\ out' \in {written, <<>>}

\* ProtocolWriter.send(): a queue nobody empties ends the process.
Send(f, tasks, answers, k) ==
  IF Len(out) >= MaxInFlight THEN Ends(out)
  ELSE /\ out' = Append(out, f)
       /\ task' = tasks /\ taken' = answers /\ keys' = k
       /\ UNCHANGED core

\* serve() in entry.py: the lifespan starts and READY is sent, with the version.
ready ==
  /\ core = "starting"
  /\ out' = Append(out, Frame(IF sup.own THEN "ready" ELSE "other version", 0))
  /\ core' = "serving"
  /\ UNCHANGED <<shell, pipe, task, keys, taken, policy, faults, unsent, revoked>>

\* Mutant: any number of requests run at a time.
StartAnyway(id) ==
  /\ task' = [i \in DOMAIN task \union {id} |->
                IF i = id THEN "created" ELSE task[i]]
  /\ taken' = [i \in DOMAIN taken \union {id} |->
                 IF i = id THEN 0 ELSE taken[i]]
  /\ UNCHANGED <<core, out, keys>>

\* CoreServer._start()
_start(id) ==
  IF Cardinality(DOMAIN task) >= MaxInFlight
  THEN Send(Frame("error", id), task, taken, keys)
  ELSE /\ task' = [i \in DOMAIN task \union {id} |->
                     IF i = id THEN "created" ELSE task[i]]
       /\ taken' = [i \in DOMAIN taken \union {id} |->
                      IF i = id THEN 0 ELSE taken[i]]
       /\ UNCHANGED <<core, out, keys>>

Cancelled(s) == IF s \in {"created", "never begun"} THEN "never begun" ELSE "cancelled"
CancelAll == [i \in DOMAIN task |-> Cancelled(task[i])]

serve ==
  /\ core = "serving" /\ pipe # <<>>
  /\ LET f == Head(pipe)
     IN  \/ f.kind = "request" /\ _start(f.id)
         \/ /\ f.kind = "cancel"
            /\ task' = [i \in DOMAIN task |->
                          IF i = f.id THEN Cancelled(task[i]) ELSE task[i]]
            /\ UNCHANGED <<core, out, keys, taken>>
         \/ /\ f.kind = "shutdown"
            /\ core' = "draining" /\ task' = CancelAll
            /\ UNCHANGED <<out, keys, taken>>
  /\ pipe' = IF core' = "dead" THEN <<>> ELSE Tail(pipe)
  /\ UNCHANGED <<shell, policy, faults, unsent, revoked>>

\* Nobody can write any more: the writer thread is done and closes the pipe.
Eof ==
  /\ core = "serving" /\ ~sup.writer
  /\ frames = <<>> /\ hold = NoFrame /\ pipe = <<>>
  /\ \A id \in Request : req[id].state \notin {"registered", "sent", "expired"}
  /\ core' = "draining" /\ task' = CancelAll
  /\ UNCHANGED <<shell, pipe, out, keys, taken, policy, faults, unsent, revoked>>

\* The task runs for the first time.
Begin(id) ==
  /\ core = "serving" /\ id \in DOMAIN task /\ task[id] = "created"
  /\ task' = [task EXCEPT ![id] = "running"]
  /\ UNCHANGED <<shell, core, pipe, out, keys, taken, policy, faults, unsent, revoked>>

Without(id) == [i \in DOMAIN task \ {id} |-> task[i]]
Counted(id, n) == [taken EXCEPT ![id] = @ + n]
Opens(id) == {keys} \union ({id} \intersect Unlock)

\* _handle() to its end.  The answer tells of a session (_session_info()) if the
\* request carried a token, live or ended, or unlocked through master_password;
\* one that failed, carried none, or signed in through auth/login or
\* auth/bootstrap tells nothing, whether the keys are in memory now or not.
_handle(id) ==
  /\ task[id] = "running"
  /\ \E k \in Opens(id), told \in {"session", "response"} :
       Send(Frame(told, id), Without(id), Counted(id, 1), k)

\* Mutant: only a task that ran answers.
NoCallback(id) ==
  /\ task[id] = "never begun"
  /\ task' = Without(id) /\ UNCHANGED <<core, out, keys, taken>>

\* completed(): a task cancelled before it began has not run _handle().
completed(id) ==
  /\ task[id] = "never begun"
  /\ Send(Frame("error", id), Without(id), Counted(id, 1), keys)

\* _handle() catches its cancellation; what it did by then may stay.
CancelledError(id) ==
  /\ task[id] = "cancelled"
  /\ \E k \in Opens(id) :
       Send(Frame("error", id), Without(id), Counted(id, 1), k)

Work(id) ==
  /\ id \in DOMAIN task
  /\ _handle(id) \/ completed(id) \/ CancelledError(id)
  /\ pipe' = IF core' = "dead" THEN <<>> ELSE pipe
  /\ UNCHANGED <<shell, policy, faults, unsent, revoked>>

\* _drain(), or two seconds have passed; then the process ends.
_drain ==
  /\ core = "draining"
  /\ Ends(out)
  /\ UNCHANGED <<shell, policy, faults, unsent, revoked>>

\* Environment: the process dies.
Crash ==
  /\ Alive /\ Fault
  /\ Ends(out)
  /\ UNCHANGED <<shell, policy, unsent, revoked>>

-----------------------------------------------------------------------------
(***************************************************************************)
(* Supervisor::supervise(), a message at a time.                           *)
(***************************************************************************)
Kill == IF Alive THEN Ends(out) ELSE UNCHANGED child
Stays == UNCHANGED <<req, waiting, closed, faults, unsent, revoked>>

\* Mutant: a status only goes to the window.
StatusOnly(n) == policy

\* The callback of lib.rs on n statuses, none of them "ready".
on_status(n) == reset_renderer(n)

\* A core of this version is spawned, or of another one, or none.
Start(m) ==
  /\ m.kind = "start"
  /\ IF sup.shutting \/ sup.child
     THEN UNCHANGED <<sup, running, frames, hold, reading, child, policy>>
     ELSE \/ /\ \E own \in BOOLEAN :
                  sup' = [sup EXCEPT !.generation = @ + 1, !.ready = FALSE,
                            !.child = TRUE, !.writer = TRUE, !.own = own,
                            !.state = IF sup.crashes > 0 THEN "restarting"
                                      ELSE "starting"]
             /\ core' = "starting" /\ reading' = TRUE
             /\ frames' = <<>> /\ hold' = NoFrame
             /\ policy' = on_status(1)
             /\ UNCHANGED <<running, pipe, task, out, keys, taken>>
          \/ \* spawn_core() fails
             /\ sup' = [sup EXCEPT !.generation = @ + 1, !.ready = FALSE,
                                   !.state = "failed"]
             /\ policy' = on_status(2)
             /\ UNCHANGED <<running, frames, hold, reading, child>>
  /\ control' = Tail(control)

\* Mutant: a core of another version is used.
ReadyAnyVersion(m) ==
  /\ m.kind \in {"ready", "other version"} /\ m.generation = sup.generation
  /\ IF sup.writer
     THEN /\ sup' = [sup EXCEPT !.ready = TRUE, !.state = "ready"]
          /\ running' = sup.generation
     ELSE sup' = [sup EXCEPT !.panicked = TRUE] /\ UNCHANGED running
  /\ UNCHANGED <<child, frames, hold, reading, policy>> /\ control' = Tail(control)

\* writer.clone().unwrap() finds nothing once Shutdown has taken the writer.
Ready(m) ==
  /\ m.kind \in {"ready", "other version"} /\ m.generation = sup.generation
  /\ CASE m.kind = "other version" ->
            /\ sup' = [sup EXCEPT !.incompatible = TRUE]
            /\ IF sup.child THEN Kill ELSE UNCHANGED child
            /\ UNCHANGED running
       [] m.kind = "ready" /\ sup.writer ->
            /\ sup' = [sup EXCEPT !.ready = TRUE, !.state = "ready"]
            /\ running' = sup.generation /\ UNCHANGED child
       [] OTHER ->
            sup' = [sup EXCEPT !.panicked = TRUE] /\ UNCHANGED <<running, child>>
  /\ UNCHANGED <<frames, hold, reading, policy>> /\ control' = Tail(control)

ReadyTimeout(m) ==
  /\ m.kind = "timer"
  /\ IF m.generation = sup.generation /\ ~sup.ready /\ sup.child
     THEN Kill ELSE UNCHANGED child
  /\ UNCHANGED <<sup, running, frames, hold, reading, policy>>
  /\ control' = Tail(control)

\* Mutant: a core that stops is not started again.
GivesUp(m) ==
  /\ m.kind = "exited" /\ m.generation = sup.generation
  /\ running' = 0 /\ Kill /\ control' = Tail(control)
  /\ sup' = [sup EXCEPT !.child = FALSE, !.writer = FALSE]
  /\ UNCHANGED <<frames, hold, reading, policy>>

\* The child is reaped; a core that had been ready is started again, a few times.
\* (Bound: all of it happens within RESTART_WINDOW; a lock forgets the crashes.)
Exited(m) ==
  LET gone == [sup EXCEPT !.child = FALSE, !.writer = FALSE]
      next == Tail(control)
  IN  /\ m.kind = "exited" /\ m.generation = sup.generation
      /\ running' = 0 /\ Kill
      /\ CASE sup.shutting -> sup' = gone /\ control' = next
           [] sup.incompatible /\ ~sup.shutting ->
                /\ sup' = [gone EXCEPT !.incompatible = FALSE, !.state = "failed"]
                /\ control' = next
           [] ~sup.shutting /\ ~sup.incompatible /\ ~sup.ready ->
                sup' = [gone EXCEPT !.state = "failed"] /\ control' = next
           [] OTHER -> LET c == sup.crashes + 1 IN
                IF c > MaxRestarts
                THEN /\ sup' = [gone EXCEPT !.crashes = c, !.state = "failed"]
                     /\ control' = next
                ELSE /\ sup' = [gone EXCEPT !.crashes = c, !.state = "restarting"]
                     /\ control' = Append(next, Message("start", 0))
      /\ policy' = IF sup.shutting THEN policy ELSE on_status(1)
      /\ UNCHANGED <<frames, hold, reading>>

\* Mutant: the keys are left to their core.
LockOut(m) ==
  /\ m.kind = "lock" /\ running' = 0 /\ UNCHANGED child
  /\ sup' = [sup EXCEPT !.crashes = 0]
  /\ UNCHANGED <<frames, hold, reading, policy>> /\ control' = Tail(control)

Lock(m) ==
  /\ m.kind = "lock"
  /\ running' = 0
  /\ IF sup.ready /\ sup.child THEN Kill ELSE UNCHANGED child
  /\ sup' = [sup EXCEPT !.crashes = 0]
  /\ UNCHANGED <<frames, hold, reading, policy>> /\ control' = Tail(control)

\* The core is asked to stop, if the frame still fits, and the supervisor waits;
\* after a grace it kills what is left.
Shutdown(m) ==
  /\ m.kind = "shutdown"
  /\ running' = 0
  /\ frames' \in IF sup.writer
                 THEN {IF s = Failed THEN frames ELSE s :
                         s \in try_send(sup.generation, Frame("shutdown", 0))}
                 ELSE {frames}
  /\ sup' = [sup EXCEPT !.shutting = TRUE, !.writer = FALSE, !.grace = sup.child,
                        !.state = IF sup.child THEN @ ELSE "stopped"]
  /\ policy' = IF sup.child THEN policy ELSE on_status(1)
  /\ UNCHANGED <<hold, reading, child>> /\ control' = Tail(control)

GraceEnds ==
  /\ sup.grace /\ Kill
  /\ sup' = [sup EXCEPT !.grace = FALSE, !.child = FALSE, !.state = "stopped"]
  /\ policy' = on_status(1)
  /\ UNCHANGED <<control, running, frames, hold, reading>> /\ Stays

\* A message of an older generation is for nobody.
Ignored(m) ==
  /\ m.kind \in {"ready", "other version", "exited"}
  /\ m.generation # sup.generation
  /\ UNCHANGED <<sup, running, frames, hold, reading, child, policy>>
  /\ control' = Tail(control)

Supervise ==
  /\ control # <<>> /\ ~sup.panicked /\ ~sup.grace /\ Stays
  /\ LET m == Head(control)
     IN  \/ Start(m) \/ Ready(m) \/ ReadyTimeout(m) \/ Exited(m) \/ Lock(m)
         \/ Shutdown(m) \/ Ignored(m)

\* The thread that sleeps for READY_TIMEOUT goes off in time, or (a fault) once
\* its generation is ready or gone.
Due(g) == /\ g = sup.generation /\ ~sup.ready /\ sup.child
          /\ \A i \in DOMAIN control : control[i].kind # "timer"
ReadyTimer(g) ==
  /\ IF Due(g) THEN UNCHANGED faults ELSE Fault
  /\ control' = Append(control, Message("timer", g))
  /\ UNCHANGED <<sup, running, req, waiting, closed, frames, hold, reading, child,
                 policy, unsent, revoked>>

\* The window offers to start a core that failed again; restart().
restart ==
  /\ sup.state = "failed" /\ Fault
  /\ control' = Append(control, Message("start", 0))
  /\ UNCHANGED <<sup, running, req, waiting, closed, frames, hold, reading,
                 child, policy, unsent, revoked>>

\* The application quits; shutdown().
Quit ==
  /\ Fault
  /\ control' = Append(control, Message("shutdown", 0))
  /\ UNCHANGED <<sup, running, req, waiting, closed, frames, hold, reading,
                 child, policy, unsent, revoked>>

Requests ==
  \E id \in Request :
    \/ Ask(id) \/ Queue(id) \/ Expire(id) \/ Abandon(id)
    \/ cancel(id) \/ Observe(id)
Pipes == write_frames \/ deliver \/ fail_all
Core == ready \/ serve \/ Eof \/ _drain \/ \E id \in Request : Begin(id) \/ Work(id)
Around ==
  \/ BeginLock \/ lock \/ Crash \/ Quit \/ restart
  \/ \E g \in 1..sup.generation : ReadyTimer(g)

Next == Requests \/ Pipes \/ Core \/ Supervise \/ GraceEnds \/ Around

\* Threads run, timers go off and a task that was cancelled ends; that a request
\* is ever finished is not assumed, nor that the core starts.
Fairness ==
  /\ WF_vars(Supervise) /\ WF_vars(GraceEnds) /\ WF_vars(write_frames) /\ WF_vars(deliver)
  /\ WF_vars(fail_all) /\ WF_vars(serve) /\ WF_vars(_drain) /\ WF_vars(lock)
  /\ WF_vars(\E g \in 1..sup.generation : Due(g) /\ ReadyTimer(g))
  /\ \A id \in Request :
       /\ WF_vars(Abandon(id)) /\ WF_vars(Begin(id)) /\ WF_vars(Observe(id))
       /\ WF_vars(id \in DOMAIN task /\ task[id] \in {"cancelled", "never begun"}
                    /\ Work(id))

Spec == Init /\ [][Next]_vars /\ Fairness

-----------------------------------------------------------------------------
(***************************************************************************)
(* Properties.                                                             *)
(***************************************************************************)
\* The queues stay within their limits, and what supervise() keeps of a child
\* fits together.
TypeOK ==
  /\ Len(frames) <= MaxQueued /\ Cardinality(waiting) <= MaxWaiting
  /\ Cardinality(DOMAIN task) <= MaxInFlight
  /\ running \in {0, sup.generation}
  /\ sup.writer => sup.child
  /\ core \in {"none", "starting", "serving", "draining", "dead"}
  /\ Alive => sup.child
  /\ \A id \in waiting : req[id].state \in {"registered", "sent", "expired"}

\* Requests only go to a core that really is of this version, whatever it and
\* its predecessors reported when, that is up and has not been told to stop: the
\* running generation is the newest one and it reported READY.
RunningIsReady ==
  running # 0 => sup.ready /\ sup.writer /\ ~sup.shutting /\ sup.own
                   /\ core # "starting"

\* What the supervisor keeps of a child is true of it whatever message comes
\* when: the limits hold, and requests go to a core that is ready (sidecar.rs).
SupervisorIsSound == TypeOK /\ RunningIsReady

\* "Cancellation acknowledges even a task cancelled before it starts": a request
\* the core took up is answered once, whether it ends, is cancelled while it
\* runs, or is cancelled before it ran at all.
OneAnswerEach ==
  Alive => \A id \in DOMAIN taken :
             taken[id] = IF id \in DOMAIN task THEN 0 ELSE 1

\* "Unsent timed-out requests are discarded": a request that was given up while
\* its frame was still queued never reaches the core.
UnsentIsDiscarded == \A id \in unsent : id \notin DOMAIN taken

\* A request is handled at most once: given up in time it is not taken up, and
\* taken up it is answered once (sidecar.rs:write_frames, server.py:_start).
HandledOnce == UnsentIsDiscarded /\ OneAnswerEach

\* The deadline the shell enforces was told by an answer of the present core to
\* a request sent since the last lock: neither a late answer nor a core that
\* died leaves a deadline behind for the next session.
DeadlineIsOfThisCore ==
  policy.deadline # 0 => /\ req[policy.deadline].epoch = policy.epoch
                         /\ req[policy.deadline].generation = sup.generation

\* "Kill the process that owns all keys": when the supervisor has handled a
\* lock, whatever it was doing when the lock came, no keys are in memory.
LockEndsTheKeys == [][(control # <<>> /\ Head(control).kind = "lock"
                         /\ control' = Tail(control)) => keys' = 0]_vars

\* A lock or the end of the application is on its way to the core.
LockIsComing ==
  \/ policy.locking \/ sup.grace
  \/ \E i \in DOMAIN control : control[i].kind \in {"lock", "shutdown"}

\* Once an answer of the present core told the shell of a session, the keys it
\* holds are watched: there is a deadline, of this core and epoch, or a lock or
\* the end is on its way (lock.rs:observe and reset_renderer, lib.rs:155).
KeysAreWatched ==
  /\ DeadlineIsOfThisCore
  /\ \A id \in Request :
       (/\ req[id].state = "done" /\ req[id].session
        /\ req[id].generation = sup.generation /\ keys # 0)
       => policy.deadline # 0 \/ LockIsComing

\* "Cancellation failure terminates the core": a request that timed out, or was
\* cancelled once it was queued, does not go on forever, although nothing makes
\* it finish by itself; the cancellation arrives, or the core is killed.
RevokedRequestsStop ==
  \A id \in Request : <>[](id \in revoked => id \notin DOMAIN task)

\* The application is never stuck between a core that is gone, by a crash or by
\* a lock, and one that is not there yet: requests are sent to a core again, or
\* it has stopped, or says that it failed.
NeverStuck ==
  []<>(running # 0 \/ sup.state \in {"failed", "stopped"})
=============================================================================
