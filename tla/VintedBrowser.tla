--------------------------- MODULE VintedBrowser ---------------------------
(***************************************************************************)
(* One browser object (clients/vinted_browser.py).  Playwright may be used *)
(* from one thread only, so a thread of the object's own takes commands    *)
(* from a queue, and the caller waits for the reply, 55 seconds at most.   *)
(* A caller that waited in vain abandons the thread with force_stop, which *)
(* leaves the object with a new queue and no thread.                       *)
(*                                                                         *)
(* The caller is the thread of a brand worker: it opens an object,         *)
(* searches with two attempts, recycles the object and closes it.  What it *)
(* opens next is another object, but one that lost its threads the same    *)
(* way, so the variables go on with it.                                    *)
(***************************************************************************)
EXTENDS Naturals, Sequences, FiniteSetsExt

CONSTANTS
    Thread,     \* 1 .. n, in the order in which threads start; n is the bound
    NoThread,
    Penalty,    \* the cooldowns a blocked answer may set: "short", "long" (> 55 s)
    Flaky       \* what goes wrong in this instance: "timeout", "launch", "answer"

ASSUME BrowserAssumption ==
    /\ IsFiniteSet(Thread) /\ Thread = 1 .. Cardinality(Thread) /\ NoThread \notin Thread
    /\ Penalty \subseteq {"short", "long"}

VARIABLES
    thread,   \* _thread
    life,     \* [Thread -> "unborn", "get", "run" or "ended"]
    on,       \* [Thread -> the queue a thread in "get" reads from]
    job,      \* [Thread -> the command a thread in "run" executes]
    queue,    \* the queues made so far; _cmd_q is the last one
    handles,  \* the thread that made _playwright, _browser, _context and _page
    cooldown, \* RateLimiter._cooldown_until: "none", "short" or "long"
    caller,   \* what the caller is doing (see Idle)
    lost      \* history: timeouts, and launches that failed

bvars == <<thread, life, on, job, queue, handles, cooldown, caller, lost>>

\* goal: "none", "open", "search", "recycle" or "close"; pc: where the caller is
\* in it; op: the command it waits for; tries: attempts of retry_call left.
Idle == [goal |-> "none", pc |-> "idle", op |-> "none", reply |-> "none", tries |-> 0]

\* A command is live while somebody waits for its reply.  "quit" is the None
\* that ends a thread.
Command(op) == [op |-> op, live |-> op \notin {"quit"}]
Quit == Command("quit")

Current == Len(queue)
Alive(t) == t # NoThread /\ life[t] \in {"get", "run"}
Unborn == {t \in Thread : life[t] = "unborn"}

BrowserInit ==
    /\ thread = NoThread
    /\ life = [t \in Thread |-> "unborn"]
    /\ on = [t \in Thread |-> 1]
    /\ job = [t \in Thread |-> Quit]
    /\ queue = << <<>> >>
    /\ handles = NoThread
    /\ cooldown = "none"
    /\ caller = Idle
    /\ lost = 0

-----------------------------------------------------------------------------
(* The caller asks. *)

Waiting(goal, op, tries) ==
    [goal |-> goal, pc |-> "wait", op |-> op, reply |-> "none", tries |-> tries]

Put(q, c) == [queue EXCEPT ![q] = Append(@, c)]

\* _call, to a thread that lives.
Ask(goal, op, tries) ==
    /\ queue' = Put(Current, Command(op))
    /\ caller' = Waiting(goal, op, tries)
    /\ UNCHANGED <<thread, life, on, job, handles, cooldown, lost>>

\* start(): a thread that reads the last of the queues, and the command that
\* launches the browser.
Start(goal, tries, queues) ==
    /\ Unborn # {}
    /\ LET t == Min(Unborn)
           q == Len(queues)
       IN  /\ thread' = t
           /\ life' = [life EXCEPT ![t] = "get"]
           /\ on' = [on EXCEPT ![t] = q]
           /\ queue' = [queues EXCEPT ![q] = Append(@, Command("start"))]
           /\ caller' = Waiting(goal, "start", tries)
    /\ UNCHANGED <<job, handles, cooldown, lost>>

\* A call to an object without a thread: force_stop for what may be left, then
\* start().  Whoever waits on the old queue is told to quit.
StartOver(goal, tries) == Start(goal, tries, Append(Put(Current, Quit), <<>>))

\* _ensure_browser
Open == caller = Idle /\ Start("open", 0, queue)

\* search_catalog, the first of two attempts.
AskSearch ==
    /\ caller.pc = "ready"
    /\ IF Alive(thread) THEN Ask("search", "search", 1) ELSE StartOver("search", 1)

\* stop() by the worker, or as the first half of restart().  Without a thread
\* there is nothing to stop.
Close ==
    /\ caller.pc = "ready"
    /\ \E goal \in {"close", "recycle"} :
         IF Alive(thread)
         THEN Ask(goal, "close", 0)
         ELSE /\ caller' = [caller EXCEPT !.goal = goal, !.pc = "joined"]
              /\ UNCHANGED <<thread, life, on, job, queue, handles, cooldown, lost>>

-----------------------------------------------------------------------------
(* The caller is answered. *)

To(pc) ==
    /\ caller' = [caller EXCEPT !.pc = pc, !.reply = "none"]
    /\ UNCHANGED <<thread, life, on, job, queue, handles, cooldown, lost>>

\* An object restarted on the way of a call goes on with the call; a new one
\* warms up first, and is ready even if that fails.
Started ==
    /\ caller.pc = "wait" /\ caller.op = "start" /\ caller.reply = "ok"
    /\ IF caller.goal = "search" THEN Ask("search", "search", caller.tries)
       ELSE Ask(caller.goal, "warm", 0)

NotStarted ==
    /\ caller.pc = "wait" /\ caller.op = "start" /\ caller.reply \notin {"none", "ok"}
    /\ To("failed")

Warm == caller.pc = "wait" /\ caller.op = "warm" /\ caller.reply # "none" /\ To("ready")

Found == caller.pc = "wait" /\ caller.op = "search" /\ caller.reply = "ok" /\ To("ready")

NotFound ==
    /\ caller.pc = "wait" /\ caller.op = "search" /\ caller.reply \notin {"none", "ok"}
    /\ To("failed")

\* retry_call asks again whatever the exception was.
Retry ==
    /\ caller.pc = "failed" /\ caller.goal = "search" /\ caller.tries > 0
    /\ IF Alive(thread) THEN Ask("search", "search", caller.tries - 1)
       ELSE StartOver("search", caller.tries - 1)

\* The search failed for good, or the object was not recycled: it is closed.
GiveUp ==
    /\ caller.pc = "failed" /\ caller.goal # "open" /\ caller.tries = 0
    /\ IF Alive(thread) THEN Ask("close", "close", 0) ELSE To("joined")

\* A RuntimeError of a first start: the worker forgets the object, and nobody
\* stops its thread.
Forget ==
    /\ caller.pc = "failed" /\ caller.goal = "open"
    /\ lost' = IF Alive(thread) THEN lost + 1 ELSE lost
    /\ caller' = [caller EXCEPT !.goal = "close", !.pc = "joined"]
    /\ thread' = NoThread
    /\ UNCHANGED <<life, on, job, queue, handles, cooldown>>

Closed ==
    /\ caller.pc = "wait" /\ caller.op = "close" /\ caller.reply # "none"
    /\ To("closed")

\* Mutant: the thread is joined without having been told to end.
SayNothing ==
    /\ caller.pc = "closed"
    /\ caller' = [caller EXCEPT !.pc = "join"]
    /\ UNCHANGED <<thread, life, on, job, queue, handles, cooldown, lost>>

\* The None that ends the thread, and the join.
SayQuit ==
    /\ caller.pc = "closed"
    /\ queue' = Put(Current, Quit)
    /\ caller' = [caller EXCEPT !.pc = "join"]
    /\ UNCHANGED <<thread, life, on, job, handles, cooldown, lost>>

\* The join takes eight seconds at most: long enough for a thread that finds
\* the command, too short for one that does not.
Join ==
    /\ caller.pc = "join"
    /\ Alive(thread) => (life[thread] = "run" \/ queue[on[thread]] = <<>>)
    /\ To("joined")

\* restart() goes on with a new thread on the same queue; a closed object is
\* dropped, and the next one has a queue and a rate limiter of its own.
Joined ==
    /\ caller.pc = "joined"
    /\ IF caller.goal = "recycle"
       THEN Start("recycle", 0, queue)
       ELSE /\ thread' = NoThread
            /\ handles' = NoThread
            /\ queue' = Append(queue, <<>>)
            /\ cooldown' = "none"
            /\ caller' = Idle
            /\ UNCHANGED <<life, on, job, lost>>

-----------------------------------------------------------------------------
(* Giving up on a thread: the end of _call after its timeout, and force_stop. *)

Deaf(c) == [c EXCEPT !.live = FALSE]

\* Mutant: only the searches have a timeout.
TimeoutOfSearch ==
    /\ "timeout" \in Flaky
    /\ caller.pc = "wait" /\ caller.reply = "none" /\ caller.op = "search"
    /\ job' = [t \in Thread |-> Deaf(job[t])]
    /\ queue' = [q \in DOMAIN queue |-> [i \in DOMAIN queue[q] |-> Deaf(queue[q][i])]]
    /\ caller' = [caller EXCEPT !.pc = "abandon"]
    /\ lost' = lost + 1
    /\ UNCHANGED <<thread, life, on, handles, cooldown>>

Timeout ==
    /\ "timeout" \in Flaky
    /\ caller.pc = "wait" /\ caller.reply = "none"
    /\ job' = [t \in Thread |-> Deaf(job[t])]
    /\ queue' = [q \in DOMAIN queue |-> [i \in DOMAIN queue[q] |-> Deaf(queue[q][i])]]
    /\ caller' = [caller EXCEPT !.pc = "abandon"]
    /\ lost' = lost + 1
    /\ UNCHANGED <<thread, life, on, handles, cooldown>>

\* The references are dropped, then the thread is asked to close and to quit,
\* through the queue it may not be reading yet.
Abandon ==
    /\ caller.pc = "abandon"
    /\ thread' = NoThread
    /\ handles' = NoThread
    /\ queue' = [queue EXCEPT ![Current] = Append(Append(@, Deaf(Command("close"))), Quit)]
    /\ caller' = [caller EXCEPT !.pc = "renew"]
    /\ UNCHANGED <<life, on, job, cooldown, lost>>

\* The join is over, whether or not the thread ended: a new queue, and the call
\* raises.  Only a warm-up and a stop go on as if nothing had happened.
Renew ==
    /\ caller.pc = "renew"
    /\ queue' = Append(queue, <<>>)
    /\ caller' = [caller EXCEPT !.pc = CASE caller.op = "warm" -> "ready"
                                         [] caller.op = "close" -> "closed"
                                         [] OTHER -> "failed"]
    /\ UNCHANGED <<thread, life, on, job, handles, cooldown, lost>>

-----------------------------------------------------------------------------
(* The threads of the object (_worker). *)

Take(t) ==
    /\ life[t] = "get"
    /\ queue[on[t]] # <<>>
    /\ queue' = [queue EXCEPT ![on[t]] = Tail(@)]
    /\ job' = [job EXCEPT ![t] = Head(queue[on[t]])]
    /\ life' = [life EXCEPT ![t] = IF job'[t].op = "quit" THEN "ended" ELSE "run"]
    /\ UNCHANGED <<thread, on, handles, cooldown, caller, lost>>

\* What the command of thread t may come to: the handles and the cooldown after
\* it, and the reply.
Outcome(t) ==
    LET may(what, o) == IF what \in Flaky THEN {o} ELSE {}
    IN  CASE job[t].op = "start" ->
                {<<t, cooldown, "ok">>} \cup may("launch", <<NoThread, cooldown, "err">>)
          [] job[t].op = "close" -> {<<NoThread, cooldown, "ok">>}
          [] handles # t /\ job[t].op \in {"warm", "search"} -> {<<handles, "none", "err">>}
          [] handles = t /\ job[t].op = "warm" -> {<<t, cooldown, "ok">>}
          [] handles = t /\ job[t].op = "search" ->
                {<<t, "none", "ok">>}
                \cup UNION {may("answer", <<t, p, "blocked">>) : p \in Penalty}

\* A search sits out the cooldown first: a long one outlasts the caller.
Patient(t) == ~(job[t].op = "search" /\ job[t].live /\ cooldown = "long")

Finish(t) ==
    /\ life[t] = "run"
    /\ Patient(t)
    /\ \E o \in Outcome(t) :
         /\ handles' = o[1]
         /\ cooldown' = o[2]
         /\ caller' = IF job[t].live THEN [caller EXCEPT !.reply = o[3]] ELSE caller
    /\ life' = [life EXCEPT ![t] = "get"]
    /\ on' = [on EXCEPT ![t] = Current]
    /\ UNCHANGED <<thread, job, queue, lost>>

-----------------------------------------------------------------------------
Caller ==
    \/ Open \/ AskSearch \/ Close
    \/ Started \/ NotStarted \/ Warm \/ Found \/ NotFound
    \/ Retry \/ GiveUp \/ Forget \/ Closed \/ SayQuit \/ Join \/ Joined
    \/ Abandon \/ Renew

\* Bound: behaviours that used all the threads stop where they are.
AtLimit == Unborn = {} /\ UNCHANGED bvars

BrowserNext == Caller \/ Timeout \/ AtLimit \/ \E t \in Thread : Take(t) \/ Finish(t)

BrowserSpec == BrowserInit /\ [][BrowserNext]_bvars

\* The caller's clock runs and queues deliver; nothing says that a command ends.
BrowserFairness ==
    /\ WF_bvars(Caller)
    /\ WF_bvars(Timeout)
    /\ \A t \in Thread : WF_bvars(Take(t))

-----------------------------------------------------------------------------
(* What should hold. *)

\* A thread is left behind only by a call that timed out or a launch that
\* failed: recycling and closing, however often, leak none.
LeakBounded == Cardinality({t \in Thread : Alive(t) /\ t # thread}) <= lost

\* No call waits for ever, though the thread it talks to may hang in Playwright
\* for good: the worker gets its browser or gets rid of it.
CallReturns == (caller.pc = "wait") ~> (caller.pc \in {"ready", "idle"} \/ Unborn = {})

=============================================================================
