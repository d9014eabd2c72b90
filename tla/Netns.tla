------------------------------- MODULE Netns --------------------------------
(***************************************************************************)
(* Running code in a network namespace: Netns.Execute of lib/namespace,    *)
(* the lock on the OS thread (ossupport), and the callers that live on it: *)
(* commands.InNamespace, StartMonitor, NetworkSandbox.VethDeviceCount and  *)
(* NetworkSandbox.Setup, and the writer of the DNS server.                 *)
(*                                                                         *)
(* A namespace belongs to an OS thread. Execute starts a goroutine, ties   *)
(* it to its thread, moves the thread to the namespace, calls back, moves  *)
(* the thread back and unties it. The rest of the daemon, which wants the  *)
(* namespace of the host, runs on whatever thread is free. When the Go     *)
(* runtime needs a thread it clones the current one, and a thread starts   *)
(* in the namespace of the one it was cloned from.                         *)
(***************************************************************************)
EXTENDS Naturals

CONSTANTS
  Callers,      \* goroutines that call Execute
  Threads,      \* OS threads, born or not
  Main,         \* the thread that the process starts with
  Spaces,       \* network namespaces
  Host,         \* that of the host
  MayFail,      \* TRUE: open, setns and callbacks may fail
  Nil

ASSUME NetnsAssumption ==
  /\ Main \in Threads /\ Host \in Spaces /\ Nil \notin Threads \cup Spaces /\ MayFail \in BOOLEAN

\* Each call of Execute is a goroutine of its own. StartMonitor calls it in
\* the callback of another call: at most two at a time for a caller.
Frames == Callers \X {1, 2}
Outer(r) == <<r, 1>>
Inner(r) == <<r, 2>>
CallerOf(f) == f[1]

VARIABLES
  inherits,   \* the runtime clones locked threads too, as it did before Go 1.10
  born,       \* threads that exist
  ns,         \* ns[t]: the namespace of thread t
  pc,         \* pc[f]: what the goroutine of frame f does next
  on,         \* on[f]: the thread that it is locked to, or Nil
  target,     \* target[f]: the namespace that Execute is called for
  original,   \* original[f]: what it opened as the namespace to return to
  result,     \* result[f]: what execute returns
  kind,       \* kind[r]: what the caller is doing
  captured,   \* captured[r]: the error that a callback leaves in a variable
  answer,     \* answer[r]: what the caller's last operation returned
  effect,     \* effect[r]: the namespace in which its callback took effect,
              \*   or Nil, if it did not (history)
  panicked    \* the process is gone

vars == <<inherits, born, ns, pc, on, target, original, result, kind,
          captured, answer, effect, panicked>>

Steps == {"none", "go", "enter", "call", "nested", "restore", "unlock", "send"}
Errors == {"ok", "callback failed", "no namespace"}

\* Callers that give the callback's error to Execute ("pass"), those that keep
\* it in a variable of their own and return nil from the callback ("keep"),
\* and StartMonitor, which calls Execute in the callback ("nest").
Kinds == {"pass", "keep", "nest"}

TypeOK ==
  /\ inherits \in BOOLEAN /\ born \subseteq Threads
  /\ ns \in [Threads -> Spaces] /\ pc \in [Frames -> Steps]
  /\ on \in [Frames -> Threads \cup {Nil}]
  /\ target \in [Frames -> Spaces] /\ original \in [Frames -> Spaces]
  /\ result \in [Frames -> Errors]
  /\ kind \in [Callers -> Kinds \cup {"idle"}]
  /\ captured \in [Callers -> {"ok", "failed"}]
  /\ answer \in [Callers -> {"none", "ok", "error"}]
  /\ effect \in [Callers -> Spaces \cup {Nil}]
  /\ panicked \in BOOLEAN

\* The first thread runs main, in the namespace of the host.
Init ==
  /\ inherits \in BOOLEAN
  /\ born = {Main}
  /\ ns = [t \in Threads |-> Host]
  /\ pc = [f \in Frames |-> "none"] /\ on = [f \in Frames |-> Nil]
  /\ target = [f \in Frames |-> Host] /\ original = [f \in Frames |-> Host]
  /\ result = [f \in Frames |-> "ok"]
  /\ kind = [r \in Callers |-> "idle"] /\ captured = [r \in Callers |-> "ok"]
  /\ answer = [r \in Callers |-> "none"] /\ effect = [r \in Callers |-> Nil]
  /\ panicked = FALSE

Locked(t) == \E f \in Frames : on[f] = t

\* A goroutine that is tied to no thread runs on one of these.
Free == {t \in born : ~Locked(t)}

-----------------------------------------------------------------------------
(* The callers. *)

\* Execute(callback): a goroutine is started, and the caller waits for what it
\* sends. StartMonitor runs in the namespace of the host first.
Begin(r, k, n) ==
  /\ ~panicked /\ kind[r] = "idle"
  /\ kind' = [kind EXCEPT ![r] = k]
  /\ pc' = [pc EXCEPT ![Outer(r)] = "go"]
  /\ target' = [target EXCEPT ![Outer(r)] = IF k = "nest" THEN Host ELSE n,
                              ![Inner(r)] = n]
  /\ captured' = [captured EXCEPT ![r] = "ok"]
  /\ answer' = [answer EXCEPT ![r] = "none"] /\ effect' = [effect EXCEPT ![r] = Nil]
  /\ UNCHANGED <<inherits, born, ns, on, original, result, panicked>>

InNamespace(r, n) == Begin(r, "pass", n)
StartMonitor(r, n) == Begin(r, "nest", n)
VethDeviceCount(r, n) == Begin(r, "keep", n)
Write(r, n) == Begin(r, "keep", n)

\* Mutant: the error of Execute itself is not looked at.
OutcomeOfCallback(k, res, cap) ==
  IF (k # "keep" => res = "ok") /\ cap = "ok" THEN "ok" ELSE "error"

\* What a caller returns when Execute has returned res.
Outcome(k, res, cap) ==
  IF res = "ok" /\ (k = "keep" => cap = "ok") THEN "ok" ELSE "error"

-----------------------------------------------------------------------------
(* Netns.execute. *)

\* Where a step of f leaves everything but the frame alone.
FrameOnly ==
  UNCHANGED <<inherits, born, target, kind, captured, answer, effect, panicked>>

\* Mutant: what is kept for the way back is the thread, not its namespace.
KeepThread(f) ==
  /\ ~panicked /\ pc[f] = "go"
  /\ \E t \in Free : /\ on' = [on EXCEPT ![f] = t]
                     /\ original' = [original EXCEPT ![f] = t]
  /\ pc' = [pc EXCEPT ![f] = "enter"]
  /\ UNCHANGED <<ns, result>> /\ FrameOnly

\* The goroutine keeps the thread it runs on, and opens the namespace of that
\* thread (of the task, not of the process).
LockOSThread(f) ==
  /\ ~panicked /\ pc[f] = "go"
  /\ \E t \in Free : /\ on' = [on EXCEPT ![f] = t]
                     /\ original' = [original EXCEPT ![f] = ns[t]]
  /\ pc' = [pc EXCEPT ![f] = "enter"]
  /\ UNCHANGED <<ns, result>> /\ FrameOnly

\* Mutant: execute carries on when SetNS has failed.
FailAndCall(f) ==
  /\ ~panicked /\ MayFail /\ pc[f] = "enter"
  /\ pc' = [pc EXCEPT ![f] = "call"]
  /\ UNCHANGED <<ns, on, original, result>> /\ FrameOnly

\* Mutant: the error path does not send.
FailSilently(f) ==
  /\ ~panicked /\ MayFail /\ pc[f] = "enter"
  /\ pc' = [pc EXCEPT ![f] = "none"] /\ on' = [on EXCEPT ![f] = Nil]
  /\ result' = [result EXCEPT ![f] = "no namespace"]
  /\ UNCHANGED <<ns, original>> /\ FrameOnly

\* Opening the one namespace or entering the other fails. The defers so far
\* run, and the thread is where it was.
Fail(f) ==
  /\ ~panicked /\ MayFail /\ pc[f] = "enter"
  /\ result' = [result EXCEPT ![f] = "no namespace"]
  /\ pc' = [pc EXCEPT ![f] = "unlock"]
  /\ UNCHANGED <<ns, on, original>> /\ FrameOnly

SetNS(f) ==
  /\ ~panicked /\ pc[f] = "enter"
  /\ ns' = [ns EXCEPT ![on[f]] = target[f]]
  /\ pc' = [pc EXCEPT ![f] = "call"]
  /\ UNCHANGED <<on, original, result>> /\ FrameOnly

\* The first callback of StartMonitor: the watcher calls Execute itself.
CallNested(r) ==
  LET f == Outer(r) IN
  /\ ~panicked /\ pc[f] = "call" /\ kind[r] = "nest"
  /\ pc' = [pc EXCEPT ![f] = "nested", ![Inner(r)] = "go"]
  /\ UNCHANGED <<ns, on, original, result>> /\ FrameOnly

\* Any other callback does its work in the namespace of the thread, or fails.
Callback(f) ==
  LET r == CallerOf(f) IN
  /\ ~panicked /\ pc[f] = "call" /\ (kind[r] = "nest" => f = Inner(r))
  /\ pc' = [pc EXCEPT ![f] = "restore"]
  /\ \/ /\ effect' = [effect EXCEPT ![r] = ns[on[f]]]
        /\ result' = [result EXCEPT ![f] = "ok"] /\ UNCHANGED captured
     \/ /\ MayFail /\ kind[r] # "keep"
        /\ result' = [result EXCEPT ![f] = "callback failed"]
        /\ UNCHANGED <<effect, captured>>
     \/ /\ MayFail /\ kind[r] = "keep"
        /\ captured' = [captured EXCEPT ![r] = "failed"]
        /\ result' = [result EXCEPT ![f] = "ok"] /\ UNCHANGED effect
  /\ UNCHANGED <<inherits, born, ns, on, target, original, kind, answer,
                 panicked>>

\* Mutant: without the deferred SetNS the thread stays where it is.
StayThere(f) ==
  /\ ~panicked /\ pc[f] = "restore"
  /\ pc' = [pc EXCEPT ![f] = "unlock"]
  /\ UNCHANGED <<ns, on, original, result>> /\ FrameOnly

\* The deferred SetNS.
Restore(f) ==
  /\ ~panicked /\ pc[f] = "restore"
  /\ ns' = [ns EXCEPT ![on[f]] = original[f]]
  /\ pc' = [pc EXCEPT ![f] = "unlock"]
  /\ UNCHANGED <<on, original, result>> /\ FrameOnly

\* It fails: nothing recovers the panic.
Panic(f) ==
  /\ ~panicked /\ MayFail /\ pc[f] = "restore"
  /\ panicked' = TRUE
  /\ UNCHANGED <<inherits, born, ns, pc, on, target, original, result, kind,
                 captured, answer, effect>>

UnlockOSThread(f) ==
  /\ ~panicked /\ pc[f] = "unlock"
  /\ on' = [on EXCEPT ![f] = Nil]
  /\ pc' = [pc EXCEPT ![f] = "send"]
  /\ UNCHANGED <<ns, original, result>> /\ FrameOnly

\* The channel hands the result to whoever called Execute: the caller ...
Send(r) ==
  LET f == Outer(r) IN
  /\ ~panicked /\ pc[f] = "send"
  /\ pc' = [pc EXCEPT ![f] = "none"] /\ kind' = [kind EXCEPT ![r] = "idle"]
  /\ answer' = [answer EXCEPT ![r] = Outcome(kind[r], result[f], captured[r])]
  /\ effect' = [effect EXCEPT ![r] = Nil]
  /\ captured' = [captured EXCEPT ![r] = "ok"]
  /\ target' = [target EXCEPT ![f] = Host, ![Inner(r)] = Host]
  /\ original' = [original EXCEPT ![f] = Host, ![Inner(r)] = Host]
  /\ result' = [result EXCEPT ![f] = "ok", ![Inner(r)] = "ok"]
  /\ UNCHANGED <<inherits, born, ns, on, panicked>>

\* ... or the callback of the first frame, whose own error it becomes.
SendNested(r) ==
  LET f == Inner(r) IN
  /\ ~panicked /\ pc[f] = "send"
  /\ pc' = [pc EXCEPT ![f] = "none", ![Outer(r)] = "restore"]
  /\ result' = [result EXCEPT ![Outer(r)] =
                  IF result[f] = "ok" THEN "ok" ELSE "callback failed"]
  /\ UNCHANGED <<ns, on, original>> /\ FrameOnly

-----------------------------------------------------------------------------
(* The Go runtime. *)

\* A thread is cloned from one that is running. Since Go 1.10 a locked thread
\* leaves that to a thread that has never been locked.
Clone(t, u) ==
  /\ ~panicked /\ t \in born /\ u \notin born
  /\ Locked(t) => inherits
  /\ born' = born \cup {u} /\ ns' = [ns EXCEPT ![u] = ns[t]]
  /\ UNCHANGED <<inherits, pc, on, target, original, result, kind, captured,
                 answer, effect, panicked>>

\* The template thread of Go 1.10, which nothing is ever locked to.
CloneTemplate(u) ==
  /\ ~panicked /\ ~inherits /\ u \notin born
  /\ born' = born \cup {u} /\ ns' = [ns EXCEPT ![u] = Host]
  /\ UNCHANGED <<inherits, pc, on, target, original, result, kind, captured,
                 answer, effect, panicked>>

-----------------------------------------------------------------------------
FrameStep(f) ==
  \/ LockOSThread(f) \/ Fail(f) \/ SetNS(f)
  \/ CallNested(CallerOf(f)) \/ Callback(f) \/ Restore(f) \/ Panic(f)
  \/ UnlockOSThread(f) \/ Send(CallerOf(f)) \/ SendNested(CallerOf(f))

MakeThread == \/ \E t, u \in Threads : Clone(t, u)
             \/ \E u \in Threads : CloneTemplate(u)

Next ==
  \/ \E r \in Callers :
       \E n \in Spaces \ {Host} :
         \/ InNamespace(r, n) \/ StartMonitor(r, n)
         \/ VethDeviceCount(r, n) \/ Write(r, n)
  \/ \E f \in Frames : FrameStep(f)
  \/ MakeThread

Spec == Init /\ [][Next]_vars

\* The scheduler runs every goroutine in the end, and finds or makes a thread
\* for it.
FairSpec ==
  /\ Spec
  /\ \A f \in Frames : WF_vars(FrameStep(f)) /\ SF_vars(LockOSThread(f))
  /\ WF_vars(MakeThread)

-----------------------------------------------------------------------------
(* Properties. *)

\* A callback runs in the namespace that Execute was called for, whatever
\* other goroutines do with threads meanwhile, and also where the thread
\* itself was born in the wrong one.
CallbackInNamespace ==
  \A f \in Frames : pc[f] = "call" => ns[on[f]] = target[f]

\* Provided that the runtime clones no locked thread, a goroutine that asks
\* for no namespace runs in that of the host: CreateVxlan, MoveLink of the
\* vxlan device and the making of a namespace depend on it.
FreeThreadsInHost == ~inherits => \A t \in Free : ns[t] = Host

\* A caller that returns no error had its callback take effect, in the
\* namespace that it asked for: neither an error of Execute nor one that the
\* callback kept to itself is lost. (A count of zero veth devices lets the
\* sandbox be destroyed.)
OkMeansDone ==
  [][\A r \in Callers :
       kind[r] # "idle" /\ answer'[r] = "ok" => effect[r] = target[Inner(r)]]_vars

\* Every call of Execute returns, or the process is gone; nested calls and
\* locked threads block nobody for good.
ExecuteReturns ==
  \A r \in Callers : kind[r] # "idle" ~> (kind[r] = "idle" \/ panicked)
=============================================================================
