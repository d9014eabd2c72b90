---------------------------- MODULE NetnsProofs -----------------------------
(***************************************************************************)
(* What Netns promises for any number of callers, threads and namespaces.  *)
(* IInv says where the thread of a frame is at each step of execute, that  *)
(* no two frames share a thread, and how the two frames of a caller depend *)
(* on each other.                                                          *)
(***************************************************************************)
EXTENDS Netns, TLAPS

Inside == {"call", "nested", "restore"}
Late == {"restore", "unlock", "send"}

\* A frame has a thread exactly between LockOSThread and UnlockOSThread, and
\* no other frame has the same one.
OwnThread ==
  /\ \A f \in Frames : on[f] # Nil <=> pc[f] \in Inside \cup {"enter", "unlock"}
  /\ \A f \in Frames : on[f] # Nil => on[f] \in born
  /\ \A f, g \in Frames : f # g /\ on[f] # Nil => on[f] # on[g]

\* The thread is in the target inside, and where it came from around that.
PlaceOf(f) ==
  /\ pc[f] \in Inside => ns[on[f]] = target[f]
  /\ pc[f] \in {"enter", "unlock"} => ns[on[f]] = original[f]

ThreadPlace == \A f \in Frames : PlaceOf(f)

\* Where no locked thread is cloned, threads come from the host.
HostPlace ==
  ~inherits =>
    /\ \A t \in born : (\A f \in Frames : on[f] # t) => ns[t] = Host
    /\ \A f \in Frames : on[f] # Nil => original[f] = Host

\* The second frame of a caller lives within the callback of the first.
NestingOf(r) ==
  /\ kind[r] = "idle" => pc[Outer(r)] = "none" /\ pc[Inner(r)] = "none"
  /\ pc[Inner(r)] # "none" => pc[Outer(r)] = "nested" /\ kind[r] = "nest"
  /\ kind[r] \in {"pass", "keep"} => target[Outer(r)] = target[Inner(r)]

Nesting == \A r \in Callers : NestingOf(r)

\* A result without an error stands for an effect.
TruthOf(r) ==
  /\ kind[r] # "idle" => answer[r] = "none"
  /\ kind[r] # "keep" => captured[r] = "ok"
  /\ pc[Outer(r)] \in Late /\ result[Outer(r)] = "ok" /\ captured[r] = "ok"
       => effect[r] = target[Inner(r)]
  /\ pc[Inner(r)] \in Late /\ result[Inner(r)] = "ok"
       => effect[r] = target[Inner(r)]

Truth == \A r \in Callers : TruthOf(r)

IInv == TypeOK /\ OwnThread /\ ThreadPlace /\ HostPlace /\ Nesting /\ Truth

-----------------------------------------------------------------------------
\* The frames of callers, and the callers of frames.
LEMMA FrameFacts ==
  /\ \A r \in Callers : Outer(r) \in Frames /\ Inner(r) \in Frames
  /\ \A r \in Callers : CallerOf(Outer(r)) = r /\ CallerOf(Inner(r)) = r
  /\ \A r, q \in Callers : Outer(r) # Inner(q)
  /\ \A f \in Frames : CallerOf(f) \in Callers
  /\ \A f \in Frames : f = Outer(CallerOf(f)) \/ f = Inner(CallerOf(f))
BY DEF Frames, Outer, Inner, CallerOf

\* Different callers have different frames.
LEMMA DistinctFrames ==
  ASSUME NEW r \in Callers, NEW q \in Callers, q # r
  PROVE  Outer(q) # Outer(r) /\ Outer(q) # Inner(r) /\ Inner(q) # Inner(r)
BY DEF Outer, Inner

\* IInv holds when the process starts, on its one thread.
LEMMA InitIInv == Init => IInv
<1> SUFFICES ASSUME Init PROVE IInv OBVIOUS
<1> USE FrameFacts, NetnsAssumption
<1>1. TypeOK BY DEF Init, TypeOK, Inside, Late, Kinds, Steps, Errors
<1>2. OwnThread BY DEF Init, OwnThread, Inside, Late
<1>3. ThreadPlace BY DEF Init, ThreadPlace, PlaceOf, Inside, Late
<1>4. HostPlace BY DEF Init, HostPlace, Inside, Late
<1>5. Nesting BY DEF Init, Nesting, NestingOf, Inside, Late
<1>6. Truth BY DEF Init, Truth, TruthOf, Inside, Late
<1> QED BY <1>1, <1>2, <1>3, <1>4, <1>5, <1>6 DEF IInv

\* A caller starts a frame only when neither of its frames is in use.
LEMMA BeginStep ==
  ASSUME IInv, NEW r \in Callers, NEW k \in Kinds, NEW n \in Spaces, Begin(r, k, n)
  PROVE  IInv'
<1> USE FrameFacts, NetnsAssumption DEF Begin
<1> TypeOK /\ OwnThread BY DEF IInv
<1>1. TypeOK' BY DEF TypeOK, OwnThread, Inside, Kinds, Steps, Errors
<1>2. OwnThread'
  <2>1. NestingOf(r) BY DEF IInv, Nesting
  <2> QED BY <2>1 DEF NestingOf, TypeOK, OwnThread, Inside
<1>3. ThreadPlace'
  <2> SUFFICES ASSUME NEW g \in Frames PROVE PlaceOf(g)' BY DEF ThreadPlace
  <2>1. PlaceOf(g) /\ NestingOf(CallerOf(g)) BY DEF IInv, ThreadPlace, Nesting
  <2> QED BY <2>1 DEF PlaceOf, NestingOf, TypeOK, OwnThread, Inside
<1>4. HostPlace' BY DEF IInv, HostPlace, ThreadPlace, PlaceOf, TypeOK, OwnThread, Inside
<1>5. Nesting'
  <2> SUFFICES ASSUME NEW q \in Callers PROVE NestingOf(q)' BY DEF Nesting
  <2>1. NestingOf(q) BY DEF IInv, Nesting
  <2> QED BY <2>1 DEF NestingOf, TypeOK, Kinds
<1>6. Truth'
  <2> SUFFICES ASSUME NEW q \in Callers PROVE TruthOf(q)' BY DEF Truth
  <2>1. TruthOf(q) /\ NestingOf(q) BY DEF IInv, Truth, Nesting
  <2>2. PlaceOf(Outer(q)) /\ PlaceOf(Inner(q)) BY DEF IInv, ThreadPlace
  <2> QED BY <2>1, <2>2 DEF TruthOf, NestingOf, PlaceOf, TypeOK, Inside, Late, Kinds
<1> QED BY <1>1, <1>2, <1>3, <1>4, <1>5, <1>6 DEF IInv

\* The thread that a frame takes was free.
LEMMA LockOSThreadStep ==
  ASSUME IInv, NEW f \in Frames, LockOSThread(f)
  PROVE  IInv'
<1> USE FrameFacts, NetnsAssumption DEF LockOSThread, Free, Locked, FrameOnly
<1> TypeOK /\ OwnThread BY DEF IInv
<1>0. PICK t \in Free : /\ on' = [on EXCEPT ![f] = t]
                       /\ original' = [original EXCEPT ![f] = ns[t]]
  OBVIOUS
<1>a. t \in born /\ t \in Threads /\ \A g \in Frames : on[g] # t BY <1>0 DEF TypeOK
<1>1. TypeOK'
  <2>1. ns[t] \in Spaces BY <1>a DEF TypeOK
  <2>2. on' \in [Frames -> Threads \cup {Nil}] BY <1>0, <1>a DEF TypeOK
  <2>3. original' \in [Frames -> Spaces] BY <1>0, <2>1 DEF TypeOK
  <2>4. pc' \in [Frames -> Steps] BY DEF TypeOK, Steps
  <2> QED BY <2>2, <2>3, <2>4 DEF TypeOK
<1>2. OwnThread' BY <1>0, <1>a DEF TypeOK, OwnThread, Inside
<1>3. ThreadPlace'
  <2> SUFFICES ASSUME NEW g \in Frames PROVE PlaceOf(g)' BY DEF ThreadPlace
  <2>1. PlaceOf(g) /\ NestingOf(CallerOf(g)) BY DEF IInv, ThreadPlace, Nesting
  <2> QED BY <1>0, <1>a, <2>1 DEF PlaceOf, NestingOf, TypeOK, OwnThread, Inside
<1>4. HostPlace' BY <1>0, <1>a DEF IInv, HostPlace, ThreadPlace, PlaceOf, TypeOK, OwnThread, Inside
<1>5. Nesting'
  <2> SUFFICES ASSUME NEW q \in Callers PROVE NestingOf(q)' BY DEF Nesting
  <2>1. NestingOf(q) BY DEF IInv, Nesting
  <2> QED BY <1>0, <1>a, <2>1 DEF NestingOf, TypeOK, Kinds
<1>6. Truth'
  <2> SUFFICES ASSUME NEW q \in Callers PROVE TruthOf(q)' BY DEF Truth
  <2>1. TruthOf(q) /\ NestingOf(q) BY DEF IInv, Truth, Nesting
  <2>2. PlaceOf(Outer(q)) /\ PlaceOf(Inner(q)) BY DEF IInv, ThreadPlace
  <2> QED BY <1>0, <1>a, <2>1, <2>2 DEF TruthOf, NestingOf, PlaceOf, TypeOK, Inside, Late, Kinds
<1> QED BY <1>1, <1>2, <1>3, <1>4, <1>5, <1>6 DEF IInv

\* A failure leaves the thread where it is.
LEMMA FailStep ==
  ASSUME IInv, NEW f \in Frames, Fail(f)
  PROVE  IInv'
<1> USE FrameFacts, NetnsAssumption DEF Fail, FrameOnly
<1> TypeOK /\ OwnThread BY DEF IInv
<1>1. TypeOK' BY DEF TypeOK, OwnThread, Inside, Kinds, Steps, Errors
<1>2. OwnThread' BY DEF TypeOK, OwnThread, Inside
<1>3. ThreadPlace'
  <2> SUFFICES ASSUME NEW g \in Frames PROVE PlaceOf(g)' BY DEF ThreadPlace
  <2>1. PlaceOf(g) /\ NestingOf(CallerOf(g)) BY DEF IInv, ThreadPlace, Nesting
  <2> QED BY <2>1 DEF PlaceOf, NestingOf, TypeOK, OwnThread, Inside
<1>4. HostPlace' BY DEF IInv, HostPlace, ThreadPlace, PlaceOf, TypeOK, OwnThread, Inside
<1>5. Nesting'
  <2> SUFFICES ASSUME NEW q \in Callers PROVE NestingOf(q)' BY DEF Nesting
  <2>1. NestingOf(q) BY DEF IInv, Nesting
  <2> QED BY <2>1 DEF NestingOf, TypeOK, Kinds
<1>6. Truth'
  <2> SUFFICES ASSUME NEW q \in Callers PROVE TruthOf(q)' BY DEF Truth
  <2>1. TruthOf(q) /\ NestingOf(q) BY DEF IInv, Truth, Nesting
  <2>2. PlaceOf(Outer(q)) /\ PlaceOf(Inner(q)) BY DEF IInv, ThreadPlace
  <2> QED BY <2>1, <2>2 DEF TruthOf, NestingOf, PlaceOf, TypeOK, Inside, Late, Kinds
<1> QED BY <1>1, <1>2, <1>3, <1>4, <1>5, <1>6 DEF IInv

\* Only the own thread of the frame moves.
LEMMA SetNSStep ==
  ASSUME IInv, NEW f \in Frames, SetNS(f)
  PROVE  IInv'
<1> USE FrameFacts, NetnsAssumption DEF SetNS, FrameOnly
<1> TypeOK /\ OwnThread BY DEF IInv
<1>1. TypeOK' BY DEF TypeOK, OwnThread, Inside, Kinds, Steps, Errors
<1>2. OwnThread' BY DEF TypeOK, OwnThread, Inside
<1>3. ThreadPlace'
  <2> SUFFICES ASSUME NEW g \in Frames PROVE PlaceOf(g)' BY DEF ThreadPlace
  <2>1. PlaceOf(g) /\ NestingOf(CallerOf(g)) BY DEF IInv, ThreadPlace, Nesting
  <2> QED BY <2>1 DEF PlaceOf, NestingOf, TypeOK, OwnThread, Inside
<1>4. HostPlace' BY DEF IInv, HostPlace, ThreadPlace, PlaceOf, TypeOK, OwnThread, Inside
<1>5. Nesting'
  <2> SUFFICES ASSUME NEW q \in Callers PROVE NestingOf(q)' BY DEF Nesting
  <2>1. NestingOf(q) BY DEF IInv, Nesting
  <2> QED BY <2>1 DEF NestingOf, TypeOK, Kinds
<1>6. Truth'
  <2> SUFFICES ASSUME NEW q \in Callers PROVE TruthOf(q)' BY DEF Truth
  <2>1. TruthOf(q) /\ NestingOf(q) BY DEF IInv, Truth, Nesting
  <2>2. PlaceOf(Outer(q)) /\ PlaceOf(Inner(q)) BY DEF IInv, ThreadPlace
  <2> QED BY <2>1, <2>2 DEF TruthOf, NestingOf, PlaceOf, TypeOK, Inside, Late, Kinds
<1> QED BY <1>1, <1>2, <1>3, <1>4, <1>5, <1>6 DEF IInv

\* The second frame starts while the first waits in its callback.
LEMMA CallNestedStep ==
  ASSUME IInv, NEW r \in Callers, CallNested(r)
  PROVE  IInv'
<1> USE FrameFacts, NetnsAssumption DEF CallNested, FrameOnly
<1> TypeOK /\ OwnThread BY DEF IInv
<1>1. TypeOK' BY DEF TypeOK, OwnThread, Inside, Kinds, Steps, Errors
<1>2. OwnThread'
  <2>1. NestingOf(r) BY DEF IInv, Nesting
  <2> QED BY <2>1 DEF NestingOf, TypeOK, OwnThread, Inside
<1>3. ThreadPlace'
  <2> SUFFICES ASSUME NEW g \in Frames PROVE PlaceOf(g)' BY DEF ThreadPlace
  <2>1. PlaceOf(g) /\ NestingOf(CallerOf(g)) BY DEF IInv, ThreadPlace, Nesting
  <2> QED BY <2>1 DEF PlaceOf, NestingOf, TypeOK, OwnThread, Inside
<1>4. HostPlace' BY DEF IInv, HostPlace, ThreadPlace, PlaceOf, TypeOK, OwnThread, Inside
<1>5. Nesting'
  <2> SUFFICES ASSUME NEW q \in Callers PROVE NestingOf(q)' BY DEF Nesting
  <2>1. NestingOf(q) BY DEF IInv, Nesting
  <2> QED BY <2>1 DEF NestingOf, TypeOK, Kinds
<1>6. Truth'
  <2> SUFFICES ASSUME NEW q \in Callers PROVE TruthOf(q)' BY DEF Truth
  <2>1. TruthOf(q) /\ NestingOf(q) BY DEF IInv, Truth, Nesting
  <2>2. PlaceOf(Outer(q)) /\ PlaceOf(Inner(q)) BY DEF IInv, ThreadPlace
  <2> QED BY <2>1, <2>2 DEF TruthOf, NestingOf, PlaceOf, TypeOK, Inside, Late, Kinds
<1> QED BY <1>1, <1>2, <1>3, <1>4, <1>5, <1>6 DEF IInv

\* The callback takes effect where the thread of the frame is.
LEMMA CallbackStep ==
  ASSUME IInv, NEW f \in Frames, Callback(f)
  PROVE  IInv'
<1> USE FrameFacts, NetnsAssumption DEF Callback
<1> TypeOK /\ OwnThread BY DEF IInv
<1>1. TypeOK'
  <2>1. ns[on[f]] \in Spaces BY DEF TypeOK, OwnThread, Inside
  <2>2. pc' \in [Frames -> Steps] BY DEF TypeOK, Steps
  <2>5. result' \in [Frames -> Errors] BY DEF TypeOK, Errors
  <2>3. captured' \in [Callers -> {"ok", "failed"}] BY DEF TypeOK
  <2>4. effect' \in [Callers -> Spaces \cup {Nil}] BY <2>1 DEF TypeOK
  <2> QED BY <2>2, <2>3, <2>4, <2>5 DEF TypeOK
<1>2. OwnThread' BY DEF TypeOK, OwnThread, Inside
<1>3. ThreadPlace'
  <2> SUFFICES ASSUME NEW g \in Frames PROVE PlaceOf(g)' BY DEF ThreadPlace
  <2>1. PlaceOf(g) /\ NestingOf(CallerOf(g)) BY DEF IInv, ThreadPlace, Nesting
  <2> QED BY <2>1 DEF PlaceOf, NestingOf, TypeOK, OwnThread, Inside
<1>4. HostPlace' BY DEF IInv, HostPlace, ThreadPlace, PlaceOf, TypeOK, OwnThread, Inside
<1>5. Nesting'
  <2> SUFFICES ASSUME NEW q \in Callers PROVE NestingOf(q)' BY DEF Nesting
  <2>1. NestingOf(q) BY DEF IInv, Nesting
  <2> QED BY <2>1 DEF NestingOf, TypeOK, Kinds
<1>6. Truth'
  <2> SUFFICES ASSUME NEW q \in Callers PROVE TruthOf(q)' BY DEF Truth
  <2>1. TruthOf(q) /\ NestingOf(q) BY DEF IInv, Truth, Nesting
  <2>2. PlaceOf(Outer(q)) /\ PlaceOf(Inner(q)) BY DEF IInv, ThreadPlace
  <2>3. CASE q # CallerOf(f)
    <3>1. Outer(q) # f /\ Inner(q) # f BY <2>3
    <3> QED BY <2>1, <2>3, <3>1 DEF TruthOf, TypeOK, Late
  <2>4. CASE q = CallerOf(f) /\ f = Outer(q)
    <3>1. ns[on[f]] = target[f] /\ kind[q] # "nest" /\ kind[q] # "idle"
      BY <2>1, <2>2, <2>4 DEF PlaceOf, NestingOf, Inside
    <3>a. kind[q] \in {"pass", "keep"} BY <3>1 DEF TypeOK, Kinds
    <3>b. pc[f] = "call" OBVIOUS
    <3>2. target[f] = target[Inner(q)] /\ pc[Inner(q)] = "none"
      BY <2>1, <2>4, <3>a, <3>b DEF NestingOf
    <3>3. CASE /\ effect' = [effect EXCEPT ![q] = ns[on[f]]]
               /\ result' = [result EXCEPT ![f] = "ok"] /\ UNCHANGED captured
      BY <2>1, <2>4, <3>1, <3>2, <3>3 DEF TruthOf, TypeOK, Late
    <3>4. CASE /\ result' = [result EXCEPT ![f] = "callback failed"]
               /\ UNCHANGED <<effect, captured>>
      BY <2>1, <2>4, <3>1, <3>2, <3>4 DEF TruthOf, TypeOK, Late
    <3>5. CASE /\ kind[q] = "keep" /\ UNCHANGED effect
               /\ captured' = [captured EXCEPT ![q] = "failed"]
      BY <2>1, <2>4, <3>1, <3>2, <3>5 DEF TruthOf, TypeOK, Late
    <3> QED BY <2>4, <3>3, <3>4, <3>5
  <2>5. CASE q = CallerOf(f) /\ f = Inner(q)
    <3>1. ns[on[f]] = target[f] /\ kind[q] = "nest" /\ pc[Outer(q)] = "nested"
      BY <2>1, <2>2, <2>5 DEF PlaceOf, NestingOf, Inside
    <3> QED BY <2>1, <2>5, <3>1 DEF TruthOf, TypeOK, Late
  <2> QED BY <2>3, <2>4, <2>5
<1> QED BY <1>1, <1>2, <1>3, <1>4, <1>5, <1>6 DEF IInv

\* The thread returns to where it came from.
LEMMA RestoreStep ==
  ASSUME IInv, NEW f \in Frames, Restore(f)
  PROVE  IInv'
<1> USE FrameFacts, NetnsAssumption DEF Restore, FrameOnly
<1> TypeOK /\ OwnThread BY DEF IInv
<1>1. TypeOK' BY DEF TypeOK, OwnThread, Inside, Kinds, Steps, Errors
<1>2. OwnThread' BY DEF TypeOK, OwnThread, Inside
<1>3. ThreadPlace'
  <2> SUFFICES ASSUME NEW g \in Frames PROVE PlaceOf(g)' BY DEF ThreadPlace
  <2>1. PlaceOf(g) /\ NestingOf(CallerOf(g)) BY DEF IInv, ThreadPlace, Nesting
  <2> QED BY <2>1 DEF PlaceOf, NestingOf, TypeOK, OwnThread, Inside
<1>4. HostPlace' BY DEF IInv, HostPlace, ThreadPlace, PlaceOf, TypeOK, OwnThread, Inside
<1>5. Nesting'
  <2> SUFFICES ASSUME NEW q \in Callers PROVE NestingOf(q)' BY DEF Nesting
  <2>1. NestingOf(q) BY DEF IInv, Nesting
  <2> QED BY <2>1 DEF NestingOf, TypeOK, Kinds
<1>6. Truth'
  <2> SUFFICES ASSUME NEW q \in Callers PROVE TruthOf(q)' BY DEF Truth
  <2>1. TruthOf(q) /\ NestingOf(q) BY DEF IInv, Truth, Nesting
  <2>2. PlaceOf(Outer(q)) /\ PlaceOf(Inner(q)) BY DEF IInv, ThreadPlace
  <2> QED BY <2>1, <2>2 DEF TruthOf, NestingOf, PlaceOf, TypeOK, Inside, Late, Kinds
<1> QED BY <1>1, <1>2, <1>3, <1>4, <1>5, <1>6 DEF IInv

\* A panic changes nothing else.
LEMMA PanicStep ==
  ASSUME IInv, NEW f \in Frames, Panic(f)
  PROVE  IInv'
<1> USE FrameFacts, NetnsAssumption DEF Panic
<1> TypeOK /\ OwnThread BY DEF IInv
<1>1. TypeOK' BY DEF TypeOK, OwnThread, Inside, Kinds, Steps, Errors
<1>2. OwnThread' BY DEF TypeOK, OwnThread, Inside
<1>3. ThreadPlace'
  <2> SUFFICES ASSUME NEW g \in Frames PROVE PlaceOf(g)' BY DEF ThreadPlace
  <2>1. PlaceOf(g) /\ NestingOf(CallerOf(g)) BY DEF IInv, ThreadPlace, Nesting
  <2> QED BY <2>1 DEF PlaceOf, NestingOf, TypeOK, OwnThread, Inside
<1>4. HostPlace' BY DEF IInv, HostPlace, ThreadPlace, PlaceOf, TypeOK, OwnThread, Inside
<1>5. Nesting'
  <2> SUFFICES ASSUME NEW q \in Callers PROVE NestingOf(q)' BY DEF Nesting
  <2>1. NestingOf(q) BY DEF IInv, Nesting
  <2> QED BY <2>1 DEF NestingOf, TypeOK, Kinds
<1>6. Truth'
  <2> SUFFICES ASSUME NEW q \in Callers PROVE TruthOf(q)' BY DEF Truth
  <2>1. TruthOf(q) /\ NestingOf(q) BY DEF IInv, Truth, Nesting
  <2>2. PlaceOf(Outer(q)) /\ PlaceOf(Inner(q)) BY DEF IInv, ThreadPlace
  <2> QED BY <2>1, <2>2 DEF TruthOf, NestingOf, PlaceOf, TypeOK, Inside, Late, Kinds
<1> QED BY <1>1, <1>2, <1>3, <1>4, <1>5, <1>6 DEF IInv

\* A thread is set free where it came from.
LEMMA UnlockOSThreadStep ==
  ASSUME IInv, NEW f \in Frames, UnlockOSThread(f)
  PROVE  IInv'
<1> USE FrameFacts, NetnsAssumption DEF UnlockOSThread, FrameOnly
<1> TypeOK /\ OwnThread BY DEF IInv
<1>1. TypeOK' BY DEF TypeOK, OwnThread, Inside, Kinds, Steps, Errors
<1>2. OwnThread' BY DEF TypeOK, OwnThread, Inside
<1>3. ThreadPlace'
  <2> SUFFICES ASSUME NEW g \in Frames PROVE PlaceOf(g)' BY DEF ThreadPlace
  <2>1. PlaceOf(g) /\ NestingOf(CallerOf(g)) BY DEF IInv, ThreadPlace, Nesting
  <2> QED BY <2>1 DEF PlaceOf, NestingOf, TypeOK, OwnThread, Inside
<1>4. HostPlace' BY DEF IInv, HostPlace, ThreadPlace, PlaceOf, TypeOK, OwnThread, Inside
<1>5. Nesting'
  <2> SUFFICES ASSUME NEW q \in Callers PROVE NestingOf(q)' BY DEF Nesting
  <2>1. NestingOf(q) BY DEF IInv, Nesting
  <2> QED BY <2>1 DEF NestingOf, TypeOK, Kinds
<1>6. Truth'
  <2> SUFFICES ASSUME NEW q \in Callers PROVE TruthOf(q)' BY DEF Truth
  <2>1. TruthOf(q) /\ NestingOf(q) BY DEF IInv, Truth, Nesting
  <2>2. PlaceOf(Outer(q)) /\ PlaceOf(Inner(q)) BY DEF IInv, ThreadPlace
  <2> QED BY <2>1, <2>2 DEF TruthOf, NestingOf, PlaceOf, TypeOK, Inside, Late, Kinds
<1> QED BY <1>1, <1>2, <1>3, <1>4, <1>5, <1>6 DEF IInv

\* The caller is idle again, and both of its frames are unused.
LEMMA SendStep ==
  ASSUME IInv, NEW r \in Callers, Send(r)
  PROVE  IInv'
<1> USE FrameFacts, NetnsAssumption DEF Send, Outcome
<1> TypeOK /\ OwnThread BY DEF IInv
<1>1. TypeOK' BY DEF TypeOK, OwnThread, Inside, Kinds, Steps, Errors
<1>2. OwnThread' BY DEF TypeOK, OwnThread, Inside
<1>3. ThreadPlace'
  <2> SUFFICES ASSUME NEW g \in Frames PROVE PlaceOf(g)' BY DEF ThreadPlace
  <2>1. PlaceOf(g) /\ NestingOf(CallerOf(g)) BY DEF IInv, ThreadPlace, Nesting
  <2> QED BY <2>1 DEF PlaceOf, NestingOf, TypeOK, OwnThread, Inside
<1>4. HostPlace' BY DEF IInv, HostPlace, ThreadPlace, PlaceOf, TypeOK, OwnThread, Inside
<1>5. Nesting'
  <2> SUFFICES ASSUME NEW q \in Callers PROVE NestingOf(q)' BY DEF Nesting
  <2>1. NestingOf(q) BY DEF IInv, Nesting
  <2> QED BY <2>1 DEF NestingOf, TypeOK, Kinds
<1>6. Truth'
  <2> SUFFICES ASSUME NEW q \in Callers PROVE TruthOf(q)' BY DEF Truth
  <2>1. TruthOf(q) /\ NestingOf(q) BY DEF IInv, Truth, Nesting
  <2>2. PlaceOf(Outer(q)) /\ PlaceOf(Inner(q)) BY DEF IInv, ThreadPlace
  <2> QED BY <2>1, <2>2 DEF TruthOf, NestingOf, PlaceOf, TypeOK, Inside, Late, Kinds
<1> QED BY <1>1, <1>2, <1>3, <1>4, <1>5, <1>6 DEF IInv

\* The error of the second frame becomes that of the first.
LEMMA SendNestedStep ==
  ASSUME IInv, NEW r \in Callers, SendNested(r)
  PROVE  IInv'
<1> USE FrameFacts, NetnsAssumption DEF SendNested, FrameOnly
<1> TypeOK /\ OwnThread BY DEF IInv
<1>1. TypeOK' BY DEF TypeOK, OwnThread, Inside, Kinds, Steps, Errors
<1>2. OwnThread'
  <2>1. NestingOf(r) BY DEF IInv, Nesting
  <2> QED BY <2>1 DEF NestingOf, TypeOK, OwnThread, Inside
<1>3. ThreadPlace'
  <2> SUFFICES ASSUME NEW g \in Frames PROVE PlaceOf(g)' BY DEF ThreadPlace
  <2>1. PlaceOf(g) /\ NestingOf(CallerOf(g)) BY DEF IInv, ThreadPlace, Nesting
  <2> QED BY <2>1 DEF PlaceOf, NestingOf, TypeOK, OwnThread, Inside
<1>4. HostPlace' BY DEF IInv, HostPlace, ThreadPlace, PlaceOf, TypeOK, OwnThread, Inside
<1>5. Nesting'
  <2> SUFFICES ASSUME NEW q \in Callers PROVE NestingOf(q)' BY DEF Nesting
  <2>1. NestingOf(q) BY DEF IInv, Nesting
  <2> QED BY <2>1 DEF NestingOf, TypeOK, Kinds
<1>6. Truth'
  <2> SUFFICES ASSUME NEW q \in Callers PROVE TruthOf(q)' BY DEF Truth
  <2>1. TruthOf(q) /\ NestingOf(q) BY DEF IInv, Truth, Nesting
  <2>2. PlaceOf(Outer(q)) /\ PlaceOf(Inner(q)) BY DEF IInv, ThreadPlace
  <2>3. CASE q = r
    <3>1. kind[q] = "nest" /\ captured[q] = "ok"
      BY <2>1, <2>3 DEF TruthOf, NestingOf
    <3>2. result[Inner(q)] = "ok" => effect[q] = target[Inner(q)]
      BY <2>1, <2>3 DEF TruthOf, Late
    <3> QED BY <2>1, <2>3, <3>1, <3>2 DEF TruthOf, TypeOK, Late
  <2>4. CASE q # r
    <3>1. Outer(q) # Outer(r) /\ Outer(q) # Inner(r) /\ Inner(q) # Inner(r)
      BY <2>4, DistinctFrames
    <3> QED BY <2>1, <2>4, <3>1 DEF TruthOf, TypeOK, Late
  <2> QED BY <2>3, <2>4
<1> QED BY <1>1, <1>2, <1>3, <1>4, <1>5, <1>6 DEF IInv

\* A new thread starts where a free one is, or the runtime inherits.
LEMMA CloneStep ==
  ASSUME IInv, NEW t \in Threads, NEW u \in Threads, Clone(t, u)
  PROVE  IInv'
<1> USE FrameFacts, NetnsAssumption DEF Clone, Locked
<1> TypeOK /\ OwnThread BY DEF IInv
<1>1. TypeOK' BY DEF TypeOK, OwnThread, Inside, Kinds, Steps, Errors
<1>2. OwnThread' BY DEF TypeOK, OwnThread, Inside
<1>3. ThreadPlace'
  <2> SUFFICES ASSUME NEW g \in Frames PROVE PlaceOf(g)' BY DEF ThreadPlace
  <2>1. PlaceOf(g) /\ NestingOf(CallerOf(g)) BY DEF IInv, ThreadPlace, Nesting
  <2> QED BY <2>1 DEF PlaceOf, NestingOf, TypeOK, OwnThread, Inside
<1>4. HostPlace' BY DEF IInv, HostPlace, ThreadPlace, PlaceOf, TypeOK, OwnThread, Inside
<1>5. Nesting'
  <2> SUFFICES ASSUME NEW q \in Callers PROVE NestingOf(q)' BY DEF Nesting
  <2>1. NestingOf(q) BY DEF IInv, Nesting
  <2> QED BY <2>1 DEF NestingOf, TypeOK, Kinds
<1>6. Truth'
  <2> SUFFICES ASSUME NEW q \in Callers PROVE TruthOf(q)' BY DEF Truth
  <2>1. TruthOf(q) /\ NestingOf(q) BY DEF IInv, Truth, Nesting
  <2>2. PlaceOf(Outer(q)) /\ PlaceOf(Inner(q)) BY DEF IInv, ThreadPlace
  <2> QED BY <2>1, <2>2 DEF TruthOf, NestingOf, PlaceOf, TypeOK, Inside, Late, Kinds
<1> QED BY <1>1, <1>2, <1>3, <1>4, <1>5, <1>6 DEF IInv

\* A new thread starts in the namespace of the host.
LEMMA CloneTemplateStep ==
  ASSUME IInv, NEW u \in Threads, CloneTemplate(u)
  PROVE  IInv'
<1> USE FrameFacts, NetnsAssumption DEF CloneTemplate, Locked
<1> TypeOK /\ OwnThread BY DEF IInv
<1>1. TypeOK' BY DEF TypeOK, OwnThread, Inside, Kinds, Steps, Errors
<1>2. OwnThread' BY DEF TypeOK, OwnThread, Inside
<1>3. ThreadPlace'
  <2> SUFFICES ASSUME NEW g \in Frames PROVE PlaceOf(g)' BY DEF ThreadPlace
  <2>1. PlaceOf(g) /\ NestingOf(CallerOf(g)) BY DEF IInv, ThreadPlace, Nesting
  <2> QED BY <2>1 DEF PlaceOf, NestingOf, TypeOK, OwnThread, Inside
<1>4. HostPlace' BY DEF IInv, HostPlace, ThreadPlace, PlaceOf, TypeOK, OwnThread, Inside
<1>5. Nesting'
  <2> SUFFICES ASSUME NEW q \in Callers PROVE NestingOf(q)' BY DEF Nesting
  <2>1. NestingOf(q) BY DEF IInv, Nesting
  <2> QED BY <2>1 DEF NestingOf, TypeOK, Kinds
<1>6. Truth'
  <2> SUFFICES ASSUME NEW q \in Callers PROVE TruthOf(q)' BY DEF Truth
  <2>1. TruthOf(q) /\ NestingOf(q) BY DEF IInv, Truth, Nesting
  <2>2. PlaceOf(Outer(q)) /\ PlaceOf(Inner(q)) BY DEF IInv, ThreadPlace
  <2> QED BY <2>1, <2>2 DEF TruthOf, NestingOf, PlaceOf, TypeOK, Inside, Late, Kinds
<1> QED BY <1>1, <1>2, <1>3, <1>4, <1>5, <1>6 DEF IInv

-----------------------------------------------------------------------------
\* Every step of the specification preserves IInv.
LEMMA NextIInv == IInv /\ [Next]_vars => IInv'
<1> SUFFICES ASSUME IInv, [Next]_vars PROVE IInv' OBVIOUS
<1>1. ASSUME NEW r \in Callers, NEW n \in Spaces,
             \/ InNamespace(r, n) \/ StartMonitor(r, n)
             \/ VethDeviceCount(r, n) \/ Write(r, n)
      PROVE  IInv'
  <2>1. PICK k \in Kinds : Begin(r, k, n)
    BY <1>1 DEF InNamespace, StartMonitor, VethDeviceCount, Write, Kinds
  <2> QED BY <2>1, BeginStep
<1>2. ASSUME NEW f \in Frames, FrameStep(f) PROVE IInv'
  <2>1. CallerOf(f) \in Callers BY FrameFacts
  <2> QED
    BY <1>2, <2>1, LockOSThreadStep, FailStep, SetNSStep, CallNestedStep,
       CallbackStep, RestoreStep, PanicStep, UnlockOSThreadStep, SendStep,
       SendNestedStep
    DEF FrameStep
<1>3. CASE MakeThread BY <1>3, CloneStep, CloneTemplateStep DEF MakeThread
<1>4. CASE UNCHANGED vars
  BY <1>4 DEF vars, IInv, TypeOK, OwnThread, ThreadPlace, PlaceOf, HostPlace,
              Nesting, NestingOf, Truth, TruthOf
<1> QED BY <1>1, <1>2, <1>3, <1>4 DEF Next

\* IInv is an invariant.
THEOREM Invariance == Spec => []IInv
BY InitIInv, NextIInv, PTL DEF Spec

\* The variables of Execute, its callers and the runtime keep their types.
THEOREM TypeCorrect == Spec => []TypeOK
<1>1. IInv => TypeOK BY DEF IInv
<1> QED BY <1>1, Invariance, PTL

\* The callback of Execute runs in the namespace that it was called for, for
\* any number of goroutines and threads and whatever namespace a thread was
\* born in.
THEOREM CallbackCorrect == Spec => []CallbackInNamespace
<1>1. IInv => CallbackInNamespace
  BY DEF IInv, ThreadPlace, PlaceOf, Inside, CallbackInNamespace
<1> QED BY <1>1, Invariance, PTL

\* Unless the runtime clones locked threads, every thread that is free is in
\* the namespace of the host, also while and after calls of Execute fail.
THEOREM FreeThreadsCorrect == Spec => []FreeThreadsInHost
<1>1. IInv => FreeThreadsInHost
  BY DEF IInv, HostPlace, FreeThreadsInHost, Free, Locked
<1> QED BY <1>1, Invariance, PTL

\* No caller of Execute, passing the callback's error on or keeping it, ends
\* without an error unless the callback took effect where it was asked to.
THEOREM OkCorrect == Spec => OkMeansDone
<1> DEFINE Done == \A r \in Callers : kind[r] # "idle" /\ answer'[r] = "ok"
                                        => effect[r] = target[Inner(r)]
<1>1. IInv /\ [Next]_vars => [Done]_vars
  <2> SUFFICES ASSUME IInv, Next, NEW r \in Callers, kind[r] # "idle", answer'[r] = "ok"
               PROVE  effect[r] = target[Inner(r)]
    OBVIOUS
  <2>1. TruthOf(r) /\ NestingOf(r) /\ TypeOK BY DEF IInv, Truth, Nesting
  <2>2. answer[r] # "ok" BY <2>1 DEF TruthOf
  <2>3. ASSUME NEW q \in Callers, Send(q) PROVE effect[r] = target[Inner(r)]
    <3>1. q = r BY <2>1, <2>2, <2>3 DEF Send, TypeOK
    <3>2. Outcome(kind[r], result[Outer(r)], captured[r]) = "ok"
      BY <2>1, <2>3, <3>1 DEF Send, TypeOK
    <3>3. result[Outer(r)] = "ok" /\ captured[r] = "ok"
      BY <2>1, <3>2 DEF Outcome, TruthOf
    <3> QED BY <2>1, <2>3, <3>1, <3>3 DEF Send, TruthOf, Late
  <2>4. ASSUME NEW q \in Callers, NEW k \in Kinds, NEW n \in Spaces, Begin(q, k, n)
        PROVE  FALSE
    BY <2>1, <2>2, <2>4 DEF Begin, TypeOK
  <2>5. ASSUME NEW f \in Frames, FrameStep(f) PROVE effect[r] = target[Inner(r)]
    <3>1. CallerOf(f) \in Callers BY FrameFacts
    <3>2. CASE answer' = answer BY <2>2, <3>2
    <3> QED BY <2>3, <2>5, <3>1, <3>2 DEF FrameStep, LockOSThread, Fail, SetNS,
         CallNested, Callback, Restore, Panic, UnlockOSThread, SendNested, FrameOnly
  <2>6. CASE MakeThread BY <2>2, <2>6 DEF MakeThread, Clone, CloneTemplate
  <2> QED BY <2>4, <2>5, <2>6 DEF Next, InNamespace, StartMonitor,
       VethDeviceCount, Write, Kinds
<1> QED BY <1>1, Invariance, PTL DEF Spec, OkMeansDone
=============================================================================
