------------------------ MODULE DaemonRestartProofs -------------------------
(***************************************************************************)
(* Further theorems about Daemon: what the runtime may conclude from "up", *)
(* and what a daemon can still do after a restart. They need, besides the  *)
(* invariant of DaemonProofs, what holds as long as no two requests met in *)
(* a sandbox, no step failed and no request was cut off (CleanInv).        *)
(***************************************************************************)
EXTENDS DaemonProofs

\* While nothing was dirty, a sandbox is whole unless the one request that
\* works on it has yet to make it so, or is taking it away.
Settled(v) ==
  \/ nsFile[v] = "none" /\ vxlan[v] = "none" /\ v \notin dns0
  \/ nsFile[v] = "mounted" /\ vxlan[v] = "sandbox" /\ v \in dns0
     /\ (daemon = "up" => v \in monitored)

StageOf(p) ==
  LET v == sbox[req[p]] IN
  /\ pc[p] = "create" => nsFile[v] = "none" /\ vxlan[v] = "none" /\ v \notin dns0
  /\ pc[p] \in {"createVxlan", "moveVxlan", "startDNS"} =>
       nsFile[v] = "mounted" /\ v \notin dns0 \cup monitored
  /\ pc[p] = "createVxlan" => vxlan[v] = "none"
  /\ pc[p] = "moveVxlan" => vxlan[v] = "host"
  /\ pc[p] = "startDNS" => vxlan[v] = "sandbox"
  /\ pc[p] = "attach" => nsFile[v] = "mounted" /\ vxlan[v] = "sandbox" /\ v \in dns0
  /\ pc[p] = "destroy" => nsFile[v] = "mounted" /\ vxlan[v] = "none" /\ v \in monitored

Unsettled == {"createVxlan", "moveVxlan", "startDNS", "attach", "destroy"}

\* A container that is recorded has a link, or its deletion is under way.
RowOf(c) ==
  c \notin lost =>
    /\ records[c] # Nil => link[c] # Nil \/
         \E p \in Procs : req[p] = c /\ pc[p] \in {"cleanup", "destroy", "unrecord"}
    /\ told[c] = "delError" => records[c] = Nil

Clean ==
  /\ torn = {}
  /\ daemon = "up" => \A v \in VNIs : v \in sandboxes <=> nsFile[v] # "none"
  /\ \A p, q \in Procs :
       pc[p] # "idle" /\ pc[q] # "idle" /\ sbox[req[p]] = sbox[req[q]] => p = q
  /\ \A p \in Procs : StageOf(p)
  /\ \A v \in VNIs :
       Settled(v) \/ \E p \in Procs : pc[p] \in Unsettled /\ sbox[req[p]] = v
  /\ \A v \in VNIs : crashes = 0 /\ v \in dns0 => v \in dns
  /\ \A c \in Containers : RowOf(c)
  /\ daemon = "exited" => ~Accepted(file)

CleanInv == ~dirty => Clean

-----------------------------------------------------------------------------
(* While nothing was dirty. *)

SameElsewhere(v) ==
  \A w \in VNIs \ {v} :
    /\ nsFile'[w] = nsFile[w] /\ vxlan'[w] = vxlan[w]
    /\ w \in dns0' <=> w \in dns0
    /\ w \in dns' <=> w \in dns
    /\ w \in monitored' <=> w \in monitored
    /\ w \in sandboxes' <=> w \in sandboxes

\* A step of p that changes nothing of other sandboxes than its own keeps
\* Clean if it leaves its own sandbox and container in order.
LEMMA CleanStays ==
  ASSUME TypeOK, ServeInv, Clean, NEW p \in Procs, NEW v \in VNIs, v = sbox[req[p]],
         OwnStep(p), SameElsewhere(v), net' = net, sbox' = sbox,
         UNCHANGED <<file, daemon, crashes, torn>>,
         pc'[p] = "idle" \/ req'[p] = req[p],
         StageOf(p)', Settled(v)' \/ pc'[p] \in Unsettled,
         v \in sandboxes' <=> nsFile'[v] # "none",
         crashes = 0 /\ v \in dns0' => v \in dns',
         \A c \in Containers : c = req[p] => RowOf(c)'
  PROVE  Clean'
<1>0. VNIs' = VNIs BY DEF VNIs
<1>1. ASSUME NEW q \in Procs, NEW r \in Procs,
             pc'[q] # "idle", pc'[r] # "idle", sbox'[req'[q]] = sbox'[req'[r]]
      PROVE  q = r
  BY <1>1 DEF Clean, OwnStep
<1>2. ASSUME NEW q \in Procs, q # p, pc[q] # "idle"
      PROVE  pc'[q] = pc[q] /\ req'[q] = req[q] /\ sbox[req[q]] \in VNIs \ {v}
  BY <1>2, Serving DEF Clean, OwnStep
<1>3. ASSUME NEW q \in Procs PROVE StageOf(q)'
  <2>1. CASE q = p BY <2>1
  <2>2. CASE q # p /\ pc[q] = "idle" BY <2>2 DEF OwnStep, StageOf
  <2>3. CASE q # p /\ pc[q] # "idle"
    BY <1>2, <2>3 DEF Clean, StageOf, SameElsewhere
  <2> QED BY <2>1, <2>2, <2>3
<1>4. ASSUME NEW w \in VNIs
      PROVE  Settled(w)' \/ \E q \in Procs : pc'[q] \in Unsettled /\ sbox'[req'[q]] = w
  <2>1. CASE w = v BY <2>1 DEF Unsettled
  <2>2. CASE w # v /\ Settled(w) BY <2>2 DEF Settled, SameElsewhere
  <2>3. CASE w # v /\ \E q \in Procs : pc[q] \in Unsettled /\ sbox[req[q]] = w
    BY <1>2, <2>3 DEF Unsettled
  <2> QED BY <2>1, <2>2, <2>3 DEF Clean
<1>5. \A w \in VNIs : crashes' = 0 /\ w \in dns0' => w \in dns'
  BY DEF Clean, SameElsewhere
<1>6. daemon' = "up" => \A w \in VNIs : w \in sandboxes' <=> nsFile'[w] # "none"
  BY DEF Clean, SameElsewhere
<1>7. ASSUME NEW c \in Containers PROVE RowOf(c)'
  <2>1. CASE c = req[p] BY <2>1
  <2>2. CASE c # req[p]
    <3>1. records'[c] = records[c] /\ link'[c] = link[c] /\ told'[c] = told[c] /\ lost' = lost
      BY <2>2 DEF OwnStep
    <3>2. RowOf(c) BY DEF Clean
    <3>3. ASSUME NEW q \in Procs, req[q] = c, pc[q] \in {"cleanup", "destroy", "unrecord"}
          PROVE  req'[q] = c /\ pc'[q] = pc[q]
      BY <2>2, <3>3 DEF OwnStep
    <3> QED BY <3>1, <3>2, <3>3 DEF RowOf
  <2> QED BY <2>1, <2>2
<1>8. daemon' = "exited" => ~Accepted(file)'
  BY DEF Clean, Accepted, Readable, Valid, ParseAndValidate, Interpolated, Masked,
         Contains
<1>9. torn' = {} BY DEF Clean
<1> QED BY <1>0, <1>1, <1>3, <1>4, <1>5, <1>6, <1>7, <1>8, <1>9 DEF Clean

\* What a goroutine knows of its sandbox and its container.
LEMMA OwnClean ==
  ASSUME TypeOK, ServeInv, Clean, NEW p \in Procs, NEW v \in VNIs, v = sbox[req[p]],
         pc[p] # "idle"
  PROVE  /\ StageOf(p) /\ (v \in sandboxes <=> nsFile[v] # "none")
         /\ pc[p] \notin Unsettled => Settled(v)
         /\ req[p] \notin lost /\ pc[p] \notin {"cleanup", "destroy", "unrecord"}
              => (records[req[p]] # Nil => link[req[p]] # Nil)
<1>1. daemon = "up" /\ req[p] \in Containers BY Serving
<1>2. pc[p] \notin Unsettled => Settled(v) BY DEF Clean, Unsettled
<1>3. ASSUME req[p] \notin lost, pc[p] \notin {"cleanup", "destroy", "unrecord"},
             records[req[p]] # Nil
      PROVE  link[req[p]] # Nil
  <2>1. RowOf(req[p]) BY <1>1 DEF Clean
  <2> QED BY <1>3, <2>1, Alone DEF RowOf
<1> QED BY <1>1, <1>2, <1>3 DEF Clean

\* As long as nothing was dirty, all that a restart or a deletion needs is there.
LEMMA CleanStep ==
  ASSUME TypeOK, AcceptInv, ServeInv, ProgressInv, SandboxInv, LinkInv, CleanInv, Next
  PROVE  CleanInv'
<1> SUFFICES ASSUME ~dirty' PROVE Clean' BY DEF CleanInv
<1>0. net' = net /\ sbox' = sbox /\ VNIs' = VNIs /\ file' = file
  BY FilesStay, NamesStay DEF VNIs
<1>1. ASSUME NEW c \in Containers, NEW p \in Procs, NEW first \in {"contains",
             "get"}, Call(c, p, first)
      PROVE  Clean'
  <2>1. Clean /\ daemon = "up" /\ pc[p] = "idle" BY <1>1 DEF Call, CleanInv
  <2>2. /\ UNCHANGED <<nsFile, vxlan, dns0, dns, monitored, sandboxes, torn, daemon, crashes, records,
                     link, lost>>
        /\ first \in {"contains", "get"} /\ told'[c] = "waiting"
        /\ \A e \in Containers \ {c} : told'[e] = told[e]
    BY <1>1 DEF Call, disk, memory, TypeOK
  <2>3. /\ pc' = [pc EXCEPT ![p] = first] /\ req' = [req EXCEPT ![p] = c]
        /\ \A q \in Procs : ~(pc[q] # "idle" /\ Sbox(req[q]) = Sbox(c))
    BY <1>1 DEF Call
  <2>4. \A q \in Procs \ {p} : pc'[q] = pc[q] /\ req'[q] = req[q]
    BY <2>3 DEF TypeOK
  <2>5. pc'[p] = first /\ req'[p] = c BY <2>3 DEF TypeOK
  <2>6. \A q \in Procs : pc[q] # "idle" => sbox[req[q]] # sbox[c]
    BY <2>3, Serving, NamesOK
  <2>7. ASSUME NEW q \in Procs, NEW r \in Procs,
               pc'[q] # "idle", pc'[r] # "idle", sbox'[req'[q]] = sbox'[req'[r]]
        PROVE  q = r
    BY <1>0, <2>1, <2>4, <2>5, <2>6, <2>7 DEF Clean
  <2>8. \A q \in Procs : StageOf(q)'
    BY <1>0, <2>1, <2>2, <2>4, <2>5 DEF Clean, StageOf
  <2>9. ASSUME NEW v \in VNIs
        PROVE  Settled(v)' \/ \E q \in Procs : pc'[q] \in Unsettled /\ sbox'[req'[q]] = v
    <3>1. CASE Settled(v) BY <2>2, <3>1 DEF Settled
    <3>2. CASE \E q \in Procs : pc[q] \in Unsettled /\ sbox[req[q]] = v
      BY <1>0, <2>1, <2>4, <3>2 DEF Unsettled
    <3> QED BY <2>1, <3>1, <3>2 DEF Clean
  <2>10. ASSUME NEW e \in Containers PROVE RowOf(e)'
    <3>1. RowOf(e) BY <2>1 DEF Clean
    <3>2. \A q \in Procs : req[q] = e /\ pc[q] \in {"cleanup", "destroy", "unrecord"} =>
            req'[q] = e /\ pc'[q] = pc[q]
      BY <2>1, <2>4
    <3>3. told'[e] = "delError" => told[e] = "delError" BY <2>2
    <3> QED BY <2>2, <3>1, <3>2, <3>3 DEF RowOf
  <2> QED BY <1>0, <2>1, <2>2, <2>7, <2>8, <2>9, <2>10 DEF Clean
<1>2. ASSUME NEW c \in Containers, BadAdd(c) \/ BadDel(c) PROVE Clean'
  <2>1. Clean BY <1>2 DEF BadAdd, BadDel, Refuse, CleanInv
  <2>2. /\ UNCHANGED <<nsFile, vxlan, dns0, dns, monitored, sandboxes, torn, daemon, crashes, records,
                     link, pc, req>>
        /\ lost \subseteq lost'
        /\ \A e \in Containers : told'[e] = "delError" => told[e] = "delError"
    BY <1>2, Answers, <2>1 DEF BadAdd, BadDel, Refuse, disk, memory, procs, TypeOK
  <2>3. \A q \in Procs : StageOf(q)' BY <1>0, <2>1, <2>2 DEF Clean, StageOf
  <2>4. \A v \in VNIs : Settled(v)' <=> Settled(v) BY <2>2 DEF Settled
  <2>5. \A e \in Containers : RowOf(e)' BY <2>1, <2>2 DEF Clean, RowOf
  <2> QED BY <1>0, <2>1, <2>2, <2>3, <2>4, <2>5 DEF Clean
<1>3. ASSUME NEW c \in Containers, GiveUp(c) PROVE Clean'
  <2>1. Clean BY <1>3 DEF GiveUp, Trouble, CleanInv
  <2>2. /\ UNCHANGED <<nsFile, vxlan, dns0, dns, monitored, sandboxes, torn, daemon, crashes, records,
                     link, pc, req>>
        /\ lost \subseteq lost'
        /\ \A e \in Containers : told'[e] = "delError" => told[e] = "delError"
    BY <1>3, <2>1 DEF GiveUp, Trouble, disk, memory, procs, TypeOK
  <2>3. \A q \in Procs : StageOf(q)' BY <1>0, <2>1, <2>2 DEF Clean, StageOf
  <2>4. \A v \in VNIs : Settled(v)' <=> Settled(v) BY <2>2 DEF Settled
  <2>5. \A e \in Containers : RowOf(e)' BY <2>1, <2>2 DEF Clean, RowOf
  <2> QED BY <1>0, <2>1, <2>2, <2>3, <2>4, <2>5 DEF Clean
<1>4. ASSUME NEW p \in Procs, Reserve(p) PROVE Clean'
  <2>1. OwnStep(p) /\ Clean BY <1>4, OwnSteps DEF Reserve, CleanInv, history
  <2>2. /\ req[p] \in Containers /\ daemon = "up" /\ Net(req[p]) = net[req[p]]
        /\ Sbox(req[p]) = sbox[req[p]] /\ sbox[req[p]] \in VNIs
    BY <2>1, Serving DEF OwnStep
  <2>3. PICK v \in VNIs : v = sbox[req[p]] BY <2>2
  <2>4. /\ StageOf(p) /\ torn = {} /\ (v \in sandboxes <=> nsFile[v] # "none")
        /\ pc[p] \notin Unsettled => Settled(v)
        /\ req[p] \notin lost /\ pc[p] \notin {"cleanup", "destroy", "unrecord"}
             => (records[req[p]] # Nil => link[req[p]] # Nil)
    BY <2>1, <2>3, OwnClean DEF OwnStep, Clean
  <2>5. UNCHANGED <<nsFile, vxlan, dns0, dns, monitored, sandboxes, torn, file, daemon, crashes>>
    BY <1>4 DEF Reserve, fixed, disk, memory, history
  <2>6. SameElsewhere(v) BY <2>5 DEF SameElsewhere
  <2>7. pc[p] = "reserve" /\ pc'[p] = "exists" /\ req'[p] = req[p]
    BY <1>4 DEF Reserve, TypeOK
  <2>8. StageOf(p)' /\ Settled(v)'
    BY <2>4, <2>5, <2>7 DEF StageOf, Settled, Unsettled
  <2>9. ASSUME NEW c \in Containers, c = req[p] PROVE RowOf(c)'
    <3>1. c \notin lost => told'[c] # "delError"
      BY <1>4, <2>1, <2>9, Alone DEF Reserve, client, OwnStep, TypeOK
    <3> QED BY <1>4, <2>1, <2>4, <2>7, <2>9, <3>1 DEF Reserve, disk, RowOf, OwnStep
  <2>10. (v \in sandboxes' <=> nsFile'[v] # "none") /\ (crashes = 0 /\ v \in dns0' => v \in dns')
    BY <2>1, <2>4, <2>5 DEF Clean
  <2> QED BY <1>0, <2>1, <2>3, <2>5, <2>6, <2>7, <2>8, <2>9, <2>10, CleanStays
<1>5. ASSUME NEW p \in Procs, ContainsID(p) PROVE Clean'
  <2>1. OwnStep(p) /\ Clean BY <1>5, OwnSteps DEF ContainsID, CleanInv, history
  <2>2. /\ req[p] \in Containers /\ daemon = "up" /\ Net(req[p]) = net[req[p]]
        /\ Sbox(req[p]) = sbox[req[p]] /\ sbox[req[p]] \in VNIs
    BY <2>1, Serving DEF OwnStep
  <2>3. PICK v \in VNIs : v = sbox[req[p]] BY <2>2
  <2>4. /\ StageOf(p) /\ torn = {} /\ (v \in sandboxes <=> nsFile[v] # "none")
        /\ pc[p] \notin Unsettled => Settled(v)
        /\ req[p] \notin lost /\ pc[p] \notin {"cleanup", "destroy", "unrecord"}
             => (records[req[p]] # Nil => link[req[p]] # Nil)
    BY <2>1, <2>3, OwnClean DEF OwnStep, Clean
  <2>5. UNCHANGED <<nsFile, vxlan, dns0, dns, monitored, sandboxes, torn, file, daemon, crashes>>
    BY <1>5 DEF ContainsID, fixed, disk, memory, history
  <2>6. SameElsewhere(v) BY <2>5 DEF SameElsewhere
  <2>7. pc[p] = "contains" /\ pc'[p] \in {"reserve", "idle"} /\ (pc'[p] = "idle" \/ req'[p] = req[p])
    BY <1>5, Shapes DEF GoesOn, Ends, TypeOK
  <2>8. StageOf(p)' /\ Settled(v)'
    BY <2>4, <2>5, <2>7 DEF StageOf, Settled, Unsettled
  <2>9. ASSUME NEW c \in Containers, c = req[p] PROVE RowOf(c)'
    <3>1. c \notin lost => told'[c] # "delError"
      BY <1>5, <2>1, <2>9, Alone, Shapes DEF Ends, GoesOn, OwnStep, TypeOK
    <3> QED BY <1>5, <2>1, <2>4, <2>7, <2>9, <3>1 DEF ContainsID, disk, RowOf, OwnStep
  <2>10. (v \in sandboxes' <=> nsFile'[v] # "none") /\ (crashes = 0 /\ v \in dns0' => v \in dns')
    BY <2>1, <2>4, <2>5 DEF Clean
  <2> QED BY <1>0, <2>1, <2>3, <2>5, <2>6, <2>7, <2>8, <2>9, <2>10, CleanStays
<1>6. ASSUME NEW p \in Procs, NoMoreAddresses(p) PROVE Clean'
  <2>1. OwnStep(p) /\ Clean BY <1>6, OwnSteps DEF NoMoreAddresses, CleanInv, history
  <2>2. /\ req[p] \in Containers /\ daemon = "up" /\ Net(req[p]) = net[req[p]]
        /\ Sbox(req[p]) = sbox[req[p]] /\ sbox[req[p]] \in VNIs
    BY <2>1, Serving DEF OwnStep
  <2>3. PICK v \in VNIs : v = sbox[req[p]] BY <2>2
  <2>4. /\ StageOf(p) /\ torn = {} /\ (v \in sandboxes <=> nsFile[v] # "none")
        /\ pc[p] \notin Unsettled => Settled(v)
        /\ req[p] \notin lost /\ pc[p] \notin {"cleanup", "destroy", "unrecord"}
             => (records[req[p]] # Nil => link[req[p]] # Nil)
    BY <2>1, <2>3, OwnClean DEF OwnStep, Clean
  <2>5. UNCHANGED <<nsFile, vxlan, dns0, dns, monitored, sandboxes, torn, file, daemon, crashes>>
    BY <1>6 DEF NoMoreAddresses, fixed, disk, memory, history
  <2>6. SameElsewhere(v) BY <2>5 DEF SameElsewhere
  <2>7. pc[p] = "reserve" /\ pc'[p] \in {"idle"} /\ (pc'[p] = "idle" \/ req'[p] = req[p])
    BY <1>6, Shapes DEF GoesOn, Ends, TypeOK
  <2>8. StageOf(p)' /\ Settled(v)'
    BY <2>4, <2>5, <2>7 DEF StageOf, Settled, Unsettled
  <2>9. ASSUME NEW c \in Containers, c = req[p] PROVE RowOf(c)'
    <3>1. c \notin lost => told'[c] # "delError"
      BY <1>6, <2>1, <2>9, Alone, Shapes DEF Ends, GoesOn, OwnStep, TypeOK
    <3> QED BY <1>6, <2>1, <2>4, <2>7, <2>9, <3>1
       DEF NoMoreAddresses, disk, RowOf, OwnStep
  <2>10. (v \in sandboxes' <=> nsFile'[v] # "none") /\ (crashes = 0 /\ v \in dns0' => v \in dns')
    BY <2>1, <2>4, <2>5 DEF Clean
  <2> QED BY <1>0, <2>1, <2>3, <2>5, <2>6, <2>7, <2>8, <2>9, <2>10, CleanStays
<1>7. ASSUME NEW p \in Procs, SandboxExists(p) PROVE Clean'
  <2>1. OwnStep(p) /\ Clean BY <1>7, OwnSteps DEF SandboxExists, CleanInv, history
  <2>2. /\ req[p] \in Containers /\ daemon = "up" /\ Net(req[p]) = net[req[p]]
        /\ Sbox(req[p]) = sbox[req[p]] /\ sbox[req[p]] \in VNIs
    BY <2>1, Serving DEF OwnStep
  <2>3. PICK v \in VNIs : v = sbox[req[p]] BY <2>2
  <2>4. /\ StageOf(p) /\ torn = {} /\ (v \in sandboxes <=> nsFile[v] # "none")
        /\ pc[p] \notin Unsettled => Settled(v)
        /\ req[p] \notin lost /\ pc[p] \notin {"cleanup", "destroy", "unrecord"}
             => (records[req[p]] # Nil => link[req[p]] # Nil)
    BY <2>1, <2>3, OwnClean DEF OwnStep, Clean
  <2>5. UNCHANGED <<nsFile, vxlan, dns0, dns, monitored, sandboxes, torn, file, daemon, crashes>>
    BY <1>7 DEF SandboxExists, fixed, disk, memory, history
  <2>6. SameElsewhere(v) BY <2>5 DEF SameElsewhere
  <2>7. /\ pc[p] = "exists" /\ req'[p] = req[p] /\ told' = told
        /\ pc'[p] = IF v \in sandboxes THEN "attach" ELSE "create"
    BY <1>7, <2>2, <2>3, Shapes DEF GoesOn, TypeOK
  <2>8. StageOf(p)' /\ Settled(v)'
    BY <1>0, <2>2, <2>3, <2>4, <2>5, <2>7 DEF StageOf, Settled, Unsettled
  <2>9. ASSUME NEW c \in Containers, c = req[p] PROVE RowOf(c)'
    BY <1>7, <2>1, <2>4, <2>7, <2>9, Alone DEF SandboxExists, disk, RowOf, OwnStep
  <2>10. (v \in sandboxes' <=> nsFile'[v] # "none") /\ (crashes = 0 /\ v \in dns0' => v \in dns')
    BY <2>1, <2>4, <2>5 DEF Clean
  <2> QED BY <1>0, <2>1, <2>3, <2>5, <2>6, <2>7, <2>8, <2>9, <2>10, CleanStays
<1>8. ASSUME NEW p \in Procs, CreateSandbox(p) PROVE Clean'
  <2>1. OwnStep(p) /\ Clean BY <1>8, OwnSteps DEF CreateSandbox, CleanInv, history
  <2>2. /\ req[p] \in Containers /\ daemon = "up" /\ Net(req[p]) = net[req[p]]
        /\ Sbox(req[p]) = sbox[req[p]] /\ sbox[req[p]] \in VNIs
    BY <2>1, Serving DEF OwnStep
  <2>3. PICK v \in VNIs : v = sbox[req[p]] BY <2>2
  <2>4. /\ StageOf(p) /\ torn = {} /\ (v \in sandboxes <=> nsFile[v] # "none")
        /\ pc[p] \notin Unsettled => Settled(v)
        /\ req[p] \notin lost /\ pc[p] \notin {"cleanup", "destroy", "unrecord"}
             => (records[req[p]] # Nil => link[req[p]] # Nil)
    BY <2>1, <2>3, OwnClean DEF OwnStep, Clean
  <2>5. UNCHANGED <<torn, file, daemon, crashes>>
    BY <1>8 DEF CreateSandbox, fixed, history
  <2>6. SameElsewhere(v)
    BY <1>8, <2>2, <2>3 DEF SameElsewhere, CreateSandbox, fixed, history, TypeOK
  <2>7. CanCreate(v) /\ pc[p] = "create" /\ vxlan[v] = "none" /\ v \notin dns0 \cup monitored
    BY <1>8, <2>3, <2>4, Shapes DEF StageOf, CanCreate, SandboxInv, MapInv
  <2>8. /\ nsFile' = [nsFile EXCEPT ![v] = "mounted"] /\ sandboxes' = sandboxes \cup {v}
        /\ UNCHANGED <<vxlan, dns0, dns, monitored, records, link>>
    BY <1>8, <2>2, <2>3, <2>7 DEF CreateSandbox
  <2>9. pc'[p] = "createVxlan" /\ req'[p] = req[p] /\ told' = told
    BY <1>8, <2>2, <2>3, <2>7, Shapes DEF GoesOn, TypeOK
  <2>10. StageOf(p)'
    BY <1>0, <2>3, <2>5, <2>7, <2>8, <2>9 DEF StageOf, TypeOK
  <2>11. ASSUME NEW c \in Containers, c = req[p] PROVE RowOf(c)'
    BY <2>1, <2>4, <2>7, <2>8, <2>9, <2>11, Alone DEF RowOf, OwnStep
  <2>12. (v \in sandboxes' <=> nsFile'[v] # "none") /\ (crashes = 0 /\ v \in dns0' => v \in dns')
    BY <2>1, <2>4, <2>7, <2>8 DEF Clean, TypeOK
  <2> QED BY <1>0, <2>1, <2>3, <2>5, <2>6, <2>9, <2>10, <2>11, <2>12, CleanStays
     DEF Unsettled
<1>9. ASSUME NEW p \in Procs, CreateVxlan(p) PROVE Clean'
  <2>1. OwnStep(p) /\ Clean BY <1>9, OwnSteps DEF CreateVxlan, CleanInv, history
  <2>2. /\ req[p] \in Containers /\ daemon = "up" /\ Net(req[p]) = net[req[p]]
        /\ Sbox(req[p]) = sbox[req[p]] /\ sbox[req[p]] \in VNIs
    BY <2>1, Serving DEF OwnStep
  <2>3. PICK v \in VNIs : v = sbox[req[p]] BY <2>2
  <2>4. /\ StageOf(p) /\ torn = {} /\ (v \in sandboxes <=> nsFile[v] # "none")
        /\ pc[p] \notin Unsettled => Settled(v)
        /\ req[p] \notin lost /\ pc[p] \notin {"cleanup", "destroy", "unrecord"}
             => (records[req[p]] # Nil => link[req[p]] # Nil)
    BY <2>1, <2>3, OwnClean DEF OwnStep, Clean
  <2>5. UNCHANGED <<torn, file, daemon, crashes>>
    BY <1>9 DEF CreateVxlan, fixed, memory, history
  <2>6. SameElsewhere(v)
    BY <1>9, <2>2, <2>3 DEF SameElsewhere, CreateVxlan, fixed, memory, history, TypeOK
  <2>7. /\ pc[p] = "createVxlan" /\ vxlan[v] = "none" /\ nsFile[v] = "mounted"
        /\ v \notin dns0 \cup monitored
    BY <1>9, <2>3, <2>4, Shapes DEF StageOf
  <2>8. /\ vxlan'[v] = "host"
        /\ UNCHANGED <<nsFile, sandboxes, dns0, dns, monitored, records, link>>
    BY <1>9, <2>2, <2>3, <2>7 DEF CreateVxlan, memory, TypeOK
  <2>9. pc'[p] = "moveVxlan" /\ req'[p] = req[p] /\ told' = told
    BY <1>9, <2>2, <2>3, <2>7, Shapes DEF GoesOn, TypeOK
  <2>10. StageOf(p)'
    BY <1>0, <2>3, <2>5, <2>7, <2>8, <2>9 DEF StageOf, TypeOK
  <2>11. ASSUME NEW c \in Containers, c = req[p] PROVE RowOf(c)'
    BY <2>1, <2>4, <2>7, <2>8, <2>9, <2>11, Alone DEF RowOf, OwnStep
  <2>12. (v \in sandboxes' <=> nsFile'[v] # "none") /\ (crashes = 0 /\ v \in dns0' => v \in dns')
    BY <2>1, <2>4, <2>7, <2>8 DEF Clean, TypeOK
  <2> QED BY <1>0, <2>1, <2>3, <2>5, <2>6, <2>9, <2>10, <2>11, <2>12, CleanStays
     DEF Unsettled
<1>10. ASSUME NEW p \in Procs, MoveVxlan(p) PROVE Clean'
  <2>1. OwnStep(p) /\ Clean BY <1>10, OwnSteps DEF MoveVxlan, CleanInv, history
  <2>2. /\ req[p] \in Containers /\ daemon = "up" /\ Net(req[p]) = net[req[p]]
        /\ Sbox(req[p]) = sbox[req[p]] /\ sbox[req[p]] \in VNIs
    BY <2>1, Serving DEF OwnStep
  <2>3. PICK v \in VNIs : v = sbox[req[p]] BY <2>2
  <2>4. /\ StageOf(p) /\ torn = {} /\ (v \in sandboxes <=> nsFile[v] # "none")
        /\ pc[p] \notin Unsettled => Settled(v)
        /\ req[p] \notin lost /\ pc[p] \notin {"cleanup", "destroy", "unrecord"}
             => (records[req[p]] # Nil => link[req[p]] # Nil)
    BY <2>1, <2>3, OwnClean DEF OwnStep, Clean
  <2>5. UNCHANGED <<torn, file, daemon, crashes>>
    BY <1>10 DEF MoveVxlan, fixed, memory, history
  <2>6. SameElsewhere(v)
    BY <1>10, <2>2, <2>3 DEF SameElsewhere, MoveVxlan, fixed, memory, history, TypeOK
  <2>7. /\ pc[p] = "moveVxlan" /\ vxlan[v] = "host" /\ nsFile[v] = "mounted"
        /\ v \notin dns0 \cup monitored /\ v \in sandboxes
    BY <1>10, <2>3, <2>4, Shapes DEF StageOf
  <2>8. /\ vxlan'[v] = "sandbox"
        /\ UNCHANGED <<nsFile, sandboxes, dns0, dns, monitored, records, link>>
    BY <1>10, <2>2, <2>3, <2>7 DEF MoveVxlan, memory, TypeOK
  <2>9. pc'[p] = "startDNS" /\ req'[p] = req[p] /\ told' = told
    BY <1>10, <2>2, <2>3, <2>7, Shapes DEF GoesOn, TypeOK
  <2>10. StageOf(p)'
    BY <1>0, <2>3, <2>5, <2>7, <2>8, <2>9 DEF StageOf, TypeOK
  <2>11. ASSUME NEW c \in Containers, c = req[p] PROVE RowOf(c)'
    BY <2>1, <2>4, <2>7, <2>8, <2>9, <2>11, Alone DEF RowOf, OwnStep
  <2>12. (v \in sandboxes' <=> nsFile'[v] # "none") /\ (crashes = 0 /\ v \in dns0' => v \in dns')
    BY <2>1, <2>4, <2>7, <2>8 DEF Clean, TypeOK
  <2> QED BY <1>0, <2>1, <2>3, <2>5, <2>6, <2>9, <2>10, <2>11, <2>12, CleanStays
     DEF Unsettled
<1>11. ASSUME NEW p \in Procs, StartDNSServer(p) PROVE Clean'
  <2>1. OwnStep(p) /\ Clean BY <1>11, OwnSteps DEF StartDNSServer, CleanInv, history
  <2>2. /\ req[p] \in Containers /\ daemon = "up" /\ Net(req[p]) = net[req[p]]
        /\ Sbox(req[p]) = sbox[req[p]] /\ sbox[req[p]] \in VNIs
    BY <2>1, Serving DEF OwnStep
  <2>3. PICK v \in VNIs : v = sbox[req[p]] BY <2>2
  <2>4. /\ StageOf(p) /\ torn = {} /\ (v \in sandboxes <=> nsFile[v] # "none")
        /\ pc[p] \notin Unsettled => Settled(v)
        /\ req[p] \notin lost /\ pc[p] \notin {"cleanup", "destroy", "unrecord"}
             => (records[req[p]] # Nil => link[req[p]] # Nil)
    BY <2>1, <2>3, OwnClean DEF OwnStep, Clean
  <2>5. UNCHANGED <<torn, file, daemon, crashes>>
    BY <1>11 DEF StartDNSServer, fixed, history
  <2>6. SameElsewhere(v)
    BY <1>11, <2>2, <2>3 DEF SameElsewhere, StartDNSServer, fixed, history, TypeOK
  <2>7. /\ pc[p] = "startDNS" /\ vxlan[v] = "sandbox" /\ nsFile[v] = "mounted"
        /\ v \notin dns0 /\ v \in sandboxes
    BY <1>11, <2>3, <2>4, Shapes DEF StageOf
  <2>8. /\ v \in dns0' /\ v \in dns'
        /\ UNCHANGED <<nsFile, vxlan, sandboxes, monitored, records, link>>
    BY <1>11, <2>2, <2>3, <2>7 DEF StartDNSServer
  <2>9. pc'[p] = "attach" /\ req'[p] = req[p] /\ told' = told
    BY <1>11, <2>2, <2>3, <2>7, Shapes DEF GoesOn, TypeOK
  <2>10. StageOf(p)'
    BY <1>0, <2>3, <2>5, <2>7, <2>8, <2>9 DEF StageOf, TypeOK
  <2>11. ASSUME NEW c \in Containers, c = req[p] PROVE RowOf(c)'
    BY <2>1, <2>4, <2>7, <2>8, <2>9, <2>11, Alone DEF RowOf, OwnStep
  <2>12. (v \in sandboxes' <=> nsFile'[v] # "none") /\ (crashes = 0 /\ v \in dns0' => v \in dns')
    BY <2>1, <2>4, <2>7, <2>8 DEF Clean, TypeOK
  <2> QED BY <1>0, <2>1, <2>3, <2>5, <2>6, <2>9, <2>10, <2>11, <2>12, CleanStays
     DEF Unsettled
<1>12. ASSUME NEW p \in Procs, Attach(p) PROVE Clean'
  <2>1. OwnStep(p) /\ Clean BY <1>12, OwnSteps DEF Attach, SetUpTo, CleanInv, history
  <2>2. /\ req[p] \in Containers /\ daemon = "up" /\ Net(req[p]) = net[req[p]]
        /\ Sbox(req[p]) = sbox[req[p]] /\ sbox[req[p]] \in VNIs
    BY <2>1, Serving DEF OwnStep
  <2>3. PICK v \in VNIs : v = sbox[req[p]] BY <2>2
  <2>4. /\ StageOf(p) /\ torn = {} /\ (v \in sandboxes <=> nsFile[v] # "none")
        /\ pc[p] \notin Unsettled => Settled(v)
        /\ req[p] \notin lost /\ pc[p] \notin {"cleanup", "destroy", "unrecord"}
             => (records[req[p]] # Nil => link[req[p]] # Nil)
    BY <2>1, <2>3, OwnClean DEF OwnStep, Clean
  <2>5. UNCHANGED <<torn, file, daemon, crashes>>
    BY <1>12 DEF Attach, fixed, history, SetUpTo
  <2>6. SameElsewhere(v)
    BY <1>12, <2>2, <2>3 DEF SameElsewhere, Attach, fixed, history, SetUpTo, TypeOK
  <2>7. /\ pc[p] = "attach" /\ vxlan[v] = "sandbox" /\ nsFile[v] = "mounted"
        /\ v \in dns0 /\ v \in sandboxes
    BY <1>12, <2>3, <2>4, Shapes DEF StageOf
  <2>8. Reach(p) >= 2 BY <2>2, <2>3, <2>7 DEF Reach
  <2>9. /\ v \in monitored' /\ UNCHANGED <<nsFile, vxlan, dns0, dns, sandboxes, records>>
        /\ link' = link \/ link' = [link EXCEPT ![req[p]] = ip[p]]
    BY <1>12, <2>2, <2>3, <2>8 DEF Attach, SetUpTo
  <2>10. /\ \/ pc'[p] = "record" /\ req'[p] = req[p]
            \/ pc'[p] = "idle"
         /\ req[p] \notin lost => told'[req[p]] # "delError"
    BY <1>12, <2>1, <2>2, Shapes, Alone DEF GoesOn, Ends, OwnStep, TypeOK
  <2>11. StageOf(p)' /\ Settled(v)'
    BY <2>7, <2>9, <2>10 DEF StageOf, Settled
  <2>12. ASSUME NEW c \in Containers, c = req[p] PROVE RowOf(c)'
    <3>1. ip[p] # Nil BY <2>7 DEF ServeInv, ServeOf, Holding
    <3>2. link[c] # Nil => link'[c] # Nil BY <2>9, <2>12, <3>1 DEF TypeOK
    <3> QED BY <2>1, <2>4, <2>7, <2>9, <2>10, <2>12, <3>2 DEF RowOf, OwnStep
  <2>13. (v \in sandboxes' <=> nsFile'[v] # "none") /\ (crashes = 0 /\ v \in dns0' => v \in dns')
    BY <2>1, <2>4, <2>9 DEF Clean
  <2> QED BY <1>0, <2>1, <2>3, <2>5, <2>6, <2>10, <2>11, <2>12, <2>13, CleanStays
<1>13. ASSUME NEW p \in Procs, CreateRecord(p) PROVE Clean'
  <2>1. OwnStep(p) /\ Clean BY <1>13, OwnSteps DEF CreateRecord, CleanInv, history
  <2>2. /\ req[p] \in Containers /\ daemon = "up" /\ Net(req[p]) = net[req[p]]
        /\ Sbox(req[p]) = sbox[req[p]] /\ sbox[req[p]] \in VNIs
    BY <2>1, Serving DEF OwnStep
  <2>3. PICK v \in VNIs : v = sbox[req[p]] BY <2>2
  <2>4. /\ StageOf(p) /\ torn = {} /\ (v \in sandboxes <=> nsFile[v] # "none")
        /\ pc[p] \notin Unsettled => Settled(v)
        /\ req[p] \notin lost /\ pc[p] \notin {"cleanup", "destroy", "unrecord"}
             => (records[req[p]] # Nil => link[req[p]] # Nil)
    BY <2>1, <2>3, OwnClean DEF OwnStep, Clean
  <2>5. UNCHANGED <<nsFile, vxlan, dns0, dns, monitored, sandboxes, torn, file, daemon, crashes>>
    BY <1>13 DEF CreateRecord, fixed, disk, memory, history
  <2>6. SameElsewhere(v) BY <2>5 DEF SameElsewhere
  <2>7. pc[p] = "record" /\ pc'[p] \in {"idle"} /\ (pc'[p] = "idle" \/ req'[p] = req[p])
    BY <1>13, Shapes DEF GoesOn, Ends, TypeOK
  <2>8. StageOf(p)' /\ Settled(v)'
    BY <2>4, <2>5, <2>7 DEF StageOf, Settled, Unsettled
  <2>9. ASSUME NEW c \in Containers, c = req[p] PROVE RowOf(c)'
    <3>1. c \notin lost => told'[c] # "delError"
      BY <1>13, <2>1, <2>9, Alone, Shapes DEF Ends, OwnStep, TypeOK
    <3>2. c \notin lost => link[c] # Nil
      BY <2>7, <2>9 DEF ProgressInv, ProgressOf, ServeInv, ServeOf, Holding
    <3> QED BY <1>13, <2>1, <3>1, <3>2 DEF CreateRecord, RowOf, OwnStep
  <2>10. (v \in sandboxes' <=> nsFile'[v] # "none") /\ (crashes = 0 /\ v \in dns0' => v \in dns')
    BY <2>1, <2>4, <2>5 DEF Clean
  <2> QED BY <1>0, <2>1, <2>3, <2>5, <2>6, <2>7, <2>8, <2>9, <2>10, CleanStays
<1>14. ASSUME NEW p \in Procs, GetRecord(p) PROVE Clean'
  <2>1. OwnStep(p) /\ Clean BY <1>14, OwnSteps DEF GetRecord, CleanInv, history
  <2>2. /\ req[p] \in Containers /\ daemon = "up" /\ Net(req[p]) = net[req[p]]
        /\ Sbox(req[p]) = sbox[req[p]] /\ sbox[req[p]] \in VNIs
    BY <2>1, Serving DEF OwnStep
  <2>3. PICK v \in VNIs : v = sbox[req[p]] BY <2>2
  <2>4. /\ StageOf(p) /\ torn = {} /\ (v \in sandboxes <=> nsFile[v] # "none")
        /\ pc[p] \notin Unsettled => Settled(v)
        /\ req[p] \notin lost /\ pc[p] \notin {"cleanup", "destroy", "unrecord"}
             => (records[req[p]] # Nil => link[req[p]] # Nil)
    BY <2>1, <2>3, OwnClean DEF OwnStep, Clean
  <2>5. UNCHANGED <<nsFile, vxlan, dns0, dns, monitored, sandboxes, torn, file, daemon, crashes>>
    BY <1>14 DEF GetRecord, fixed, disk, memory, history
  <2>6. SameElsewhere(v) BY <2>5 DEF SameElsewhere
  <2>7. pc[p] = "get" /\ pc'[p] \in {"deleteLink", "idle"} /\ (pc'[p] = "idle" \/ req'[p] = req[p])
    BY <1>14, Shapes DEF GoesOn, Ends, TypeOK
  <2>8. StageOf(p)' /\ Settled(v)'
    BY <2>4, <2>5, <2>7 DEF StageOf, Settled, Unsettled
  <2>9. ASSUME NEW c \in Containers, c = req[p] PROVE RowOf(c)'
    <3>1. c \notin lost /\ told'[c] = "delError" => records[c] = Nil
      BY <1>14, <2>1, <2>9, Alone, Shapes DEF Ends, GoesOn, OwnStep, TypeOK
    <3> QED BY <1>14, <2>1, <2>4, <2>7, <2>9, <3>1 DEF GetRecord, disk, RowOf, OwnStep
  <2>10. (v \in sandboxes' <=> nsFile'[v] # "none") /\ (crashes = 0 /\ v \in dns0' => v \in dns')
    BY <2>1, <2>4, <2>5 DEF Clean
  <2> QED BY <1>0, <2>1, <2>3, <2>5, <2>6, <2>7, <2>8, <2>9, <2>10, CleanStays
<1>15. ASSUME NEW p \in Procs, DeleteLink(p) PROVE Clean'
  <2>1. OwnStep(p) /\ Clean BY <1>15, OwnSteps DEF DeleteLink, CleanInv, history
  <2>2. /\ req[p] \in Containers /\ daemon = "up" /\ Net(req[p]) = net[req[p]]
        /\ Sbox(req[p]) = sbox[req[p]] /\ sbox[req[p]] \in VNIs
    BY <2>1, Serving DEF OwnStep
  <2>3. PICK v \in VNIs : v = sbox[req[p]] BY <2>2
  <2>4. /\ StageOf(p) /\ torn = {} /\ (v \in sandboxes <=> nsFile[v] # "none")
        /\ pc[p] \notin Unsettled => Settled(v)
        /\ req[p] \notin lost /\ pc[p] \notin {"cleanup", "destroy", "unrecord"}
             => (records[req[p]] # Nil => link[req[p]] # Nil)
    BY <2>1, <2>3, OwnClean DEF OwnStep, Clean
  <2>5. UNCHANGED <<nsFile, vxlan, dns0, dns, monitored, sandboxes, torn, file, daemon, crashes>>
    BY <1>15 DEF DeleteLink, fixed, disk, memory, history
  <2>6. SameElsewhere(v) BY <2>5 DEF SameElsewhere
  <2>7. pc[p] = "deleteLink" /\ pc'[p] \in {"cleanup", "idle"} /\ (pc'[p] = "idle" \/ req'[p] = req[p])
    BY <1>15, Shapes DEF GoesOn, Ends, TypeOK
  <2>8. StageOf(p)' /\ Settled(v)'
    BY <2>4, <2>5, <2>7 DEF StageOf, Settled, Unsettled
  <2>9. ASSUME NEW c \in Containers, c = req[p] PROVE RowOf(c)'
    <3>1. c \notin lost => records[c] # Nil
      BY <2>7, <2>9 DEF ProgressInv, ProgressOf
    <3>2. c \notin lost => /\ pc'[p] = "cleanup" /\ req'[p] = c /\ told'[c] = "waiting"
      BY <1>15, <2>1, <2>4, <2>7, <2>9, <3>1, Alone, Shapes
         DEF GoesOn, OwnStep, TypeOK
    <3> QED BY <2>1, <3>2 DEF RowOf, OwnStep
  <2>10. (v \in sandboxes' <=> nsFile'[v] # "none") /\ (crashes = 0 /\ v \in dns0' => v \in dns')
    BY <2>1, <2>4, <2>5 DEF Clean
  <2> QED BY <1>0, <2>1, <2>3, <2>5, <2>6, <2>7, <2>8, <2>9, <2>10, CleanStays
<1>16. ASSUME NEW p \in Procs, CleanupSandbox(p) PROVE Clean'
  <2>1. OwnStep(p) /\ Clean BY <1>16, OwnSteps DEF CleanupSandbox, CleanInv, history
  <2>2. /\ req[p] \in Containers /\ daemon = "up" /\ Net(req[p]) = net[req[p]]
        /\ Sbox(req[p]) = sbox[req[p]] /\ sbox[req[p]] \in VNIs
    BY <2>1, Serving DEF OwnStep
  <2>3. PICK v \in VNIs : v = sbox[req[p]] BY <2>2
  <2>4. /\ StageOf(p) /\ torn = {} /\ (v \in sandboxes <=> nsFile[v] # "none")
        /\ pc[p] \notin Unsettled => Settled(v)
        /\ req[p] \notin lost /\ pc[p] \notin {"cleanup", "destroy", "unrecord"}
             => (records[req[p]] # Nil => link[req[p]] # Nil)
    BY <2>1, <2>3, OwnClean DEF OwnStep, Clean
  <2>5. UNCHANGED <<torn, file, daemon, crashes>>
    BY <1>16 DEF CleanupSandbox, fixed, memory, history
  <2>6. SameElsewhere(v)
    BY <1>16, <2>2, <2>3
       DEF SameElsewhere, CleanupSandbox, fixed, memory, history, TypeOK
  <2>7. pc[p] = "cleanup" /\ UNCHANGED <<nsFile, dns0, dns, monitored, sandboxes, records, link>>
    BY <1>16, Shapes DEF CleanupSandbox, memory
  <2>8. /\ req'[p] = req[p] /\ told' = told
        /\ \/ pc'[p] = "unrecord" /\ vxlan'[v] = vxlan[v]
           \/ /\ pc'[p] = "destroy" /\ v \in sandboxes
              /\ vxlan'[v] = IF vxlan[v] = "sandbox" THEN "none" ELSE vxlan[v]
    BY <1>16, <2>2, <2>3, Shapes DEF CleanupSandbox, GoesOn, TypeOK
  <2>9. Settled(v) BY <2>4, <2>7 DEF Unsettled
  <2>10. StageOf(p)'
    BY <1>0, <2>2, <2>3, <2>4, <2>7, <2>8, <2>9 DEF StageOf, Settled
  <2>11. Settled(v)' \/ pc'[p] \in Unsettled
    BY <2>5, <2>7, <2>8, <2>9 DEF Settled, Unsettled
  <2>12. ASSUME NEW c \in Containers, c = req[p] PROVE RowOf(c)'
    BY <2>1, <2>7, <2>8, <2>12, Alone DEF RowOf, OwnStep
  <2>13. (v \in sandboxes' <=> nsFile'[v] # "none") /\ (crashes = 0 /\ v \in dns0' => v \in dns')
    BY <2>1, <2>4, <2>7 DEF Clean
  <2> QED BY <1>0, <2>1, <2>3, <2>5, <2>6, <2>8, <2>10, <2>11, <2>12, <2>13,
       CleanStays
<1>17. ASSUME NEW p \in Procs, DestroySandbox(p) PROVE Clean'
  <2>1. OwnStep(p) /\ Clean BY <1>17, OwnSteps DEF DestroySandbox, CleanInv, history
  <2>2. /\ req[p] \in Containers /\ daemon = "up" /\ Net(req[p]) = net[req[p]]
        /\ Sbox(req[p]) = sbox[req[p]] /\ sbox[req[p]] \in VNIs
    BY <2>1, Serving DEF OwnStep
  <2>3. PICK v \in VNIs : v = sbox[req[p]] BY <2>2
  <2>4. /\ StageOf(p) /\ torn = {} /\ (v \in sandboxes <=> nsFile[v] # "none")
        /\ pc[p] \notin Unsettled => Settled(v)
        /\ req[p] \notin lost /\ pc[p] \notin {"cleanup", "destroy", "unrecord"}
             => (records[req[p]] # Nil => link[req[p]] # Nil)
    BY <2>1, <2>3, OwnClean DEF OwnStep, Clean
  <2>5. UNCHANGED <<torn, file, daemon, crashes>>
    BY <1>17 DEF DestroySandbox, fixed, history
  <2>6. SameElsewhere(v)
    BY <1>17, <2>2, <2>3 DEF SameElsewhere, DestroySandbox, fixed, history, TypeOK
  <2>7. pc[p] = "destroy" /\ CanDestroy(v) /\ vxlan[v] = "none"
    BY <1>17, <2>3, <2>4, Shapes DEF StageOf, CanDestroy
  <2>8. /\ nsFile'[v] = "none" /\ v \notin sandboxes' /\ v \notin dns0'
        /\ UNCHANGED <<vxlan, records, link>>
    BY <1>17, <2>2, <2>3, <2>7 DEF DestroySandbox
  <2>9. pc'[p] = "unrecord" /\ req'[p] = req[p] /\ told' = told
    BY <1>17, <2>2, <2>3, <2>7, Shapes DEF GoesOn, TypeOK
  <2>10. StageOf(p)' /\ Settled(v)' BY <2>7, <2>8, <2>9 DEF StageOf, Settled
  <2>11. ASSUME NEW c \in Containers, c = req[p] PROVE RowOf(c)'
    BY <2>1, <2>8, <2>9, <2>11, Alone DEF RowOf, OwnStep
  <2> QED BY <1>0, <2>1, <2>3, <2>5, <2>6, <2>8, <2>9, <2>10, <2>11, CleanStays
<1>18. ASSUME NEW p \in Procs, DeleteRecord(p) PROVE Clean'
  <2>1. OwnStep(p) /\ Clean BY <1>18, OwnSteps DEF DeleteRecord, CleanInv, history
  <2>2. /\ req[p] \in Containers /\ daemon = "up" /\ Net(req[p]) = net[req[p]]
        /\ Sbox(req[p]) = sbox[req[p]] /\ sbox[req[p]] \in VNIs
    BY <2>1, Serving DEF OwnStep
  <2>3. PICK v \in VNIs : v = sbox[req[p]] BY <2>2
  <2>4. /\ StageOf(p) /\ torn = {} /\ (v \in sandboxes <=> nsFile[v] # "none")
        /\ pc[p] \notin Unsettled => Settled(v)
        /\ req[p] \notin lost /\ pc[p] \notin {"cleanup", "destroy", "unrecord"}
             => (records[req[p]] # Nil => link[req[p]] # Nil)
    BY <2>1, <2>3, OwnClean DEF OwnStep, Clean
  <2>5. UNCHANGED <<nsFile, vxlan, dns0, dns, monitored, sandboxes, torn, file, daemon, crashes>>
    BY <1>18 DEF DeleteRecord, fixed, disk, memory, history
  <2>6. SameElsewhere(v) BY <2>5 DEF SameElsewhere
  <2>7. pc[p] = "unrecord" /\ pc'[p] \in {"release", "idle"} /\ (pc'[p] = "idle" \/ req'[p] = req[p])
    BY <1>18, Shapes DEF GoesOn, Ends, TypeOK
  <2>8. StageOf(p)' /\ Settled(v)'
    BY <2>4, <2>5, <2>7 DEF StageOf, Settled, Unsettled
  <2>9. ASSUME NEW c \in Containers, c = req[p] PROVE RowOf(c)'
    <3>1. records'[c] = Nil BY <1>18, <2>9 DEF DeleteRecord, TypeOK
    <3> QED BY <3>1 DEF RowOf
  <2>10. (v \in sandboxes' <=> nsFile'[v] # "none") /\ (crashes = 0 /\ v \in dns0' => v \in dns')
    BY <2>1, <2>4, <2>5 DEF Clean
  <2> QED BY <1>0, <2>1, <2>3, <2>5, <2>6, <2>7, <2>8, <2>9, <2>10, CleanStays
<1>19. ASSUME NEW p \in Procs, ReleaseIP(p) PROVE Clean'
  <2>1. OwnStep(p) /\ Clean BY <1>19, OwnSteps DEF ReleaseIP, CleanInv, history
  <2>2. /\ req[p] \in Containers /\ daemon = "up" /\ Net(req[p]) = net[req[p]]
        /\ Sbox(req[p]) = sbox[req[p]] /\ sbox[req[p]] \in VNIs
    BY <2>1, Serving DEF OwnStep
  <2>3. PICK v \in VNIs : v = sbox[req[p]] BY <2>2
  <2>4. /\ StageOf(p) /\ torn = {} /\ (v \in sandboxes <=> nsFile[v] # "none")
        /\ pc[p] \notin Unsettled => Settled(v)
        /\ req[p] \notin lost /\ pc[p] \notin {"cleanup", "destroy", "unrecord"}
             => (records[req[p]] # Nil => link[req[p]] # Nil)
    BY <2>1, <2>3, OwnClean DEF OwnStep, Clean
  <2>5. UNCHANGED <<nsFile, vxlan, dns0, dns, monitored, sandboxes, torn, file, daemon, crashes>>
    BY <1>19 DEF ReleaseIP, fixed, disk, memory, history
  <2>6. SameElsewhere(v) BY <2>5 DEF SameElsewhere
  <2>7. pc[p] = "release" /\ pc'[p] \in {"idle"} /\ (pc'[p] = "idle" \/ req'[p] = req[p])
    BY <1>19, Shapes DEF GoesOn, Ends, TypeOK
  <2>8. StageOf(p)' /\ Settled(v)'
    BY <2>4, <2>5, <2>7 DEF StageOf, Settled, Unsettled
  <2>9. ASSUME NEW c \in Containers, c = req[p] PROVE RowOf(c)'
    <3>1. c \notin lost => records[c] = Nil BY <2>7, <2>9 DEF ProgressInv, ProgressOf
    <3> QED BY <1>19, <2>1, <3>1 DEF ReleaseIP, disk, RowOf, OwnStep
  <2>10. (v \in sandboxes' <=> nsFile'[v] # "none") /\ (crashes = 0 /\ v \in dns0' => v \in dns')
    BY <2>1, <2>4, <2>5 DEF Clean
  <2> QED BY <1>0, <2>1, <2>3, <2>5, <2>6, <2>7, <2>8, <2>9, <2>10, CleanStays
<1>20. ASSUME NEW p \in Procs, FailedCreate(p), FailedAnswer(p) PROVE Clean'
  BY <1>20 DEF FailedAnswer
<1>21. ASSUME NEW p \in Procs, FailedStartDNS(p), FailedAnswer(p) PROVE Clean'
  BY <1>21 DEF FailedAnswer
<1>22. ASSUME NEW p \in Procs, FailedAttach(p), FailedAnswer(p) PROVE Clean'
  BY <1>22 DEF FailedAnswer
<1>23. ASSUME NEW p \in Procs, FailedDestroy(p), FailedAnswer(p) PROVE Clean'
  BY <1>23 DEF FailedAnswer
<1>24. ASSUME NEW p \in Procs, FailedStore(p), FailedAnswer(p) PROVE Clean'
  BY <1>24 DEF FailedAnswer
<1>25. ASSUME NEW p \in Procs, FailedCleanly(p), FailedAnswer(p) PROVE Clean'
  BY <1>25 DEF FailedAnswer
<1>26. CASE Crash
  <2>1. Clean /\ \A q \in Procs : pc[q] = "idle" BY <1>26 DEF Crash, CleanInv
  <2>2. \A q \in Procs : pc'[q] = "idle" BY <1>26 DEF Crash
  <2>3. /\ daemon' = "down" /\ crashes' > 0 /\ torn' = {} /\ records' = records
        /\ \A c \in Containers : c \notin lost' => c \notin lost /\ told'[c] = told[c]
    BY <1>26 DEF Crash, TypeOK
  <2>4. \A v \in VNIs : nsFile'[v] = nsFile[v] BY <1>26, <2>1 DEF Crash
  <2>5. ASSUME NEW v \in VNIs
        PROVE  \/ nsFile[v] = "none" /\ vxlan[v] = "none" /\ v \notin dns0
               \/ nsFile[v] = "mounted" /\ vxlan[v] = "sandbox" /\ v \in dns0
    <3>1. Settled(v) BY <2>1 DEF Clean, Unsettled
    <3> QED BY <3>1 DEF Settled
  <2>6. ASSUME NEW v \in VNIs
        PROVE  vxlan'[v] = vxlan[v] /\ (v \in dns0' <=> v \in dns0)
    BY <1>26, <2>4, <2>5 DEF Crash
  <2>7. \A v \in VNIs : Settled(v)' BY <2>3, <2>4, <2>5, <2>6 DEF Settled
  <2>8. \A q \in Procs : StageOf(q)' BY <2>2 DEF StageOf
  <2>9. ASSUME NEW c \in Containers PROVE RowOf(c)'
    <3>1. Sbox(c) = sbox[c] /\ sbox[c] \in VNIs BY NamesOK
    <3>2. link[c] # Nil => nsFile'[sbox[c]] = "mounted" BY <2>4, <3>1 DEF LinkInv
    <3>3. link'[c] = link[c] \/ link[c] = Nil BY <1>26, <3>1, <3>2 DEF Crash
    <3>4. RowOf(c) BY <2>1 DEF Clean
    <3> QED BY <2>1, <2>3, <3>3, <3>4 DEF RowOf
  <2> QED BY <1>0, <2>2, <2>3, <2>7, <2>8, <2>9 DEF Clean
<1>27. CASE Start
  <2>1. Clean BY <1>27 DEF Start, CleanInv, history
  <2>2. \A q \in Procs : pc[q] = "idle" BY <1>27 DEF Start, ServeInv, ServeOf
  <2>3. UNCHANGED <<nsFile, vxlan, dns0, dns, torn, crashes, records, link, pc, req, lost, told>>
    BY <1>27 DEF Start, disk, procs, client, history
  <2>4. ASSUME NEW v \in VNIs
        PROVE  \/ nsFile[v] = "none" /\ vxlan[v] = "none" /\ v \notin dns0
               \/ nsFile[v] = "mounted" /\ vxlan[v] = "sandbox" /\ v \in dns0
    <3>1. Settled(v) BY <2>1, <2>2 DEF Clean, Unsettled
    <3> QED BY <3>1 DEF Settled
  <2>5. Reloads BY <2>4 DEF Reloads, OnDisk, Reloadable
  <2>6. daemon' = "exited" => ~Accepted(file) BY <1>27, <2>5 DEF Start
  <2>7. ASSUME NEW v \in VNIs, daemon' = "up"
        PROVE  /\ v \in sandboxes' <=> nsFile[v] # "none"
               /\ v \in monitored' <=> nsFile[v] # "none"
    BY <1>27, <2>7 DEF Start, OnDisk
  <2>8. \A q \in Procs : StageOf(q)' BY <2>2, <2>3 DEF StageOf
  <2>9. \A v \in VNIs : Settled(v)' BY <2>3, <2>4, <2>7 DEF Settled
  <2>10. \A c \in Containers : RowOf(c)' BY <2>1, <2>3 DEF Clean, RowOf
  <2>11. Accepted(file)' <=> Accepted(file)
    BY <1>0
       DEF Accepted, Readable, Valid, ParseAndValidate, Interpolated, Masked, Contains
  <2>12. torn' = {} /\ \A v \in VNIs : crashes' = 0 /\ v \in dns0' => v \in dns'
    BY <2>1, <2>3 DEF Clean
  <2>13. \A q \in Procs : pc'[q] = "idle" BY <2>2, <2>3
  <2>14. daemon' = "up" => \A v \in VNIs : v \in sandboxes' <=> nsFile'[v] # "none"
    BY <2>3, <2>7
  <2>15. (daemon = "exited" => ~Accepted(file))' BY <2>6, <2>11
  <2> QED BY <1>0, <2>8, <2>9, <2>10, <2>12, <2>13, <2>14, <2>15 DEF Clean
<1> QED BY <1>1, <1>2, <1>3, <1>4, <1>5, <1>6, <1>7, <1>8, <1>9, <1>10, <1>11, <1>12,
     <1>13, <1>14, <1>15, <1>16, <1>17, <1>18, <1>19, <1>20, <1>21, <1>22, <1>23,
     <1>24, <1>25, <1>26, <1>27, Steps

-----------------------------------------------------------------------------
(* The theorems. *)

\* CleanInv holds at first.
LEMMA InitClean ==
  ASSUME Init
  PROVE  CleanInv
BY DEF Init, CleanInv, Clean, StageOf, Settled, RowOf

\* Every step keeps it.
LEMMA NextClean ==
  ASSUME SafeInv, CleanInv, [Next]_vars
  PROVE  CleanInv'
<1>1. CASE Next BY <1>1, CleanStep DEF SafeInv
<1>2. CASE UNCHANGED vars
  <2>1. VNIs' = VNIs BY DEF VNIs
  <2>2. net' = net /\ sbox' = sbox BY <1>2, NamesStay DEF vars
  <2>3. Accepted(file)' <=> Accepted(file)
    BY <1>2
       DEF vars, Accepted, Readable, Valid, ParseAndValidate, Interpolated, Masked,
           Contains
  <2>4. \A p \in Procs : StageOf(p)' <=> StageOf(p) BY <1>2, <2>2 DEF StageOf, vars
  <2>5. \A v \in VNIs : Settled(v)' <=> Settled(v) BY <1>2 DEF Settled, vars
  <2>6. \A c \in Containers : RowOf(c)' <=> RowOf(c) BY <1>2 DEF RowOf, vars
  <2> QED BY <1>2, <2>1, <2>2, <2>3, <2>4, <2>5, <2>6 DEF CleanInv, Clean, vars
<1> QED BY <1>1, <1>2

\* Both invariants hold in every behaviour.
THEOREM CleanInvariant == Spec => [](SafeInv /\ CleanInv)
<1>1. Init => SafeInv /\ CleanInv BY InitSafe, InitClean
<1>2. SafeInv /\ CleanInv /\ [Next]_vars => (SafeInv /\ CleanInv)'
  BY NextSafe, NextClean
<1> QED BY <1>1, <1>2, PTL DEF Spec

\* A container that the runtime was told is up, and of which no call was given
\* up, is attached to a sandbox that works and is found under its own network,
\* whatever other requests, failures and restarts do.
THEOREM UpStaysAttached == Spec => []UpMeansAttached
<1>1. ASSUME SafeInv, CleanInv PROVE UpMeansAttached
  <2>1. SUFFICES ASSUME NEW c \in Containers \ lost, told[c] = "up"
                 PROVE  LET v == Sbox(c) IN
                        /\ records[c] # Nil /\ link[c] = records[c]
                        /\ Reloadable(v) /\ v \in bridges
                        /\ daemon = "up" => v \in (sandboxes \cap monitored) \ torn
                        /\ FindContainer(c) = "found"
                        /\ \A n \in Networks : c \in NetworksListContainers(n) <=> n = Net(c)
                        /\ ~dirty /\ crashes = 0 => v \in dns
    BY DEF UpMeansAttached
  <2> USE <1>1, <2>1
  <2>2. PICK v \in VNIs : v = sbox[c] /\ Sbox(c) = v BY NamesOK DEF SafeInv
  <2>3. records[c] # Nil /\ link[c] = records[c] /\ v \in bridges
    BY <2>2 DEF SafeInv, ProgressInv, ToldOf
  <2>4. /\ nsFile[v] = "mounted" /\ vxlan[v] = "sandbox"
        /\ daemon = "up" => v \in (sandboxes \cap monitored) \ torn
    BY <2>2, <2>3 DEF SafeInv, LinkInv
  <2>5. FindContainer(c) = "found" BY <2>3, Finding
  <2>6. \A n \in Networks : c \in NetworksListContainers(n) <=> n = Net(c)
    BY <2>3 DEF NetworksListContainers, ListContainers
  <2>7. ASSUME ~dirty, crashes = 0 PROVE v \in dns
    <3>1. Clean BY <2>7 DEF CleanInv
    <3>2. ASSUME NEW p \in Procs, pc[p] \in Unsettled, sbox[req[p]] = v
          PROVE  v \in dns0
      <4>1. daemon = "up" BY <3>2, Serving DEF Unsettled, SafeInv
      <4>2. StageOf(p) BY <3>1 DEF Clean
      <4> QED BY <2>4, <3>2, <4>1, <4>2 DEF StageOf, Unsettled
    <3>3. Settled(v) => v \in dns0 BY <2>4 DEF Settled
    <3>4. v \in dns0 BY <3>1, <3>2, <3>3 DEF Clean
    <3> QED BY <2>7, <3>1, <3>4 DEF Clean
  <2> QED BY <2>2, <2>3, <2>4, <2>5, <2>6, <2>7 DEF Reloadable
<1> QED BY <1>1, CleanInvariant, PTL

\* A daemon that served its requests one at a time in each sandbox, none of
\* which failed by itself or was cut off, starts again.
THEOREM Restarts == Spec => []CleanRestart
<1>1. CleanInv => CleanRestart BY DEF CleanInv, Clean, CleanRestart
<1> QED BY <1>1, CleanInvariant, PTL

\* Under the same conditions no deletion of a recorded container fails, before
\* or after restarts.
THEOREM Deletable == Spec => []DeletableAfterRestart
<1>1. CleanInv => DeletableAfterRestart
  BY DEF CleanInv, Clean, RowOf, DeletableAfterRestart
<1> QED BY <1>1, CleanInvariant, PTL
=============================================================================
