--------------------------- MODULE AfsLoopProofs ---------------------------
(***************************************************************************)
(* Proofs that afs_update keeps what a user who keeps the rules relies on, *)
(* and the theorems about Afs: no request is lost, every event answers a   *)
(* request, a slot that is free for reuse has no file open, the calls      *)
(* leave a busy worker alone, and the arrays never overflow.               *)
(***************************************************************************)
EXTENDS AfsUserProofs

(***************************************************************************)
(* afs_update: the worker of a slot is updated                             *)
(***************************************************************************)
(* The slot whose worker is updated                                        *)
LEMMA UpdatedSlot ==
  ASSUME NEW slot, at = "update", at' = "forward", slot.w = Head(todo), UNCHANGED <<ps, evs, stop_req, todo, pend, held>>,
         Good(proc[slot.w]), UpdatedTo(proc[slot.w], proc'[slot.w], res'), SlotInv(slot), ToVisit(slot.w)
  PROVE  SlotInv(slot)' /\ \A c \in UserCmds : Has(slot, c) => Has(slot, c)'
<1> DEFINE s == proc[slot.w]
           t == proc'[slot.w]
<1>1. /\ ~Reporting(slot.w) /\ Reporting(slot.w)' /\ Updating /\ Updating'
      /\ ToVisit(slot.w)' = ToVisit(slot.w) /\ Silent(slot.fd)' = Silent(slot.fd)
  BY DEF Reporting, Updating, ToVisit, Silent
<1>2. CalmSlot(slot) /\ (slot.cmd_after_init # "none" => s.st = "init_pend") /\ Silent(slot.fd)
  BY <1>1, ZenonT(40) DEF SlotInv
<1>3. (s.st = "busy" => s.cmd # "none") /\ "exit" \notin UserCmds /\ "none" \notin UserCmds /\ "nothing" \notin UserCmds
  BY DEF Good, Handshake, UserCmds
<1>4. {"mkdir", "write_fsync_close"} \subseteq UserCmds
  BY DEF UserCmds
<1>5. Quiet(s, t) \/ Started(s, t) \/ Replied(s, t) \/ Exited(s, t)
  BY DEF UpdatedTo
<1>6. (t.stop => s.stop) /\ (Shut(s) => Shut(t)) /\ (res' # "afs_ok" => t.st \in {"uninit", "dead"})
      /\ (First(t) \in {"none", "close"} => Shut(t))
  BY DEF UpdatedTo
<1>7. /\ Len(t.evs) \in 0..2 /\ (Quiet(s, t) => First(t) = "nothing")
      /\ Started(s, t) \/ Replied(s, t) \/ Exited(s, t) => t.evs # <<>> /\ First(t) = t.evs[1].cmd
  <2>1. Quiet(s, t) => Len(t.evs) = 0 /\ First(t) = "nothing"
    BY DEF Quiet, First
  <2>2. Started(s, t) \/ Replied(s, t) \/ Exited(s, t) => Len(t.evs) \in 1..2
    BY DEF Started, Replied, Exited
  <2>3. Len(t.evs) \in 1..2 => t.evs # <<>> /\ First(t) = t.evs[1].cmd
    <3> DEFINE es == t.evs
    <3>1. es = <<>> => Len(es) = 0
      OBVIOUS
    <3>2. es # <<>> => First(t) = es[1].cmd
      BY Zenon DEF First
    <3>3. 0 \notin 1..2
      OBVIOUS
    <3>4. Len(es) \in 1..2 => es # <<>>
      BY <3>1, <3>3, Zenon
    <3> HIDE DEF es
    <3> QED BY <3>2, <3>4, Zenon DEF es
  <2> QED BY <1>5, <2>1, <2>2, <2>3
<1> HIDE DEF s, t
<1>8. CalmSlot(slot)'
  <2>1. t.st = "busy" => (t.cmd = s.cmd /\ s.st = "busy") \/ (t.cmd = "exit" /\ s.stop)
    BY <1>5 DEF Quiet, Started, Replied, Exited
  <2> QED BY <1>2, <1>3, <1>4, <1>6, <2>1, ZenonT(40) DEF CalmSlot, s, t
<1>9. slot.cmd_after_init # "none" => t.st = "init_pend" \/ First(t) = "none"
  BY <1>2, <1>3, <1>5, SMTT(30) DEF Quiet, Started, Replied, Exited, First
<1>10. ReportInv(slot)'
  <2>1. Len(t.evs) = 2 => First(t) = "none" /\ ~t.evs[1].ok /\ t.evs[2].cmd = "exit"
    BY <1>5, <1>7 DEF Quiet, Started, Replied, Exited
  <2>2. First(t) \in UserCmds => /\ Request_(slot.fd, First(t)) \in pend' /\ slot.cmd_after_init = "none"
                                 /\ ~(t.st = "busy" /\ t.cmd \in UserCmds)
    <3> SUFFICES ASSUME First(t) \in UserCmds PROVE
           /\ Request_(slot.fd, First(t)) \in pend' /\ slot.cmd_after_init = "none"
           /\ ~(t.st = "busy" /\ t.cmd \in UserCmds)
      OBVIOUS
    <3>1. Replied(s, t) /\ First(t) = s.cmd /\ s.st = "busy"
      BY <1>3, <1>5, <1>7, ZenonT(40) DEF Quiet, Started, Replied, Exited, First
    <3> QED BY <1>2, <1>3, <3>1 DEF Replied, CalmSlot, s
  <2>3. First(t) = "none" => /\ Started(s, t) \/ Exited(s, t)
                             /\ t.evs # <<>> /\ t.evs[1].cmd = "none"
    BY <1>3, <1>5, <1>7 DEF Quiet, Replied, First
  <2>4. First(t) = "none" => IF t.evs[1].ok /\ slot.cmd_after_init # "none" THEN t.st = "avail" ELSE t.st \in {"avail", "uninit"}
    BY <1>2, <2>3 DEF Started, Exited
  <2>5. First(t) = "none" /\ ~t.evs[1].ok => t.st = "uninit"
    BY <2>3 DEF Started, Exited
  <2>6. First(t) = "exit" => t.st = "uninit"
    BY <1>3, <1>5, <1>7, ZenonT(40) DEF Quiet, Started, Replied, Exited
  <2>7. First(t) \in {"mkdir", "write_fsync_close"} => Shut(t)
    <3>1. First(t) \in {"mkdir", "write_fsync_close"} => s.st = "busy" /\ s.cmd = First(t)
      BY <1>3, <1>4, <1>5, <1>7, ZenonT(40) DEF Quiet, Started, Replied, Exited
    <3> QED BY <1>2, <1>6, <3>1, ZenonT(40) DEF CalmSlot, s
  <2> QED BY <1>6, <1>7, <2>1, <2>2, <2>4, <2>5, <2>6, <2>7, ZenonT(40) DEF ReportInv, t
<1>11. SlotInv(slot)'
  BY <1>1, <1>2, <1>8, <1>9, <1>10, ZenonT(40) DEF SlotInv, t
<1>12. ASSUME NEW c \in UserCmds, Has(slot, c) PROVE Has(slot, c)'
  <2>1. (slot.cmd_after_init = c /\ s.st = "init_pend") \/ (s.st = "busy" /\ s.cmd = c)
    BY <1>1, <1>12, ZenonT(40) DEF Has, Doing, s
  <2>2. CASE slot.cmd_after_init = c /\ s.st = "init_pend"
    <3>1. t.st = "init_pend" \/ First(t) = "none"
      BY <1>3, <1>9, <2>2, ZenonT(40)
    <3> QED BY <1>1, <2>2, <3>1, ZenonT(40) DEF Has, Doing, t
  <2>3. CASE s.st = "busy" /\ s.cmd = c
    <3>1. (t.st = "busy" /\ t.cmd = c) \/ First(t) = c
      BY <1>3, <1>5, <1>7, <2>3, ZenonT(40) DEF Quiet, Started, Replied, Exited
    <3> QED BY <1>1, <3>1, ZenonT(40) DEF Has, Doing, t
  <2> QED BY <2>1, <2>2, <2>3, ZenonT(40)
<1> QED
  BY <1>11, <1>12

(* Another slot                                                            *)
LEMMA NotUpdatedSlot ==
  ASSUME NEW slot, at = "update", at' = "forward", slot.w # Head(todo), UNCHANGED <<ps, evs, stop_req, todo, pend, held>>,
         proc'[slot.w] = proc[slot.w], SlotInv(slot)
  PROVE  SlotInv(slot)' /\ \A c : Has(slot, c) => Has(slot, c)'
<1>1. /\ ~Reporting(slot.w) /\ ~Reporting(slot.w)' /\ Updating /\ Updating'
      /\ ToVisit(slot.w)' = ToVisit(slot.w) /\ Silent(slot.fd)' = Silent(slot.fd)
  BY DEF Reporting, Updating, ToVisit, Silent
<1>2. CalmSlot(slot)'
  BY DEF SlotInv, CalmSlot
<1>3. SlotInv(slot)'
  BY <1>1, <1>2, ZenonT(40) DEF SlotInv
<1>4. \A c : Has(slot, c) => Has(slot, c)'
  BY <1>1 DEF Has, Doing
<1> QED
  BY <1>3, <1>4

(* proc_update_ of the next worker                                         *)
LEMMA UpdateSlotUse ==
  ASSUME AfsInv, UseInv, UpdateSlot
  PROVE  UseInv'
<1> DEFINE w == Head(todo)
           o == proc_update_(proc[w])
<1>1. /\ at = "update" /\ at' = "forward" /\ todo # <<>> /\ UNCHANGED <<ps, evs, stop_req, todo, pend, held>>
      /\ Set(w, o.s) /\ res' = o.r
  BY DEF UpdateSlot, ProcUpdate, ctx, user
<1>2. TypeOK /\ GoodList(ps) /\ w \in Procs /\ Good(proc[w]) /\ ToVisit(w)
  <2>1. todo \in Seq(Procs) /\ TypeOK /\ GoodList(ps) /\ \A v \in Procs : Good(proc[v])
    BY DEF AfsInv, IInv, CtxInv, ListInv, LoopInv
  <2>2. w = todo[1] /\ 1 \in DOMAIN todo /\ w \in Procs
    BY <1>1, <2>1, SMTT(30)
  <2> QED BY <2>1, <2>2, ZenonT(40) DEF ToVisit
<1> HIDE DEF w
<1>3. UpdatedTo(proc[w], o.s, o.r)
  BY <1>2, UpdateTidy, ZenonT(40) DEF UseInv
<1> HIDE DEF o
<1>4. proc'[w] = o.s /\ \A v \in Procs : v # w => proc'[v] = proc[v]
  BY <1>1, <1>2, OtherWorkers, ZenonT(40)
<1>5. Members(ps)' = Members(ps) /\ \A slot \in Members(ps) : slot.w \in Procs
  BY <1>1, <1>2, MembersGood, ZenonT(40) DEF Members
<1>6. ASSUME NEW slot \in Members(ps)
      PROVE  SlotInv(slot)' /\ \A c \in UserCmds : Has(slot, c) => Has(slot, c)'
  <2>1. SlotInv(slot)
    BY DEF UseInv
  <2>2. CASE slot.w = w
    BY <1>1, <1>2, <1>3, <1>4, <2>1, <2>2, UpdatedSlot, ZenonT(40) DEF w
  <2>3. CASE slot.w # w
    BY <1>1, <1>4, <1>5, <2>1, <2>3, NotUpdatedSlot, ZenonT(40) DEF w
  <2> QED BY <2>2, <2>3, ZenonT(40)
<1>7. EventInv'
  BY <1>1, ZenonT(40) DEF UseInv, EventInv, Updating
<1>8. \A q \in pend : Kept(q)'
  <2>1. \A q \in pend : q.cmd \in UserCmds
    BY DEF AfsInv, CtxInv, UserInv
  <2> QED BY <1>1, <1>5, <1>6, <2>1, ZenonT(40) DEF UseInv, Kept, Updating
<1>9. \A v \in Procs : Tidy(proc'[v])
  BY <1>3, <1>4 DEF UseInv, UpdatedTo
<1> QED
  BY <1>1, <1>5, <1>6, <1>7, <1>8, <1>9, ZenonT(40) DEF UseInv
----------------------------------------------------------------------------
(***************************************************************************)
(* afs_update: the events of the worker are looked at                      *)
(***************************************************************************)
(* What one event does to a slot                                           *)
NotedTo(slot, e, n) ==
  /\ n \in Slots /\ n.w = slot.w
  /\ e.cmd = "none" => n.cmd_after_init = "none" /\ n.fd = slot.fd
  /\ e.cmd # "none" => /\ n.cmd_after_init = slot.cmd_after_init
                       /\ n.fd = IF e.cmd \in Closes \cup {"exit"} THEN -1 ELSE slot.fd

(* A close frees the slot, and a start takes its command.                  *)
LEMMA NotedIs ==
  ASSUME NEW slot \in Slots, NEW e \in Events
  PROVE  NotedTo(slot, e, Noted(slot, e))
<1> DEFINE a == [slot EXCEPT !.is_avail = TRUE, !.cmd_after_init = "none"]
           b == [slot EXCEPT !.cmd_after_init = "none"]
           c == [slot EXCEPT !.fd = -1]
           d == [slot EXCEPT !.fd = -1, !.is_avail = FALSE]
           n == Noted(slot, e)
<1>1. n \in Slots /\ n.w = slot.w
  BY NotedGood
<1>2. a.cmd_after_init = "none" /\ b.cmd_after_init = "none" /\ c.cmd_after_init = slot.cmd_after_init
      /\ d.cmd_after_init = slot.cmd_after_init /\ a.fd = slot.fd /\ b.fd = slot.fd /\ c.fd = -1 /\ d.fd = -1
  BY DEF Slots
<1>3. e.ok \in BOOLEAN
  BY DEF Events
<1>4. /\ e.cmd = "none" => n = a \/ n = b
      /\ e.cmd \in Closes => n = c
      /\ e.cmd = "exit" => n = d
      /\ e.cmd \notin Closes \cup {"none", "exit"} => n = slot
  BY <1>3 DEF Noted, Closes
<1> HIDE DEF a, b, c, d, n
<1>5. NotedTo(slot, e, n)
  BY <1>1, <1>2, <1>4, ZenonT(40) DEF NotedTo, Closes
<1> QED
  BY <1>5 DEF n

(* What the events of a worker do to its slot                              *)
AllNotedTo(slot, es, n) ==
  /\ n \in Slots /\ n.w = slot.w
  /\ es = <<>> => n = slot
  /\ es # <<>> /\ es[1].cmd = "none" => /\ n.cmd_after_init = "none" /\ n.fd \in {slot.fd, -1}
                                        /\ es[1].ok => n.fd = slot.fd
  /\ es # <<>> /\ es[1].cmd # "none" => /\ n.cmd_after_init = slot.cmd_after_init
                                        /\ n.fd = IF es[1].cmd \in Closes \cup {"exit"} THEN -1 ELSE slot.fd

(* Two events are a failed start and an exit.                              *)
LEMMA AllNotedIs ==
  ASSUME NEW slot \in Slots, NEW es \in Seq(Events), Len(es) \in 0..2,
         Len(es) = 2 => es[1].cmd = "none" /\ ~es[1].ok /\ es[2].cmd = "exit"
  PROVE  AllNotedTo(slot, es, NotedAll(slot, es))
<1>1. CASE Len(es) = 0
  <2>1. es = <<>>
    BY <1>1
  <2> QED BY <2>1 DEF NotedAll, AllNotedTo
<1>2. CASE Len(es) = 1
  <2>1. es # <<>> /\ es[1] \in Events
    BY <1>2
  <2>2. NotedAll(slot, es) = Noted(slot, es[1])
    BY <1>2, <2>1, ZenonT(40) DEF NotedAll
  <2>3. NotedTo(slot, es[1], Noted(slot, es[1]))
    BY <2>1, NotedIs, ZenonT(40)
  <2> QED BY <2>1, <2>2, <2>3, ZenonT(40) DEF NotedTo, AllNotedTo
<1>3. CASE Len(es) = 2
  <2>1. es # <<>> /\ es[1] \in Events /\ es[2] \in Events
    BY <1>3, SMTT(30)
  <2> DEFINE m == Noted(slot, es[1])
  <2>2. NotedAll(slot, es) = Noted(m, es[2])
    BY <1>3, <2>1 DEF NotedAll
  <2>3. NotedTo(slot, es[1], m)
    BY <2>1, NotedIs
  <2>4. m \in Slots
    BY <2>3 DEF NotedTo
  <2> HIDE DEF m
  <2>5. NotedTo(m, es[2], Noted(m, es[2]))
    BY <2>1, <2>4, NotedIs
  <2> QED BY <1>3, <2>1, <2>2, <2>3, <2>5, ZenonT(40) DEF NotedTo, AllNotedTo
<1> QED
  BY <1>1, <1>2, <1>3, SMTT(30)

(* What the user is told: the command of the event, or nothing             *)
Tells(slot, es, c) ==
  \/ c = "nothing" /\ (es = <<>> \/ es[1].cmd = "exit" \/ (es[1].cmd = "none" /\ (es[1].ok \/ slot.cmd_after_init = "none")))
  \/ c = es[1].cmd /\ es # <<>> /\ es[1].cmd \notin {"none", "exit"}
  \/ c = slot.cmd_after_init /\ es # <<>> /\ es[1].cmd = "none" /\ ~es[1].ok /\ slot.cmd_after_init # "none"

Adds(list, n, c, new) ==
  IF c = "nothing" THEN new = list ELSE \E e : new = Append(list, e) /\ e.fd = n /\ e.cmd = c /\ e \in AfsEvents

(* The operator and the relation                                           *)
LEMMA ToldIs ==
  ASSUME NEW slot \in Slots, NEW es \in Seq(Events), NEW list \in Seq(AfsEvents)
  PROVE  \E c \in UserCmds \cup {"nothing"} : Tells(slot, es, c) /\ Adds(list, slot.fd, c, list \o Told(slot, es))
<1> DEFINE c == IF es = <<>> \/ es[1].cmd = "exit" THEN "nothing"
                ELSE IF es[1].cmd # "none" THEN es[1].cmd
                ELSE IF ~es[1].ok /\ slot.cmd_after_init # "none" THEN slot.cmd_after_init ELSE "nothing"
           f == AfsEvent(slot.fd, proc_cmd_fail_ev_(slot.cmd_after_init))
           g == AfsEvent(slot.fd, es[1])
<1>1. slot.fd \in Nat \cup {-1} /\ slot.cmd_after_init \in Cmds /\ (slot.cmd_after_init # "none" => slot.cmd_after_init \in UserCmds)
  BY CmdsFacts DEF Slots, AfterInit, Cmds, UserCmds
<1>2. es # <<>> => es[1] \in Events /\ es[1].cmd \in Cmds
  <2>1. es # <<>> => es[1] \in Events
    OBVIOUS
  <2>2. \A e \in Events : e.cmd \in Cmds
    BY DEF Events
  <2> QED BY <2>1, <2>2, Zenon
<1>3. es # <<>> => g \in AfsEvents /\ g.fd = slot.fd /\ g.cmd = es[1].cmd
  BY <1>1, <1>2, AfsEventType, ZenonT(40) DEF AfsEvent
<1>4. f \in AfsEvents /\ f.fd = slot.fd /\ f.cmd = slot.cmd_after_init
  <2>1. proc_cmd_fail_ev_(slot.cmd_after_init) \in Events
    BY <1>1, EventType, Zenon DEF proc_cmd_fail_ev_
  <2>2. f \in AfsEvents
    BY <1>1, <2>1, AfsEventType, ZenonT(40)
  <2> QED BY <2>2 DEF AfsEvent, proc_cmd_fail_ev_, Event
<1>5. c \in UserCmds \cup {"nothing"}
  BY <1>1, <1>2, ZenonT(40) DEF Cmds
<1>6. Tells(slot, es, c)
  BY DEF Tells
<1>7. /\ es # <<>> /\ c # "nothing" /\ es[1].cmd # "none" => Told(slot, es) = <<g>> /\ c = es[1].cmd
      /\ es # <<>> /\ c # "nothing" /\ es[1].cmd = "none" => Told(slot, es) = <<f>> /\ c = slot.cmd_after_init
      /\ es = <<>> => c = "nothing"
  BY Zenon DEF Told
<1>8. c = "nothing" => Told(slot, es) = <<>>
  <2>1. "nothing" \notin Cmds
    BY DEF Cmds, UserCmds
  <2> QED BY <1>1, <1>2, <2>1, Zenon DEF Told
<1> HIDE DEF c, f, g
<1>9. Adds(list, slot.fd, c, list \o Told(slot, es))
  <2>1. CASE c = "nothing"
    <3>1. list \o <<>> = list
      OBVIOUS
    <3> QED BY <1>8, <2>1, <3>1, Zenon DEF Adds
  <2>2. CASE c # "nothing" /\ es[1].cmd # "none"
    <3>1. g \in AfsEvents /\ g.fd = slot.fd /\ g.cmd = c /\ Told(slot, es) = <<g>>
      BY <1>3, <1>7, <2>2, Zenon
    <3>2. list \o <<g>> = Append(list, g)
      BY <3>1
    <3> QED BY <2>2, <3>1, <3>2, Zenon DEF Adds
  <2>3. CASE c # "nothing" /\ es[1].cmd = "none"
    <3>1. f \in AfsEvents /\ f.fd = slot.fd /\ f.cmd = c /\ Told(slot, es) = <<f>>
      BY <1>4, <1>7, <2>3, ZenonT(40)
    <3>2. list \o <<f>> = Append(list, f)
      BY <3>1
    <3> QED BY <2>3, <3>1, <3>2, Zenon DEF Adds
  <2> QED BY <2>1, <2>2, <2>3, ZenonT(40)
<1> QED
  BY <1>5, <1>6, <1>9, Zenon

(* The step for a slot: its next value, its worker's, and the command of   *)
(* the event that the user gets                                            *)
Forwards(slot, s, n, t, c) ==
  /\ n \in Slots /\ n.w = slot.w /\ n.fd \in {slot.fd, -1} /\ c \in UserCmds \cup {"nothing"}
  /\ \/ First(s) = "nothing" /\ n = slot /\ t = s /\ c = "nothing"
     \/ First(s) \in UserCmds /\ n.cmd_after_init = slot.cmd_after_init /\ t = s /\ c = First(s)
        /\ (n.fd = slot.fd \/ First(s) \in Closes)
     \/ First(s) = "exit" /\ n.cmd_after_init = slot.cmd_after_init /\ t = s /\ c = "nothing"
     \/ First(s) = "none" /\ slot.cmd_after_init = "none" /\ n.cmd_after_init = "none" /\ t = s /\ c = "nothing"
     \/ First(s) = "none" /\ n.cmd_after_init = "none" /\ t = s /\ c = slot.cmd_after_init /\ ~s.evs[1].ok
     \/ First(s) = "none" /\ n.cmd_after_init = "none" /\ n.fd = slot.fd /\ s.evs[1].ok /\ slot.cmd_after_init # "none"
        /\ \E r : SentTo(s, slot.cmd_after_init, t, r) /\ c = IF r = "afs_ok" THEN "nothing" ELSE slot.cmd_after_init

(* The slots after the step                                                *)
LEMMA ForwardMembers ==
  ASSUME CtxInv, TypeOK, Forward, NEW n, n = NotedAll(ps[Cur], proc[Head(todo)].evs)
  PROVE  /\ Members(ps') \subseteq (Members(ps) \ {ps[Cur]}) \cup {n}
         /\ \A a \in Members(ps) : a # ps[Cur] /\ a.fd # n.fd => a \in Members(ps')
         /\ res = "afs_ok" /\ ~(First(proc[Head(todo)]) = "none" /\ ~proc[Head(todo)].evs[1].ok) => n \in Members(ps')
<1> DEFINE slot == ps[Cur]
           s == proc[Head(todo)]
           list == [ps EXCEPT ![Cur] = n]
           gone == res # "afs_ok" \/ (s.evs # <<>> /\ s.evs[1].cmd = "none" /\ ~s.evs[1].ok)
<1>1. at = "forward"
  BY Zenon DEF Forward
<1>2. /\ Cur \in DOMAIN ps /\ Head(todo) \in Procs /\ slot \in Slots /\ slot.w = Head(todo)
      /\ (CHOOSE j \in DOMAIN ps : ps[j].w = Head(todo)) = Cur
  BY <1>1, Current, ZenonT(40)
<1>3. ps' = IF gone THEN ps_del_(list, n.fd) ELSE list
  BY <1>2, Zenon DEF Forward
<1>4. s.evs \in Seq(Events)
  BY <1>2, ZenonT(40) DEF TypeOK, ProcState
<1>5. n \in Slots /\ n.w = slot.w /\ n.fd \in {slot.fd, -1}
  BY <1>2, <1>4, NotedAllGood, ZenonT(40)
<1>6. GoodList(ps)
  BY DEF CtxInv, ListInv
<1>7. GoodList(list)
  BY <1>2, <1>5, <1>6, SetSlot, ZenonT(40)
<1>8. OneChanged(ps, Cur, n, list)
  BY <1>2, <1>6, ZenonT(40) DEF GoodList, OneChanged
<1>9. Exchanged(Members(ps), slot, n, Members(list))
  BY <1>2, <1>6, <1>8, SetMembers, ZenonT(40)
<1>10. /\ Members(ps_del_(list, n.fd)) \subseteq Members(list)
       /\ \A a \in Members(list) : a.fd # n.fd => a \in Members(ps_del_(list, n.fd))
  BY <1>7, DelMembers, Zenon
<1>11. gone => res # "afs_ok" \/ (First(s) = "none" /\ ~s.evs[1].ok)
  BY DEF First
<1> HIDE DEF slot, s, list, gone
<1>12. Members(ps') = IF gone THEN Members(ps_del_(list, n.fd)) ELSE Members(list)
  BY <1>3, Zenon
<1>13. /\ Members(ps') \subseteq (Members(ps) \ {slot}) \cup {n}
       /\ \A a \in Members(ps) : a # slot /\ a.fd # n.fd => a \in Members(ps')
       /\ ~gone => n \in Members(ps')
  BY <1>9, <1>10, <1>12 DEF Exchanged
<1> QED
  BY <1>11, <1>13, Zenon DEF slot, s

(* The step as that relation                                               *)
LEMMA ForwardIs ==
  ASSUME AfsInv, Forward, ReportInv(ps[Cur])
  PROVE  \E c : /\ Forwards(ps[Cur], proc[Head(todo)], NotedAll(ps[Cur], proc[Head(todo)].evs), proc'[Head(todo)], c)
                /\ Adds(evs, ps[Cur].fd, c, evs')
<1> DEFINE w == Head(todo)
           slot == ps[Cur]
           s == proc[w]
           es == s.evs
           n == NotedAll(slot, es)
           k == slot.cmd_after_init
           sent == proc_send_cmd_(s, k)
           f == AfsEvent(slot.fd, proc_cmd_fail_ev_(k))
           begun == es # <<>> /\ es[1].cmd = "none" /\ es[1].ok /\ k # "none"
<1>1. at = "forward" /\ CtxInv /\ TypeOK /\ evs \in Seq(AfsEvents)
  BY Zenon DEF Forward, AfsInv, IInv, CtxInv, EvsInv
<1>2. /\ Cur \in DOMAIN ps /\ w \in Procs /\ slot \in Slots /\ slot.w = w
      /\ (CHOOSE j \in DOMAIN ps : ps[j].w = Head(todo)) = Cur
  BY <1>1, Current, ZenonT(40)
<1>3. \/ begun /\ Set(w, sent.s) /\ evs' = IF sent.r = "afs_ok" THEN evs ELSE Append(evs, f)
      \/ ~begun /\ UNCHANGED proc /\ evs' = evs \o Told(slot, es)
  BY <1>2, Zenon DEF Forward
<1>4. Good(s) /\ es \in Seq(Events)
  BY <1>2 DEF AfsInv, IInv, Good, ProcState
<1>5. /\ Len(es) \in 0..2
      /\ Len(es) = 2 => es[1].cmd = "none" /\ ~es[1].ok /\ es[2].cmd = "exit"
  <2>1. Len(es) \in 0..2 /\ (Len(es) = 2 => First(s) = "none" /\ ~es[1].ok /\ es[2].cmd = "exit")
    BY <1>2, Zenon DEF ReportInv
  <2>2. Len(es) = 2 => es # <<>>
    <3>1. Len(<<>>) = 0 /\ 0 # 2
      OBVIOUS
    <3> QED BY <3>1, Zenon
  <2> QED BY <2>1, <2>2, Zenon DEF First
<1>6. AllNotedTo(slot, es, n) /\ n.fd \in {slot.fd, -1}
  BY <1>2, <1>4, <1>5, AllNotedIs, NotedAllGood, ZenonT(40)
<1>7. k # "none" => k \in UserCmds
  BY <1>2 DEF Slots, AfterInit, UserCmds
<1>8. (es = <<>> => First(s) = "nothing") /\ (es # <<>> => First(s) = es[1].cmd)
  BY DEF First
<1> HIDE DEF w, slot, s, es, n, k, sent, f, begun
<1>9. CASE begun
  <2>1. k \in UserCmds /\ k # "none" /\ es # <<>> /\ es[1].cmd = "none" /\ es[1].ok
    BY <1>7, <1>9, ZenonT(40) DEF begun
  <2>2. SentTo(s, k, sent.s, sent.r)
    BY <1>4, <2>1, CmdsFacts, SendTidy, ZenonT(40) DEF sent
  <2>3. proc'[w] = sent.s
    BY <1>1, <1>2, <1>3, <1>9, OtherWorkers, ZenonT(40)
  <2> DEFINE c == IF sent.r = "afs_ok" THEN "nothing" ELSE k
  <2>4. Forwards(slot, s, n, sent.s, c)
    <3>1. n \in Slots /\ n.w = slot.w /\ n.cmd_after_init = "none" /\ n.fd = slot.fd
      BY <1>6, <2>1, ZenonT(40) DEF AllNotedTo
    <3>2. First(s) = "none" /\ s.evs[1].ok /\ slot.cmd_after_init # "none" /\ c \in UserCmds \cup {"nothing"}
      BY <1>8, <2>1 DEF es, k
    <3>3. \E r : SentTo(s, slot.cmd_after_init, sent.s, r) /\ c = IF r = "afs_ok" THEN "nothing" ELSE slot.cmd_after_init
      BY <2>2, Zenon DEF k
    <3> HIDE DEF c
    <3> QED BY <3>1, <3>2, <3>3, Zenon DEF Forwards
  <2>5. Adds(evs, slot.fd, c, evs')
    <3>1. f \in AfsEvents /\ f.fd = slot.fd /\ f.cmd = k
      <4>1. proc_cmd_fail_ev_(k) \in Events
        BY <2>1, CmdsFacts, EventType, Zenon DEF proc_cmd_fail_ev_
      <4>2. slot.fd \in Nat \cup {-1}
        BY <1>2 DEF Slots
      <4> QED BY <4>1, <4>2, AfsEventType, Zenon DEF f, AfsEvent, proc_cmd_fail_ev_, Event
    <3>2. k # "nothing"
      BY <2>1 DEF UserCmds
    <3> QED BY <1>3, <1>9, <3>1, <3>2, Zenon DEF Adds
  <2> QED BY <2>3, <2>4, <2>5, ZenonT(40) DEF w, slot, s, es, n
<1>10. CASE ~begun
  <2>1. PICK c \in UserCmds \cup {"nothing"} : Tells(slot, es, c) /\ Adds(evs, slot.fd, c, evs \o Told(slot, es))
    BY <1>1, <1>2, <1>4, ToldIs, Zenon
  <2>2. proc'[w] = s /\ evs' = evs \o Told(slot, es)
    BY <1>3, <1>10, Zenon DEF s
  <2>3. Forwards(slot, s, n, s, c)
    <3>1. n \in Slots /\ n.w = slot.w /\ n.fd \in {slot.fd, -1}
      BY <1>6 DEF AllNotedTo
    <3>2. es # <<>> => es[1].cmd \in UserCmds \cup {"none", "exit"}
      <4>1. es # <<>> => es[1] \in Events
        BY <1>4
      <4>2. \A e \in Events : e.cmd \in UserCmds \cup {"none", "exit"}
        BY DEF Events, Cmds, UserCmds
      <4> QED BY <4>1, <4>2, Zenon
    <3>3. CASE es = <<>>
      <4>1. First(s) = "nothing" /\ n = slot /\ c = "nothing"
        BY <1>6, <1>8, <2>1, <3>3, ZenonT(40) DEF AllNotedTo, Tells
      <4> QED BY <3>1, <4>1, Zenon DEF Forwards
    <3>4. CASE es # <<>> /\ es[1].cmd = "exit"
      <4>1. First(s) = "exit" /\ n.cmd_after_init = k /\ c = "nothing"
        BY <1>6, <1>8, <2>1, <3>4, ZenonT(40) DEF AllNotedTo, Tells, k
      <4> QED BY <3>1, <4>1, Zenon DEF Forwards, k
    <3>5. CASE es # <<>> /\ es[1].cmd \in UserCmds
      <4>1. "none" \notin UserCmds /\ "exit" \notin UserCmds
        BY DEF UserCmds
      <4>2. /\ First(s) \in UserCmds /\ n.cmd_after_init = k /\ c = First(s)
            /\ (n.fd = slot.fd \/ First(s) \in Closes)
        BY <1>6, <1>8, <2>1, <3>5, <4>1, ZenonT(40) DEF AllNotedTo, Tells, k
      <4> QED BY <2>1, <3>1, <4>2, ZenonT(40) DEF Forwards, k
    <3>6. CASE es # <<>> /\ es[1].cmd = "none"
      <4>1. First(s) = "none" /\ n.cmd_after_init = "none" /\ (~s.evs[1].ok \/ k = "none")
        BY <1>6, <1>8, <1>10, <3>6, Zenon DEF AllNotedTo, es, begun
      <4>2. \/ k = "none" /\ c = "nothing"
            \/ c = k /\ ~s.evs[1].ok
        BY <1>10, <2>1, <3>6, <4>1, Zenon DEF Tells, es, k
      <4> QED BY <2>1, <3>1, <4>1, <4>2, Zenon DEF Forwards, k
    <3> QED BY <3>2, <3>3, <3>4, <3>5, <3>6, Zenon
  <2> QED BY <2>1, <2>2, <2>3, Zenon DEF w, slot, s, es, n
<1> QED
  BY <1>9, <1>10, ZenonT(40)

(* The slot keeps what it is owed.                                         *)
LEMMA ForwardedSlot ==
  ASSUME NEW slot \in Slots, NEW n, NEW c, SlotInv(slot), Reporting(slot.w), ToVisit(slot.w), Good(proc[slot.w]),
         Tidy(proc[slot.w]), Forwards(slot, proc[slot.w], n, proc'[slot.w], c), Adds(evs, slot.fd, c, evs'),
         at' = "update", ~ToVisit(slot.w)', \A q \in pend : q.fd \in Nat, UNCHANGED <<stop_req, res, pend, held>>
  PROVE  SlotInv(n)'
<1> DEFINE s == proc[slot.w]
           t == proc'[slot.w]
           k == slot.cmd_after_init
<1>1. ReportInv(slot) /\ CalmSlot(slot) /\ Silent(slot.fd)
  BY ZenonT(40) DEF SlotInv, Updating, Reporting
<1>2. n.w = slot.w /\ n.fd \in {slot.fd, -1} /\ ~Reporting(slot.w)' /\ "none" \notin UserCmds /\ "nothing" \notin UserCmds
  BY ZenonT(40) DEF Forwards, Reporting, UserCmds
<1>3. (k # "none" => s.st = "init_pend" \/ First(s) = "none") /\ (s.st = "busy" => s.cmd # "none")
  BY ZenonT(40) DEF SlotInv, Good, Handshake
<1>4. /\ First(s) \in UserCmds => k = "none" /\ ~(s.st = "busy" /\ s.cmd \in UserCmds)
      /\ First(s) = "none" => s.st \in {"avail", "uninit"}
      /\ First(s) = "exit" => s.st = "uninit"
      /\ First(s) \in Closes \cup {"none"} => Shut(s)
  BY <1>1, ZenonT(40) DEF ReportInv, Closes
<1>5. s.st = "uninit" => Shut(s)
  BY ZenonT(40) DEF Good, Handshake, Tidy, Shut
<1>6. \/ First(s) = "nothing" /\ n = slot /\ t = s /\ c = "nothing"
      \/ /\ t = s /\ n.cmd_after_init = "none" /\ ~(s.st = "busy" /\ s.cmd \in UserCmds)
         /\ n.fd = slot.fd \/ Shut(s)
      \/ /\ First(s) = "none" /\ n.cmd_after_init = "none" /\ n.fd = slot.fd /\ k # "none" /\ Shut(s)
         /\ \E r : SentTo(s, k, t, r) /\ c = IF r = "afs_ok" THEN "nothing" ELSE k
  <2>1. First(s) = "exit" => k = "none"
    BY <1>3, <1>4, ZenonT(40)
  <2> HIDE DEF s, t
  <2> QED BY <1>4, <1>5, <2>1, ZenonT(40) DEF Forwards, s, t
<1>7. k # "none" => k \in UserCmds /\ slot.fd # -1
  <2>1. k \in AfterInit
    BY DEF Slots
  <2>2. k # "none" => k \in UserCmds
    BY <2>1, ZenonT(40) DEF AfterInit, UserCmds
  <2>3. k # "none" => Request_(slot.fd, k) \in pend
    BY <1>1, ZenonT(40) DEF CalmSlot
  <2> QED BY <2>2, <2>3, SMTT(30) DEF Request_
<1>8. c = "nothing" => Silent(slot.fd)'
  BY <1>1, ZenonT(40) DEF Silent, Adds
<1>9. /\ s.stop => stop_req
      /\ k # "none" => Request_(slot.fd, k) \in pend
      /\ s.st = "busy" => IF s.cmd \in UserCmds THEN Request_(slot.fd, s.cmd) \in pend ELSE stop_req
      /\ slot.fd = -1 => Shut(s)
      /\ [fd |-> slot.fd, kind |-> "reserved"] \in held => Shut(s) /\ k # "open"
      /\ s.st = "busy" /\ s.cmd \in {"mkdir", "write_fsync_close"} => Shut(s)
  BY <1>1 DEF CalmSlot
<1> DEFINE Owed == /\ t.stop => stop_req
                   /\ n.cmd_after_init # "none" => Request_(n.fd, n.cmd_after_init) \in pend
                   /\ t.st = "busy" => IF t.cmd \in UserCmds THEN Request_(n.fd, t.cmd) \in pend ELSE stop_req
                   /\ n.fd = -1 => Shut(t)
                   /\ [fd |-> n.fd, kind |-> "reserved"] \in held => Shut(t) /\ n.cmd_after_init # "open"
                   /\ t.st = "busy" /\ t.cmd \in {"mkdir", "write_fsync_close"} => Shut(t)
                   /\ n.cmd_after_init # "none" => t.st = "init_pend"
                   /\ n.cmd_after_init # "none" \/ (t.st = "busy" /\ t.cmd \in UserCmds) => c = "nothing" /\ n.fd = slot.fd
<1>10. ASSUME First(s) = "nothing" /\ n = slot /\ t = s /\ c = "nothing"
       PROVE  Owed
  <2>1. k # "none" => s.st = "init_pend"
    BY <1>3, <1>10, ZenonT(40)
  <2> HIDE DEF s, t
  <2> QED BY <1>9, <1>10, <2>1, ZenonT(40) DEF k
<1>11. ASSUME /\ t = s /\ n.cmd_after_init = "none" /\ ~(s.st = "busy" /\ s.cmd \in UserCmds)
              /\ n.fd = slot.fd \/ Shut(s)
       PROVE  Owed
  <2>1. "none" # "open"
    BY ZenonT(40)
  <2> HIDE DEF s, t, k
  <2> QED BY <1>9, <1>11, <2>1, Zenon
<1>12. ASSUME /\ First(s) = "none" /\ n.cmd_after_init = "none" /\ n.fd = slot.fd /\ k # "none" /\ Shut(s)
              /\ \E r : SentTo(s, k, t, r) /\ c = IF r = "afs_ok" THEN "nothing" ELSE k
       PROVE  Owed
  <2> HIDE DEF s, t, k
  <2>1. PICK r : SentTo(s, k, t, r) /\ c = IF r = "afs_ok" THEN "nothing" ELSE k
    BY <1>12, ZenonT(40)
  <2>2. t.stop = s.stop
    BY <2>1, ZenonT(40) DEF SentTo
  <2>3. t.st = "busy" => t.cmd = k /\ c = "nothing" /\ k \in UserCmds
    <3>1. s.st # "busy"
      BY <1>4, <1>12, ZenonT(40)
    <3> QED BY <1>7, <1>12, <2>1, <3>1, ZenonT(40) DEF SentTo
  <2>4. k # "open" \/ t.st # "busy" => Shut(t)
    BY <1>12, <2>1, ZenonT(40) DEF SentTo
  <2>5. "open" \notin {"mkdir", "write_fsync_close"} /\ "none" # "open"
    BY ZenonT(40)
  <2> QED BY <1>7, <1>9, <1>12, <2>2, <2>3, <2>4, <2>5, ZenonT(40)
<1>13. Owed
  BY <1>6, <1>10, <1>11, <1>12, Zenon
<1>14. CalmSlot(n)'
  <2> HIDE DEF t
  <2> QED BY <1>2, <1>13, ZenonT(40) DEF CalmSlot, t
<1>15. Updating' /\ n.w = slot.w /\ ~ToVisit(n.w)' /\ ~Reporting(n.w)'
  BY <1>2, ZenonT(40) DEF Updating
<1>16. n.cmd_after_init # "none" => proc'[n.w].st = "init_pend"
  BY <1>2, <1>13, ZenonT(40)
<1>17. n.cmd_after_init # "none" \/ (proc'[n.w].st = "busy" /\ proc'[n.w].cmd \in UserCmds) => Silent(n.fd)'
  <2>1. c = "nothing" /\ n.fd = slot.fd => Silent(n.fd)'
    BY <1>8, ZenonT(40) DEF Silent
  <2> QED BY <1>2, <1>13, <2>1, ZenonT(40)
<1> HIDE DEF Owed, s, t, k
<1> QED
  BY <1>14, <1>15, <1>16, <1>17, ZenonT(40) DEF SlotInv

(* A request that the worker has stays with it or gets its event.          *)
LEMMA ForwardedHas ==
  ASSUME NEW slot \in Slots, NEW n, NEW c, SlotInv(slot), Reporting(slot.w),
         Forwards(slot, proc[slot.w], n, proc'[slot.w], c), at' = "update", NEW u \in UserCmds, Has(slot, u)
  PROVE  \/ c = u
         \/ /\ Has(n, u)' /\ n.fd = slot.fd
            /\ res = "afs_ok" /\ ~(First(proc[slot.w]) = "none" /\ ~proc[slot.w].evs[1].ok)
<1> DEFINE s == proc[slot.w]
           t == proc'[slot.w]
           k == slot.cmd_after_init
           stays == Has(n, u)' /\ n.fd = slot.fd /\ res = "afs_ok" /\ ~(First(s) = "none" /\ ~s.evs[1].ok)
<1>1. ReportInv(slot) /\ n.w = slot.w /\ "none" \notin UserCmds /\ "nothing" \notin UserCmds /\ "exit" \notin UserCmds
  BY ZenonT(40) DEF SlotInv, Forwards, UserCmds
<1>2. /\ First(s) \in UserCmds => k = "none" /\ ~(s.st = "busy" /\ s.cmd \in UserCmds)
      /\ First(s) = "none" => s.st \in {"avail", "uninit"}
      /\ First(s) = "none" /\ s.evs[1].ok /\ k # "none" => s.st = "avail"
      /\ First(s) = "exit" => s.st = "uninit"
      /\ res # "afs_ok" => s.st \in {"uninit", "dead"}
  BY <1>1, Zenon DEF ReportInv
<1>3. \/ k = u /\ s.st = "init_pend"
      \/ s.st = "busy" /\ s.cmd = u
      \/ First(s) = u
      \/ First(s) = "none" /\ k = u
  BY ZenonT(40) DEF Has, Doing
<1>4. ASSUME (n.cmd_after_init = u /\ t.st = "init_pend") \/ (t.st = "busy" /\ t.cmd = u) PROVE Has(n, u)'
  BY <1>1, <1>4, ZenonT(40) DEF Has, Doing
<1> HIDE DEF s, t, k
<1>5. CASE (k = u /\ s.st = "init_pend") \/ (s.st = "busy" /\ s.cmd = u)
  <2>1. First(s) \notin UserCmds /\ First(s) # "none" /\ First(s) # "exit" /\ res = "afs_ok"
    BY <1>1, <1>2, <1>5, ZenonT(40)
  <2>2. n = slot /\ t = s
    BY <2>1, ZenonT(40) DEF Forwards, s, t
  <2> QED BY <1>4, <1>5, <2>1, <2>2, ZenonT(40) DEF s, k
<1>6. CASE First(s) = u
  BY <1>1, <1>6, ZenonT(40) DEF Forwards, s
<1>7. CASE First(s) = "none" /\ k = u
  <2>1. \/ c = u
        \/ /\ n.fd = slot.fd /\ s.evs[1].ok
           /\ \E r : SentTo(s, k, t, r) /\ c = IF r = "afs_ok" THEN "nothing" ELSE k
    BY <1>1, <1>7, ZenonT(40) DEF Forwards, s, k, t
  <2>2. ASSUME n.fd = slot.fd, s.evs[1].ok, NEW r, SentTo(s, k, t, r), c = IF r = "afs_ok" THEN "nothing" ELSE k
        PROVE  c = u \/ stays
    <3>1. s.st = "avail"
      BY <1>1, <1>2, <1>7, <2>2, ZenonT(40)
    <3>2. c = u \/ (t.st = "busy" /\ t.cmd = u)
      BY <1>7, <2>2, <3>1, ZenonT(40) DEF SentTo
    <3>3. res = "afs_ok"
      BY <1>2, <3>1, ZenonT(40)
    <3> QED BY <1>4, <2>2, <3>2, <3>3, Zenon
  <2> QED BY <2>1, <2>2, ZenonT(40) DEF s
<1> QED
  BY <1>3, <1>5, <1>6, <1>7, ZenonT(40)

(* The other slots are not touched, and the event is not for them.         *)
LEMMA NotForwardedSlot ==
  ASSUME NEW a, SlotInv(a), at = "forward", a.w # Head(todo), proc'[a.w] = proc[a.w], NEW m, NEW c,
         evs \in Seq(AfsEvents), Adds(evs, m, c, evs'), c # "nothing" => a.fd # m,
         at' = "update", ToVisit(a.w)' => ToVisit(a.w), UNCHANGED <<stop_req, res, pend, held>>
  PROVE  SlotInv(a)' /\ \A u : Has(a, u) => Has(a, u)'
<1>1. ~Reporting(a.w) /\ ~Reporting(a.w)' /\ Updating /\ Updating'
  BY ZenonT(40) DEF Reporting, Updating
<1>2. CalmSlot(a)'
  BY ZenonT(40) DEF SlotInv, CalmSlot
<1>3. Silent(a.fd) => Silent(a.fd)'
  <2>1. CASE c = "nothing"
    BY <2>1 DEF Adds, Silent
  <2>2. CASE c # "nothing"
    <3>1. PICK e : evs' = Append(evs, e) /\ e.fd = m /\ e \in AfsEvents
      BY <2>2, ZenonT(40) DEF Adds
    <3>2. \A k \in DOMAIN evs' : (k \in DOMAIN evs /\ evs'[k] = evs[k]) \/ evs'[k] = e
      BY <3>1, SMTT(30)
    <3> QED BY <2>2, <3>1, <3>2, ZenonT(40) DEF Silent
  <2> QED BY <2>1, <2>2, ZenonT(40)
<1>4. SlotInv(a)'
  BY <1>1, <1>2, <1>3, ZenonT(40) DEF SlotInv
<1>5. \A u : Has(a, u) => Has(a, u)'
  BY <1>1 DEF Has, Doing
<1> QED
  BY <1>4, <1>5, ZenonT(40)

(* The workers to come are not the one that was visited.                   *)
LEMMA TailOther ==
  ASSUME CtxInv, at \in {"update", "forward"}, todo # <<>>, todo' = Tail(todo), NEW v, ToVisit(v)'
  PROVE  ToVisit(v) /\ v # Head(todo)
<1>1. GoodList(ps) /\ todo \in Seq(Procs) /\ Rest(todo, ps)
  BY DEF CtxInv, ListInv, LoopInv
<1>2. PICK k \in DOMAIN Tail(todo) : Tail(todo)[k] = v
  BY DEF ToVisit
<1>3. /\ Len(todo) \in Nat /\ Len(ps) \in Nat /\ DOMAIN todo = 1..Len(todo) /\ DOMAIN ps = 1..Len(ps)
      /\ k \in Nat /\ k >= 1 /\ k + 1 <= Len(todo) /\ v = todo[k + 1] /\ Head(todo) = todo[1] /\ Len(todo) <= Len(ps)
  BY <1>1, <1>2, SMTT(30) DEF GoodList, Rest
<1> DEFINE d == Len(ps) - Len(todo)
<1>4. d + 1 \in DOMAIN ps /\ d + (k + 1) \in DOMAIN ps /\ d + 1 # d + (k + 1) /\ k + 1 \in 1..Len(todo) /\ 1 \in 1..Len(todo)
  BY <1>3
<1>5. ps[d + 1].w = todo[1] /\ ps[d + (k + 1)].w = v
  BY <1>1, <1>3, <1>4, ZenonT(40) DEF Rest
<1>6. v # Head(todo)
  BY <1>1, <1>3, <1>4, <1>5, Zenon DEF GoodList, Distinct
<1> QED
  BY <1>3, <1>4, <1>6, ZenonT(40) DEF ToVisit

(* An event for a slot that has had none answers one more request.         *)
LEMMA AddedEvent ==
  ASSUME EventInv, Updating, Updating', evs \in Seq(AfsEvents), NEW m, NEW c, Adds(evs, m, c, evs'), pend' = pend,
         c # "nothing" => Request_(m, c) \in pend /\ Silent(m)
  PROVE  /\ EventInv'
         /\ \A k \in DOMAIN evs : k \in DOMAIN evs' /\ evs'[k] = evs[k]
         /\ c # "nothing" => \E k \in DOMAIN evs' : evs'[k].fd = m /\ evs'[k].cmd = c
<1>1. CASE c = "nothing"
  BY <1>1 DEF Adds, EventInv
<1>2. CASE c # "nothing"
  <2>1. PICK e : evs' = Append(evs, e) /\ e.fd = m /\ e.cmd = c /\ e \in AfsEvents
    BY <1>2, ZenonT(40) DEF Adds
  <2> DEFINE l == Len(evs) + 1
  <2>2. /\ \A k \in DOMAIN evs : k \in DOMAIN evs' /\ evs'[k] = evs[k]
        /\ l \in DOMAIN evs' /\ evs'[l] = e
        /\ \A k \in DOMAIN evs' : k \in DOMAIN evs \/ k = l
    BY <2>1
  <2> HIDE DEF l
  <2>3. /\ \A k \in DOMAIN evs : Request_(evs[k].fd, evs[k].cmd) \in pend /\ evs[k].fd # m
        /\ \A k, j \in DOMAIN evs : k # j => evs[k].fd # evs[j].fd
    BY <1>2, Zenon DEF EventInv, Silent
  <2>4. \A k \in DOMAIN evs' : Request_(evs'[k].fd, evs'[k].cmd) \in pend
    BY <1>2, <2>1, <2>2, <2>3, Zenon
  <2>5. ASSUME NEW k \in DOMAIN evs', NEW j \in DOMAIN evs', k # j PROVE evs'[k].fd # evs'[j].fd
    <3>1. CASE k \in DOMAIN evs /\ j \in DOMAIN evs
      <4>1. evs'[k] = evs[k] /\ evs'[j] = evs[j] /\ evs[k].fd # evs[j].fd
        BY <2>2, <2>3, <2>5, <3>1, ZenonT(40)
      <4> QED BY <4>1, Zenon
    <3>2. CASE k \in DOMAIN evs /\ j = l
      <4>1. evs'[k] = evs[k] /\ evs[k].fd # m /\ evs'[j].fd = m
        BY <2>1, <2>2, <2>3, <3>2, Zenon
      <4> QED BY <4>1, Zenon
    <3>3. CASE k = l /\ j \in DOMAIN evs
      <4>1. evs'[j] = evs[j] /\ evs[j].fd # m /\ evs'[k].fd = m
        BY <2>1, <2>2, <2>3, <3>3, Zenon
      <4> QED BY <4>1, Zenon
    <3> QED BY <2>2, <2>5, <3>1, <3>2, <3>3, Zenon
  <2>6. EventInv'
    BY <2>4, <2>5, ZenonT(40) DEF EventInv
  <2> QED BY <2>1, <2>2, <2>6, ZenonT(40)
<1> QED
  BY <1>1, <1>2, ZenonT(40)

(* The events of a worker are looked at.                                   *)
LEMMA ForwardUse ==
  ASSUME AfsInv, UseInv, Forward
  PROVE  UseInv'
<1>0. PICK w, slot, s, n : w = Head(todo) /\ slot = ps[Cur] /\ s = proc[w] /\ n = NotedAll(slot, s.evs)
  BY ZenonT(40)
<1>1. at = "forward" /\ CtxInv /\ TypeOK /\ evs \in Seq(AfsEvents) /\ GoodList(ps) /\ todo # <<>>
      /\ \A q \in pend : q.fd \in Nat /\ q.cmd \in UserCmds
  BY Zenon DEF Forward, AfsInv, IInv, CtxInv, EvsInv, ListInv, LoopInv, UserInv
<1>2. Cur \in DOMAIN ps /\ w \in Procs /\ slot \in Slots /\ slot.w = w
  BY <1>0, <1>1, Current, ZenonT(40)
<1>3. at' = "update" /\ todo' = Tail(todo) /\ UNCHANGED <<stop_req, res, pend, held>>
  BY Zenon DEF Forward, user
<1>4. /\ slot \in Members(ps) /\ Reporting(w) /\ Good(s) /\ Tidy(s) /\ Updating /\ Updating'
      /\ ToVisit(w) /\ ~ToVisit(w)' /\ \A v : ToVisit(v)' => ToVisit(v)
  <2>1. slot \in Members(ps) /\ Reporting(w) /\ Updating /\ Updating'
    BY <1>0, <1>1, <1>2, <1>3, ZenonT(40) DEF Members, Reporting, Updating
  <2>2. Good(s) /\ Tidy(s)
    BY <1>0, <1>2, ZenonT(40) DEF AfsInv, IInv, UseInv
  <2>3. ToVisit(w)
    <3>1. todo \in Seq(Procs)
      BY <1>1 DEF CtxInv, LoopInv
    <3> QED BY <1>0, <1>1, <3>1, SMTT(30) DEF ToVisit
  <2>4. \A v : ToVisit(v)' => ToVisit(v) /\ v # w
    BY <1>0, <1>1, <1>3, TailOther, Zenon
  <2>5. ~ToVisit(w)'
    BY <2>4, Zenon
  <2>6. \A v : ToVisit(v)' => ToVisit(v)
    BY <2>4, Zenon
  <2> QED BY <2>1, <2>2, <2>3, <2>5, <2>6, Zenon
<1>5. SlotInv(slot)
  BY <1>4 DEF UseInv
<1>6. ReportInv(slot) /\ CalmSlot(slot) /\ Silent(slot.fd)
  BY <1>2, <1>4, <1>5, ZenonT(40) DEF SlotInv
<1>7. PICK c : Forwards(slot, s, n, proc'[w], c) /\ Adds(evs, slot.fd, c, evs')
  BY <1>0, <1>6, ForwardIs, ZenonT(40)
<1>8. /\ Members(ps') \subseteq (Members(ps) \ {slot}) \cup {n}
      /\ \A a \in Members(ps) : a # slot /\ a.fd # n.fd => a \in Members(ps')
      /\ res = "afs_ok" /\ ~(First(s) = "none" /\ ~s.evs[1].ok) => n \in Members(ps')
  BY <1>0, <1>1, ForwardMembers, Zenon
<1>9. \A v \in Procs : v # w => proc'[v] = proc[v]
  <2> DEFINE sent == proc_send_cmd_(proc[w], slot.cmd_after_init)
  <2>1. (CHOOSE j \in DOMAIN ps : ps[j].w = Head(todo)) = Cur
    BY <1>1, Current, ZenonT(40)
  <2>2. Set(w, sent.s) \/ UNCHANGED proc
    BY <1>0, <2>1, ZenonT(40) DEF Forward
  <2> HIDE DEF sent
  <2> QED BY <1>1, <1>2, <2>2, OtherWorkers, ZenonT(40)
<1>10. n.w = w /\ n.fd \in {slot.fd, -1} /\ c \in UserCmds \cup {"nothing"}
  BY <1>2, <1>7, ZenonT(40) DEF Forwards
<1>11. c # "nothing" => Request_(slot.fd, c) \in pend /\ slot.fd \in Nat
  <2>1. c # "nothing" => (c = First(s) /\ First(s) \in UserCmds) \/ (c = slot.cmd_after_init /\ c # "none")
    <3>1. "none" \notin UserCmds
      BY ZenonT(40) DEF UserCmds
    <3> QED BY <1>7, <1>10, <3>1, ZenonT(40) DEF Forwards
  <2>2. First(s) \in UserCmds => Request_(slot.fd, First(s)) \in pend
    BY <1>0, <1>2, <1>6, ZenonT(40) DEF ReportInv
  <2>3. slot.cmd_after_init # "none" => Request_(slot.fd, slot.cmd_after_init) \in pend
    BY <1>6 DEF CalmSlot
  <2>4. c # "nothing" => Request_(slot.fd, c) \in pend
    BY <2>1, <2>2, <2>3, ZenonT(40)
  <2> QED BY <1>1, <2>4, ZenonT(40) DEF Request_
<1>12. /\ EventInv'
       /\ \A k \in DOMAIN evs : k \in DOMAIN evs' /\ evs'[k] = evs[k]
       /\ c # "nothing" => \E k \in DOMAIN evs' : evs'[k].fd = slot.fd /\ evs'[k].cmd = c
  <2>1. EventInv
    BY DEF UseInv
  <2>2. Updating /\ Updating' /\ evs \in Seq(AfsEvents) /\ Adds(evs, slot.fd, c, evs') /\ pend' = pend
    BY <1>1, <1>3, <1>4, <1>7, Zenon
  <2>3. c # "nothing" => Request_(slot.fd, c) \in pend /\ Silent(slot.fd)
    BY <1>6, <1>11, Zenon
  <2> QED BY <2>1, <2>2, <2>3, AddedEvent, SMTT(30)
<1>13. SlotInv(n)'
  BY <1>0, <1>1, <1>2, <1>3, <1>4, <1>5, <1>7, ForwardedSlot, Zenon
<1>14. ASSUME NEW a \in Members(ps), a # slot
       PROVE  /\ SlotInv(a)' /\ \A u : Has(a, u) => Has(a, u)'
              /\ a.fd \in Nat => a \in Members(ps')
  <2>1. a.w \in Procs /\ a.w # w /\ (a.fd # slot.fd \/ a.fd = -1)
    BY <1>1, <1>2, <1>4, <1>14, MembersGood, ZenonT(40)
  <2>2. SlotInv(a) /\ proc'[a.w] = proc[a.w]
    BY <1>9, <2>1, ZenonT(40) DEF UseInv
  <2>3. c # "nothing" => a.fd # slot.fd
    BY <1>11, <2>1, SMTT(30)
  <2>4. SlotInv(a)' /\ \A u : Has(a, u) => Has(a, u)'
    BY <1>1, <1>3, <1>4, <1>7, <2>1, <2>2, <2>3, <1>0, NotForwardedSlot, Zenon
  <2>5. a.fd \in Nat => a \in Members(ps')
    <3>1. a.fd \in Nat => a.fd # n.fd
      BY <1>10, <2>1, SMTT(30)
    <3> QED BY <1>8, <1>14, <3>1, ZenonT(40)
  <2> QED BY <2>4, <2>5, ZenonT(40)
<1>15. \A a \in Members(ps') : SlotInv(a)'
  BY <1>8, <1>13, <1>14, Zenon
<1>16. ASSUME NEW q \in pend PROVE Kept(q)'
  <2>1. q.fd \in Nat /\ q.cmd \in UserCmds /\ Kept(q)
    BY <1>1 DEF UseInv
  <2>2. CASE \E k \in DOMAIN evs : evs[k].fd = q.fd /\ evs[k].cmd = q.cmd
    BY <1>4, <1>12, <2>2, Zenon DEF Kept
  <2>3. ASSUME NEW a \in Members(ps), a.fd = q.fd, Has(a, q.cmd) PROVE Kept(q)'
    <3>1. CASE a # slot
      BY <1>14, <2>1, <2>3, <3>1, Zenon DEF Kept
    <3>2. CASE a = slot
      <4>1. \/ c = q.cmd
            \/ Has(n, q.cmd)' /\ n.fd = slot.fd /\ res = "afs_ok" /\ ~(First(s) = "none" /\ ~s.evs[1].ok)
        <5>1. Reporting(slot.w) /\ Forwards(slot, proc[slot.w], n, proc'[slot.w], c) /\ Has(slot, q.cmd)
          BY <1>0, <1>2, <1>4, <1>7, <2>3, <3>2, ZenonT(40)
        <5>2. \/ c = q.cmd
              \/ /\ Has(n, q.cmd)' /\ n.fd = slot.fd
                 /\ res = "afs_ok" /\ ~(First(proc[slot.w]) = "none" /\ ~proc[slot.w].evs[1].ok)
          BY <1>2, <1>3, <1>5, <2>1, <5>1, ForwardedHas, ZenonT(40)
        <5> QED BY <1>0, <1>2, <5>2, ZenonT(40)
      <4>2. c = q.cmd => c # "nothing"
        BY <2>1 DEF UserCmds
      <4>3. CASE c = q.cmd
        BY <1>4, <1>12, <2>3, <3>2, <4>2, <4>3, Zenon DEF Kept
      <4>4. CASE Has(n, q.cmd)' /\ n.fd = slot.fd /\ res = "afs_ok" /\ ~(First(s) = "none" /\ ~s.evs[1].ok)
        BY <1>8, <2>3, <3>2, <4>4, Zenon DEF Kept
      <4> QED BY <4>1, <4>3, <4>4, ZenonT(40)
    <3> QED BY <3>1, <3>2, ZenonT(40)
  <2> QED BY <2>1, <2>2, <2>3, ZenonT(40) DEF Kept
<1>17. \A v \in Procs : Tidy(proc'[v])
  <2>1. Tidy(proc'[w])
    BY <1>4, <1>7, ZenonT(40) DEF Forwards, SentTo
  <2> QED BY <1>9, <2>1, ZenonT(40) DEF UseInv
<1>18. /\ at' = "stop_prep" => stop_req'
       /\ at' = "stopped" => pend' = {}
       /\ pend' = pend
  BY <1>3, ZenonT(40)
<1> QED
  BY <1>12, <1>15, <1>16, <1>17, <1>18, Zenon DEF UseInv, Members

(* The end of afs_update: the requests with an event are answered.         *)
LEMMA UpdateDoneUse ==
  ASSUME AfsInv, UseInv, UpdateDone
  PROVE  UseInv'
<1> DEFINE stopped == stop_req /\ \A i \in DOMAIN ps : proc[ps[i].w].st = "uninit"
           all == IF stopped THEN Append(evs, StopEvent) ELSE evs
           Seen(n, cmds) == \E i \in DOMAIN all : all[i].fd = n /\ all[i].cmd \in cmds
<1>1. /\ at = "update" /\ at' = "calls" /\ UNCHANGED <<proc, ps, stop_req>>
      /\ pend' = {q \in pend : ~Seen(q.fd, {q.cmd})} /\ held' \subseteq held
  BY DEF UpdateDone
<1>2. evs \in Seq(AfsEvents) /\ \A q \in pend : q.fd \in Nat
  BY DEF AfsInv, CtxInv, EvsInv, UserInv
<1>3. /\ \A k \in DOMAIN evs : k \in DOMAIN all /\ all[k] = evs[k]
      /\ \A k \in DOMAIN all : (k \in DOMAIN evs /\ all[k] = evs[k]) \/ all[k].fd = -1
  <2>1. StopEvent \in AfsEvents /\ StopEvent.fd = -1
    BY AfsEventType, EventType, CmdsFacts, Zenon DEF StopEvent, AfsEvent, Event
  <2> HIDE DEF stopped
  <2>2. CASE stopped
    BY <1>2, <2>1, <2>2
  <2>3. CASE ~stopped
    BY <2>3
  <2> QED BY <2>2, <2>3, ZenonT(40)
<1> HIDE DEF stopped, all
<1>4. ASSUME NEW q \in pend, Silent(q.fd) PROVE q \in pend'
  <2>1. \A k \in DOMAIN all : all[k].fd # q.fd
    BY <1>2, <1>3, <1>4, SMTT(30) DEF Silent
  <2> QED BY <1>1, <2>1, Zenon
<1>5. ASSUME NEW q \in pend' PROVE q \in pend /\ ~(\E k \in DOMAIN evs : evs[k].fd = q.fd /\ evs[k].cmd = q.cmd)
  BY <1>1, <1>3, <1>5, ZenonT(40)
<1> HIDE DEF Seen
<1>6. Updating /\ \A v : ~Reporting(v)
  BY <1>1 DEF Updating, Reporting
<1>7. ASSUME NEW slot \in Members(ps)
      PROVE  CalmSlot(slot)' /\ (slot.cmd_after_init # "none" => proc'[slot.w].st = "init_pend")
  <2>1. SlotInv(slot)
    BY DEF UseInv
  <2>2. ASSUME NEW c, Request_(slot.fd, c) \in pend, Silent(slot.fd) PROVE Request_(slot.fd, c) \in pend'
    BY <1>4, <2>2, ZenonT(40) DEF Request_
  <2> DEFINE s == proc[slot.w]
  <2>3. /\ slot.cmd_after_init # "none" => Request_(slot.fd, slot.cmd_after_init) \in pend'
        /\ s.st = "busy" => IF s.cmd \in UserCmds THEN Request_(slot.fd, s.cmd) \in pend' ELSE stop_req
    BY <1>6, <2>1, <2>2, ZenonT(40) DEF SlotInv, CalmSlot
  <2>4. CalmSlot(slot)
    BY <2>1, ZenonT(40) DEF SlotInv
  <2>5. CalmSlot(slot)'
    <3>1. proc'[slot.w] = s /\ stop_req' = stop_req
          /\ ([fd |-> slot.fd, kind |-> "reserved"] \in held' => [fd |-> slot.fd, kind |-> "reserved"] \in held)
      BY <1>1, ZenonT(40)
    <3> HIDE DEF s
    <3> QED BY <2>3, <2>4, <3>1, ZenonT(40) DEF CalmSlot, s
  <2>6. slot.cmd_after_init # "none" => proc'[slot.w].st = "init_pend"
    BY <1>1, <1>6, <2>1, ZenonT(40) DEF SlotInv
  <2> QED BY <2>5, <2>6, ZenonT(40)
<1>8. ASSUME NEW q \in pend' PROVE \E slot \in Members(ps) : slot.fd = q.fd /\ Doing(slot, q.cmd)'
  <2>1. Kept(q)
    BY <1>5 DEF UseInv
  <2>2. PICK slot \in Members(ps) : slot.fd = q.fd /\ Has(slot, q.cmd)
    BY <1>5, <2>1, ZenonT(40) DEF Kept
  <2>3. Doing(slot, q.cmd)'
    BY <1>1, <1>6, <2>2, ZenonT(40) DEF Has, Doing
  <2> QED BY <2>2, <2>3, ZenonT(40)
<1>9. CalmInv'
  <2>1. Members(ps)' = Members(ps) /\ \A v \in Procs : Tidy(proc'[v])
    BY <1>1 DEF UseInv, Members
  <2> QED BY <1>7, <1>8, <2>1, ZenonT(40) DEF CalmInv
<1> QED
  BY <1>1, <1>9, CalmIsUse, ZenonT(40) DEF Updating
----------------------------------------------------------------------------
(***************************************************************************)
(* The whole                                                               *)
(***************************************************************************)
(* The invariant of Afs: that of the context and of its workers, and that  *)
(* of a user who keeps the rules                                           *)
AllInv == AfsInv /\ (Polite => UseInv)

(* Nothing has been asked.                                                 *)
LEMMA AfsInitAll == AfsInit => AllInv
<1> SUFFICES ASSUME AfsInit PROVE AllInv
  OBVIOUS
<1>1. AfsInv
  BY AfsInitInv, ZenonT(40)
<1>2. \A w \in Procs : Tidy(proc[w])
  BY DEF AfsInit, Init, Blank, Tidy
<1>3. Members(ps) = {} /\ pend = {} /\ at = "calls"
  BY DEF AfsInit, Members
<1>4. UseInv
  BY <1>2, <1>3, ZenonT(40) DEF UseInv, EventInv, Updating
<1> QED
  BY <1>1, <1>4, ZenonT(40) DEF AllInv

(* Such a user leaves a busy worker alone, and so does afs_update.         *)
LEMMA AllWaited ==
  ASSUME AllInv, ClientWaits => Polite
  PROVE  Waited
<1> SUFFICES ASSUME ClientWaits PROVE Waited
  BY DEF Waited
<1>1. Polite /\ AfsInv /\ UseInv /\ CtxInv
  BY ZenonT(40) DEF AllInv, AfsInv
<1>2. ASSUME NEW i \in DOMAIN ps, proc[ps[i].w].st = "busy" PROVE stop_req \/ \E q \in pend : q.fd = ps[i].fd
  <2>1. ps[i] \in Members(ps)
    BY ZenonT(40) DEF Members
  <2>2. CalmSlot(ps[i])
    BY <1>1, <2>1, ZenonT(40) DEF UseInv, SlotInv
  <2>3. \A c : Request_(ps[i].fd, c).fd = ps[i].fd
    BY ZenonT(40) DEF Request_
  <2> QED BY <1>2, <2>2, <2>3, ZenonT(40) DEF CalmSlot
<1>3. ASSUME at = "forward", First(proc[Head(todo)]) = "none" PROVE proc[Head(todo)].st # "busy"
  <2>1. Cur \in DOMAIN ps /\ ps[Cur].w = Head(todo)
    BY <1>1, <1>3, Current, ZenonT(40)
  <2>2. SlotInv(ps[Cur]) /\ Reporting(ps[Cur].w)
    BY <1>1, <1>3, <2>1, ZenonT(40) DEF UseInv, Members, Reporting
  <2>3. ReportInv(ps[Cur])
    BY <2>2, ZenonT(40) DEF SlotInv
  <2> QED BY <1>3, <2>1, <2>3, ZenonT(40) DEF ReportInv
<1>4. at = "forward" => LET s == proc[Head(todo)] IN
                          s.evs # <<>> /\ s.evs[1].cmd = "none" /\ s.evs[1].ok => s.st # "busy"
  BY <1>3, ZenonT(40) DEF First
<1> QED
  BY <1>1, <1>2, <1>4, ZenonT(40) DEF Waited

(* Every step keeps what such a user relies on.                            *)
LEMMA UseStep ==
  ASSUME AfsInv, UseInv, Polite, [AfsNext]_afsvars
  PROVE  UseInv'
<1>1. ASSUME NEW fits \in BOOLEAN, afs_open(fits) \/ afs_mkdir(fits) PROVE UseInv'
  BY <1>1, OpenUse, ZenonT(40) DEF afs_open, afs_mkdir
<1>2. CASE afs_reserve
  BY <1>2, ReserveUse, ZenonT(40)
<1>3. ASSUME NEW n \in Fds, afs_close(n) \/ afs_fsync(n) \/ afs_readall(n) PROVE UseInv'
  BY <1>3, FdCallUse, LensAssumption, ZenonT(40) DEF afs_close, afs_fsync, afs_readall
<1>4. ASSUME NEW n \in Fds, NEW len \in Lens, afs_write(n, len) \/ afs_write_fsync_close(n, len) PROVE UseInv'
  BY <1>4, FdCallUse, WfcUse, ZenonT(40) DEF afs_write
<1>5. CASE afs_stop \/ afs_init
  BY <1>5, StopUse
<1>6. CASE \/ afs_stop_prep \/ StopPrepSlot \/ StopPrepDone \/ afs_pollfds \/ PollSlot \/ UpdateStart
  BY <1>6, LoopUse, ZenonT(40)
<1>7. CASE UpdateSlot \/ Forward \/ UpdateDone
  BY <1>7, UpdateSlotUse, ForwardUse, UpdateDoneUse, ZenonT(40)
<1>8. CASE Children
  BY <1>8, ChildrenUse
<1>9. CASE UNCHANGED afsvars
  <2>1. UNCHANGED <<proc, ps, evs, stop_req, at, todo, res, pend, held>>
    BY <1>9 DEF afsvars
  <2>2. \A v \in Procs : SameToParent(proc[v], proc'[v])
    BY <2>1, Zenon DEF SameToParent, UseInv
  <2> QED BY <2>1, <2>2, UnseenUse
<1> QED
  BY <1>1, <1>2, <1>3, <1>4, <1>5, <1>6, <1>7, <1>8, <1>9, ZenonT(40) DEF AfsNext, UserCall, Loop

(* The invariant is inductive: Afs makes only AfsProc's steps of a worker. *)
LEMMA AllStep ==
  ASSUME ClientWaits => Polite
  PROVE  AllInv /\ [AfsNext]_afsvars => AllInv' /\ [Next]_vars
<1> SUFFICES ASSUME AllInv, [AfsNext]_afsvars PROVE AllInv' /\ [Next]_vars
  OBVIOUS
<1>1. AfsInv /\ IInv /\ CtxInv /\ TypeOK
  BY DEF AllInv, AfsInv, IInv
<1>2. CtxInv'
  BY <1>1, CtxStep
<1>3. [Next]_vars
  BY <1>1, AllWaited, StepIsProc
<1>4. IInv'
  BY <1>1, <1>3, StepInv, ZenonT(40)
<1>5. Polite => UseInv'
  BY <1>1, UseStep, ZenonT(40) DEF AllInv
<1> QED
  BY <1>2, <1>3, <1>4, <1>5, SMTT(30) DEF AllInv, AfsInv

(* The invariant holds always, however the children run and die: whatever  *)
(* the user calls if the workers take any call, and for a user who keeps   *)
(* the rules if the workers are to be left alone while they are busy.      *)
THEOREM AfsInvariance ==
  ASSUME ClientWaits => Polite
  PROVE  AfsSpec => []AllInv
<1>1. AllInv /\ [AfsNext]_afsvars => AllInv'
  BY AllStep
<1> QED
  BY <1>1, AfsInitAll, PTL DEF AfsSpec

(* Every variable of the context and of its workers has its type.          *)
THEOREM AfsTypeCorrect ==
  ASSUME ClientWaits => Polite
  PROVE  AfsSpec => []AfsTypeOK
<1>1. AllInv => AfsTypeOK
  BY DEF AllInv, AfsInv, IInv, CtxInv, ListInv, GoodList, Fits, LoopInv, EvsInv, UserInv, AfsTypeOK
<1>2. AfsSpec => []AllInv
  BY AfsInvariance, ZenonT(40)
<1> QED
  BY <1>1, <1>2, PTL

(* No two slots share a descriptor or a worker, however many slots are     *)
(* added, reused and deleted.                                              *)
THEOREM FdsUnique ==
  ASSUME ClientWaits => Polite
  PROVE  AfsSpec => []UniqueFds
<1>1. AllInv => UniqueFds
  BY ZenonT(40) DEF AllInv, AfsInv, CtxInv, ListInv, GoodList, Distinct, UniqueFds
<1>2. AfsSpec => []AllInv
  BY AfsInvariance, SMTT(30)
<1> QED
  BY <1>1, <1>2, PTL

(* "not enough pfds" (afs.c:599) does not fire with any number of slots.   *)
THEOREM PfdsNeverOverflow ==
  ASSUME ClientWaits => Polite
  PROVE  AfsSpec => []PfdsFit
<1>1. AllInv => PfdsFit
  BY DEF AllInv, AfsInv, CtxInv, ListInv, Fits, PfdsFit
<1>2. AfsSpec => []AllInv
  BY AfsInvariance
<1> QED
  BY <1>1, <1>2, PTL

(* "evs overflow" (afs.c:201) does not fire for a user that keeps the      *)
(* rules, afs_ev_stop included.                                            *)
THEOREM EvsNeverOverflow ==
  ASSUME Polite
  PROVE  AfsSpec => []EvsFit
<1>1. AllInv => EvsFit
  BY DEF AllInv, AfsInv, CtxInv, EvsInv, EvsFit
<1>2. AfsSpec => []AllInv
  BY AfsInvariance
<1> QED
  BY <1>1, <1>2, PTL

(* The composition implements AfsProc: every step of the calls and of the  *)
(* event loop is a step of one worker that AfsProc allows, or of none.  If *)
(* the user keeps the rules, it allows no call of a busy worker.           *)
THEOREM AfsImplementsProc ==
  ASSUME ClientWaits => Polite
  PROVE  AfsSpec => ImplementsProc
<1>1. AllInv /\ [AfsNext]_afsvars => [Next]_vars
  BY AllStep
<1>2. AfsInit => Init
  BY DEF AfsInit
<1>3. AfsSpec => []AllInv
  BY AfsInvariance
<1> QED
  BY <1>1, <1>2, <1>3, PTL DEF AfsSpec, ImplementsProc, Spec

(* So the workers of a context keep the baton, in particular.              *)
THEOREM AfsBatonSafe ==
  ASSUME ClientWaits => Polite
  PROVE  AfsSpec => []OneBaton
<1>1. AfsSpec => Spec
  BY AfsImplementsProc DEF ImplementsProc
<1> QED
  BY <1>1, BatonSafe, PTL

(* And a context drives its workers as AfsRequest says: whatever call,     *)
(* slot or deletion comes between, an accepted command is completed by one *)
(* event, which names it, before the worker accepts another one.           *)
THEOREM AfsImplementsRequest ==
  ASSUME ClientWaits => Polite
  PROVE  AfsSpec => ImplementsRequest
<1>1. AfsSpec => Spec
  BY AfsImplementsProc DEF ImplementsProc
<1>2. Spec => ImplementsRequest
  BY Refinement, ZenonT(40)
<1> QED
  BY <1>1, <1>2, PTL

(* And a successful write of a user who keeps the rules reports the length *)
(* that it was given ("always equal to requested if not fail", afs.c:23).  *)
THEOREM AfsLengthReported ==
  ASSUME ClientWaits, Polite
  PROVE  AfsSpec => WriteLenAsRequested
<1>1. AfsSpec => Spec
  BY AfsImplementsProc DEF ImplementsProc
<1>2. Spec => WriteLenAsRequested
  BY LengthReported, ZenonT(40)
<1> QED
  BY <1>1, <1>2, PTL

(* No request that was accepted is forgotten, whatever slots afs_update    *)
(* deletes, and whichever children die.                                    *)
THEOREM RequestsKept ==
  ASSUME Polite
  PROVE  AfsSpec => []NoLostRequest
<1>1. AllInv => NoLostRequest
  <2> SUFFICES ASSUME AllInv, NEW q \in pend
               PROVE  \/ \E i \in DOMAIN ps : ps[i].fd = q.fd /\ Working(i, q.cmd)
                      \/ \E k \in DOMAIN evs : evs[k].fd = q.fd /\ evs[k].cmd = q.cmd
    BY DEF NoLostRequest
  <2>1. Kept(q) /\ q.cmd \in UserCmds /\ IInv /\ GoodList(ps)
    BY ZenonT(40) DEF AllInv, AfsInv, CtxInv, UserInv, ListInv, UseInv
  <2>2. ASSUME NEW slot \in Members(ps), slot.fd = q.fd, Has(slot, q.cmd)
        PROVE  \E i \in DOMAIN ps : ps[i].fd = q.fd /\ Working(i, q.cmd)
    <3>1. PICK i \in DOMAIN ps : slot = ps[i]
      BY DEF Members
    <3> DEFINE es == proc[slot.w].evs
    <3>2. First(proc[slot.w]) = q.cmd => \E k \in DOMAIN es : es[k].cmd = q.cmd
      <4>1. q.cmd # "nothing"
        BY <2>1, ZenonT(40) DEF UserCmds
      <4>2. es \in Seq(Events)
        BY <2>1, MembersGood, ZenonT(40) DEF IInv, TypeOK, ProcState
      <4>3. es # <<>> => 1 \in DOMAIN es
        BY <4>2
      <4> QED BY <4>1, <4>3, Zenon DEF First
    <3>3. Working(i, q.cmd)
      BY <2>2, <3>1, <3>2, Zenon DEF Has, Doing, Working
    <3> QED BY <2>2, <3>1, <3>3, ZenonT(40)
  <2> QED BY <2>1, <2>2, ZenonT(40) DEF Kept
<1>2. AfsSpec => []AllInv
  BY AfsInvariance
<1> QED
  BY <1>1, <1>2, PTL

(* A worker that is free for reuse has no file open, so that the next      *)
(* afs_open does not fail with "already open" (afs.c:1341).                *)
THEOREM FreeSlotsShut ==
  ASSUME Polite
  PROVE  AfsSpec => []FreeHasNoFile
<1>1. AllInv => FreeHasNoFile
  BY Zenon DEF AllInv, UseInv, Members, SlotInv, CalmSlot, Shut, FreeHasNoFile
<1>2. AfsSpec => []AllInv
  BY AfsInvariance
<1> QED
  BY <1>1, <1>2, PTL

(* Every event that the user reads answers one of their requests, and no   *)
(* request is answered twice.                                              *)
THEOREM EventsAnswer ==
  ASSUME Polite
  PROVE  AfsSpec => EventsWereAsked
<1> DEFINE Asked == at = "update" /\ at' = "calls" =>
                      /\ \A k \in DOMAIN evs : Request_(evs[k].fd, evs[k].cmd) \in pend
                      /\ \A k, m \in DOMAIN evs : k # m => evs[k].fd # evs[m].fd
<1>1. AllInv => Asked
  BY DEF AllInv, UseInv, EventInv, Updating
<1>2. AllInv /\ [AfsNext]_afsvars => [Asked]_afsvars
  BY <1>1, Zenon
<1>3. AfsSpec => []AllInv
  BY AfsInvariance
<1> QED
  BY <1>2, <1>3, PTL DEF AfsSpec, EventsWereAsked
============================================================================
