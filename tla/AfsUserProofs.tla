--------------------------- MODULE AfsUserProofs ---------------------------
(***************************************************************************)
(* Proofs that the calls and the loops of Afs keep the invariant of the    *)
(* context, with any user; and what a user who keeps the rules relies on,  *)
(* as an invariant that the calls, the children and the start of the loop  *)
(* keep.                                                                   *)
(***************************************************************************)
EXTENDS AfsProofs

(***************************************************************************)
(* The calls keep the invariant of the context.                            *)
(***************************************************************************)
(* The event that is made of a worker's event                              *)
LEMMA AfsEventType ==
  ASSUME NEW n \in Nat \cup {-1}, NEW e \in Events
  PROVE  AfsEvent(n, e) \in AfsEvents
BY DEF AfsEvent, AfsEvents, Events

(* maybe_alloc_ps_ grows evs and loses none of its events.                 *)
LEMMA KeepEvs ==
  ASSUME EvsInv, NEW o, Keep(o)
  PROVE  evs' \in Seq(AfsEvents) /\ Len(evs') = Len(evs) /\ lim' = o.lim
<1> DEFINE z == AfsEvent(0, Event("none", TRUE, 0))
<1>1. z \in AfsEvents
  BY AfsEventType, EventType, CmdsFacts, Zenon
<1>2. evs \in Seq(AfsEvents) /\ Len(evs) \in Nat /\ DOMAIN evs = 1..Len(evs)
  BY DEF EvsInv
<1> HIDE DEF z
<1> DEFINE g == [i \in 1..Len(evs) |-> z]
<1>3. g \in Seq(AfsEvents) /\ Len(g) = Len(evs)
  BY <1>1, <1>2
<1>4. evs' = evs \/ evs' = g
  BY <1>2 DEF Keep, z
<1> QED
  BY <1>2, <1>3, <1>4, Zenon DEF Keep

(* What all calls that take a slot do to the arrays                        *)
LEMMA TakeInv ==
  ASSUME CtxInv, at = "calls", NEW o, AllocGood(o), Keep(o), GoodList(ps'), Len(ps') = Len(o.ps), UNCHANGED loop
  PROVE  ListInv' /\ LoopInv' /\ EvsInv'
<1>1. evs' \in Seq(AfsEvents) /\ Len(evs') = Len(evs) /\ lim' = o.lim
  BY KeepEvs DEF CtxInv
<1>2. Fits(ps', lim')
  BY <1>1 DEF AllocGood, Fits
<1>3. ListInv'
  BY <1>2 DEF ListInv
<1>4. LoopInv'
  BY DEF CtxInv, LoopInv, loop
<1>5. lim.evs \in Nat /\ o.lim.evs \in Nat /\ o.lim.evs >= lim.evs /\ Len(evs) \in Nat
  BY DEF CtxInv, ListInv, EvsInv, AllocGood, Fits
<1>6. at' = at /\ stop_req' = stop_req
  BY DEF loop
<1>7. EvsInv'
  BY <1>1, <1>5, <1>6 DEF CtxInv, EvsInv
<1> QED
  BY <1>3, <1>4, <1>7

(* The descriptors that the user was given, with a new one                 *)
LEMMA GivenType ==
  ASSUME UserInv, NEW n \in Nat, NEW kind \in {"open", "mkdir", "reserved"}
  PROVE  Given(n, kind) \subseteq [fd : Nat, kind : {"open", "mkdir", "reserved"}]
<1>1. [fd |-> n, kind |-> kind] \in [fd : Nat, kind : {"open", "mkdir", "reserved"}]
  OBVIOUS
<1> QED
  BY <1>1 DEF UserInv, Given

(* The requests that the user waits for, with a new one                    *)
LEMMA AskedType ==
  ASSUME UserInv, NEW n \in Nat, NEW c \in UserCmds
  PROVE  pend \cup {Request_(n, c)} \subseteq [fd : Nat, cmd : UserCmds]
<1>1. Request_(n, c) \in [fd : Nat, cmd : UserCmds]
  BY DEF Request_
<1> QED
  BY <1>1 DEF UserInv

(* Setting is_avail and cmd_after_init                                     *)
LEMMA WaitSlot ==
  ASSUME NEW list, GoodList(list), NEW i \in DOMAIN list, NEW c \in AfterInit
  PROVE  LET g == [list EXCEPT ![i].is_avail = FALSE, ![i].cmd_after_init = c]
         IN  GoodList(g) /\ Len(g) = Len(list)
<1> DEFINE e == list[i]
           t == [e EXCEPT !.is_avail = FALSE, !.cmd_after_init = c]
<1>1. list \in Seq(Slots) /\ e \in Slots
  BY DEF GoodList
<1>2. [list EXCEPT ![i].is_avail = FALSE, ![i].cmd_after_init = c] = [list EXCEPT ![i] = t]
  BY <1>1, Zenon
<1>3. t \in Slots /\ t.w = e.w /\ t.fd = e.fd
  <2> HIDE DEF e
  <2>1. t \in Slots
    BY <1>1, Zenon DEF Slots
  <2> QED BY <1>1, <2>1 DEF Slots
<1> HIDE DEF t
<1>4. GoodList([list EXCEPT ![i] = t]) /\ Len([list EXCEPT ![i] = t]) = Len(list)
  BY <1>3, SetSlot
<1> QED
  BY <1>2, <1>4

(* afs_open and afs_mkdir keep the invariant of the context.               *)
LEMMA OpenInv ==
  ASSUME CtxInv, NEW op \in {"open", "mkdir"}, NEW fits, OpenCall(op, fits)
  PROVE  CtxInv'
<1>1. PICK o \in maybe_alloc_ps_ :
        LET sent == proc_send_cmd_(o.s, op)
            n    == o.ps[o.i].fd
        IN  /\ Keep(o)
            /\ \/ /\ o.i = 0 \/ ~fits
                  /\ Set(o.w, o.s) /\ ps' = o.ps /\ UNCHANGED <<pend, held>>
               \/ /\ o.i # 0 /\ fits /\ o.was_init
                  /\ Set(o.w, sent.s) /\ ps' = o.ps
                  /\ pend' = IF sent.r = "afs_ok" THEN pend \cup {Request_(n, op)} ELSE pend
                  /\ held' = IF sent.r = "afs_ok" THEN Given(n, op) ELSE held
               \/ /\ o.i # 0 /\ fits /\ ~o.was_init
                  /\ Set(o.w, o.s)
                  /\ ps' = [o.ps EXCEPT ![o.i].is_avail = FALSE, ![o.i].cmd_after_init = op]
                  /\ pend' = pend \cup {Request_(n, op)}
                  /\ held' = Given(n, op)
  BY Zenon DEF OpenCall
<1>2. CanCall(op) /\ calls' = calls + 1 /\ UNCHANGED loop
  BY DEF OpenCall
<1>3. AllocGood(o)
  BY MaybeAllocGood DEF CtxInv, ListInv
<1> DEFINE n == o.ps[o.i].fd
<1>4. o.i # 0 => o.i \in DOMAIN o.ps /\ n \in Nat
  BY <1>3 DEF AllocGood, GoodList
<1>5. op \in AfterInit /\ op \in UserCmds
  BY DEF AfterInit, UserCmds
<1>6. GoodList(ps') /\ Len(ps') = Len(o.ps)
  <2>1. CASE ps' = o.ps
    BY <1>3, <2>1, ZenonT(40) DEF AllocGood
  <2>2. CASE o.i # 0 /\ ps' = [o.ps EXCEPT ![o.i].is_avail = FALSE, ![o.i].cmd_after_init = op]
    <3>1. GoodList(o.ps) /\ o.i \in DOMAIN o.ps
      BY <1>3, <1>4, <2>2 DEF AllocGood
    <3> QED BY <1>5, <2>2, <3>1, WaitSlot, Zenon
  <2> QED BY <1>1, <2>1, <2>2
<1>7. at = "calls" /\ Keep(o)
  BY <1>1, <1>2 DEF CanCall
<1>8. ListInv' /\ LoopInv' /\ EvsInv'
  BY <1>2, <1>3, <1>6, <1>7, TakeInv, ZenonT(40)
<1>9. pend' = pend \/ (o.i # 0 /\ pend' = pend \cup {Request_(n, op)})
  BY <1>1
<1>10. held' = held \/ (o.i # 0 /\ held' = Given(n, op))
  BY <1>1
<1>11. UserInv
  BY DEF CtxInv
<1> HIDE DEF n
<1>12. pend' \subseteq [fd : Nat, cmd : UserCmds] /\ held' \subseteq [fd : Nat, kind : {"open", "mkdir", "reserved"}]
  <2>1. pend \subseteq [fd : Nat, cmd : UserCmds] /\ held \subseteq [fd : Nat, kind : {"open", "mkdir", "reserved"}]
    BY <1>11 DEF UserInv
  <2>2. o.i # 0 => pend \cup {Request_(n, op)} \subseteq [fd : Nat, cmd : UserCmds]
    BY <1>4, <1>5, <1>11, AskedType DEF n
  <2>3. o.i # 0 => Given(n, op) \subseteq [fd : Nat, kind : {"open", "mkdir", "reserved"}]
    BY <1>4, <1>11, GivenType DEF n
  <2> QED BY <1>9, <1>10, <2>1, <2>2, <2>3
<1>13. calls' \in 0..MaxCalls
  BY <1>2, <1>11, AfsAssumption DEF CanCall, UserInv
<1> QED
  BY <1>8, <1>12, <1>13 DEF CtxInv, UserInv

(* So does afs_reserve, which puts a slot without a command,               *)
LEMMA ReserveInv ==
  ASSUME CtxInv, afs_reserve
  PROVE  CtxInv'
<1>1. PICK o \in maybe_alloc_ps_ :
        Keep(o) /\ ps' = o.ps /\ held' = IF o.i = 0 THEN held ELSE Given(o.ps[o.i].fd, "reserved")
  BY Zenon DEF afs_reserve
<1>2. CanCall("reserve") /\ calls' = calls + 1 /\ UNCHANGED loop /\ pend' = pend /\ at = "calls"
  BY DEF afs_reserve, CanCall
<1>3. AllocGood(o)
  BY MaybeAllocGood DEF CtxInv, ListInv
<1>4. GoodList(ps') /\ Len(ps') = Len(o.ps)
  BY <1>1, <1>3 DEF AllocGood
<1>5. ListInv' /\ LoopInv' /\ EvsInv'
  BY <1>1, <1>2, <1>3, <1>4, TakeInv
<1>6. UserInv
  BY DEF CtxInv
<1>7. held' \subseteq [fd : Nat, kind : {"open", "mkdir", "reserved"}]
  <2>1. CASE o.i = 0
    BY <1>1, <1>6, <2>1 DEF UserInv
  <2>2. CASE o.i # 0
    <3>1. o.ps[o.i].fd \in Nat
      BY <1>3, <2>2 DEF AllocGood
    <3>2. held' = Given(o.ps[o.i].fd, "reserved")
      BY <1>1, <2>2
    <3> QED BY <1>6, <3>1, <3>2, GivenType
  <2> QED BY <2>1, <2>2
<1>8. calls' \in 0..MaxCalls
  BY <1>2, <1>6, AfsAssumption DEF CanCall, UserInv
<1> QED
  BY <1>2, <1>5, <1>6, <1>7, <1>8 DEF CtxInv, UserInv

(* so do the calls that take a descriptor,                                 *)
LEMMA FdCallInv ==
  ASSUME CtxInv, NEW op \in UserCmds, NEW n \in Nat, NEW len, FdCall(op, n, len)
  PROVE  CtxInv'
<1>1. CanUse(op, n) /\ (pend' = pend \/ pend' = pend \cup {Request_(n, op)}) /\ calls' = calls + 1 /\ held' = held
      /\ UNCHANGED <<ctx, loop>>
  BY DEF FdCall
<1>2. UserInv'
  <2>1. UserInv
    BY DEF CtxInv
  <2>2. calls' \in 0..MaxCalls
    BY <1>1, <2>1, AfsAssumption DEF CanUse, CanCall, UserInv
  <2>3. pend' \subseteq [fd : Nat, cmd : UserCmds]
    BY <1>1, <2>1, AskedType DEF UserInv
  <2> QED BY <1>1, <2>1, <2>2, <2>3 DEF UserInv
<1>3. ListInv' /\ LoopInv' /\ EvsInv'
  BY <1>1 DEF CtxInv, ListInv, LoopInv, EvsInv, ctx, loop
<1> QED
  BY <1>2, <1>3 DEF CtxInv

(* and afs_write_fsync_close, which also sets cmd_after_init.              *)
LEMMA WfcInv ==
  ASSUME CtxInv, NEW n \in Nat, NEW len, afs_write_fsync_close(n, len)
  PROVE  CtxInv'
<1> DEFINE c == "write_fsync_close"
           i == ps_get_(n)
<1>1. CanUse(c, n) /\ (pend' = pend \/ pend' = pend \cup {Request_(n, c)}) /\ calls' = calls + 1 /\ held' = held
      /\ i # 0 /\ (ps' = ps \/ ps' = [ps EXCEPT ![i].is_avail = FALSE, ![i].cmd_after_init = c])
      /\ UNCHANGED <<evs, lim, loop>> /\ at = "calls"
  BY DEF afs_write_fsync_close, CanUse, CanCall
<1>2. UserInv'
  <2>1. UserInv /\ c \in UserCmds
    BY DEF CtxInv, UserCmds
  <2>2. calls' \in 0..MaxCalls
    BY <1>1, <2>1, AfsAssumption DEF CanUse, CanCall, UserInv
  <2>3. pend' \subseteq [fd : Nat, cmd : UserCmds]
    BY <1>1, <2>1, AskedType DEF UserInv
  <2> QED BY <1>1, <2>1, <2>2, <2>3 DEF UserInv
<1>3. GoodList(ps') /\ Len(ps') = Len(ps)
  <2>1. GoodList(ps) /\ i \in DOMAIN ps /\ c \in AfterInit
    BY <1>1, GetWorker DEF CtxInv, ListInv, AfterInit
  <2>2. CASE ps' = ps
    BY <2>1, <2>2
  <2>3. CASE ps' = [ps EXCEPT ![i].is_avail = FALSE, ![i].cmd_after_init = c]
    BY <2>1, <2>3, WaitSlot, Zenon
  <2> QED BY <1>1, <2>2, <2>3, Zenon
<1>4. ListInv' /\ LoopInv' /\ EvsInv'
  BY <1>1, <1>3 DEF CtxInv, ListInv, Fits, LoopInv, EvsInv, loop
<1> QED
  BY <1>2, <1>4 DEF CtxInv

(* The empty list and its arrays of no entries                             *)
LEMMA NewList ==
  GoodList(<<>>) /\ Fits(<<>>, [pfds |-> 0, evs |-> 0]) /\ <<>> \in Seq(AfsEvents) /\ Len(<<>>) = 0
<1>1. <<>> \in Seq(Slots) /\ <<>> \in Seq(AfsEvents) /\ Len(<<>>) = 0
  OBVIOUS
<1>2. \A i \in DOMAIN <<>> : FALSE
  OBVIOUS
<1>3. GoodList(<<>>)
  BY <1>1, <1>2, Zenon DEF GoodList, Distinct
<1>4. Fits(<<>>, [pfds |-> 0, evs |-> 0])
  BY <1>1 DEF Fits
<1> QED
  BY <1>1, <1>3, <1>4, Zenon

(* At the start of afs_update every worker is still to do.                 *)
LEMMA WorkersRest ==
  ASSUME GoodList(ps)
  PROVE  Workers \in Seq(Procs) /\ Len(Workers) = Len(ps) /\ Rest(Workers, ps)
<1>1. ps \in Seq(Slots) /\ Len(ps) \in Nat /\ DOMAIN ps = 1..Len(ps) /\ \A i \in 1..Len(ps) : ps[i] \in Slots
  BY DEF GoodList
<1>2. \A i \in 1..Len(ps) : ps[i].w \in Procs
  BY <1>1 DEF Slots
<1>3. Workers = [i \in 1..Len(ps) |-> ps[i].w]
  BY <1>1 DEF Workers
<1>4. Workers \in Seq(Procs) /\ Len(Workers) = Len(ps)
  BY <1>1, <1>2, <1>3
<1> QED
  BY <1>1, <1>3, <1>4 DEF Rest

(* afs_init, afs_stop_prep and afs_stop keep the invariant.                *)
LEMMA StopsInv ==
  ASSUME CtxInv, afs_stop_prep \/ afs_stop \/ afs_init
  PROVE  CtxInv'
<1>1. CASE afs_stop_prep
  <2>1. Workers \in Seq(Procs)
    BY WorkersRest DEF CtxInv, ListInv
  <2>2. ListInv' /\ UserInv'
    BY <1>1 DEF afs_stop_prep, ctx, user, CtxInv, ListInv, UserInv
  <2>3. LoopInv'
    BY <1>1, <2>1 DEF afs_stop_prep, CtxInv, LoopInv
  <2>4. EvsInv'
    BY <1>1 DEF afs_stop_prep, CanStop, ctx, CtxInv, EvsInv
  <2> QED BY <2>2, <2>3, <2>4 DEF CtxInv
<1>2. CASE afs_stop
  <2>1. ListInv' /\ UserInv'
    BY <1>2, NewList DEF afs_stop, CtxInv, ListInv, UserInv
  <2>2. LoopInv'
    BY <1>2 DEF afs_stop, CtxInv, LoopInv
  <2>3. EvsInv'
    BY <1>2, NewList DEF afs_stop, EvsInv
  <2> QED BY <2>1, <2>2, <2>3 DEF CtxInv
<1>3. CASE afs_init
  <2>1. ListInv' /\ UserInv'
    BY <1>3, NewList DEF afs_init, user, CtxInv, ListInv, UserInv
  <2>2. LoopInv'
    BY <1>3, Zenon DEF afs_init, CtxInv, LoopInv
  <2>3. EvsInv'
    BY <1>3, NewList DEF afs_init, EvsInv
  <2> QED BY <2>1, <2>2, <2>3 DEF CtxInv
<1> QED
  BY <1>1, <1>2, <1>3
----------------------------------------------------------------------------
(***************************************************************************)
(* The loops keep it.                                                      *)
(***************************************************************************)
(* What proc_update_ can return                                            *)
LEMMA UpdateResult ==
  ASSUME NEW s
  PROVE  proc_update_(s).r \in Results
BY DEF proc_update_, proc_update_init_pend_, proc_update_busy_, proc_update_avail_, proc_update_dead_,
       proc_update_uninit_, proc_send_cmd_, proc_notify_child_, Results

(* An event changes at most the descriptor and the commands of a slot,     *)
LEMMA NotedGood ==
  ASSUME NEW slot \in Slots, NEW e \in Events
  PROVE  Noted(slot, e) \in Slots /\ Noted(slot, e).w = slot.w /\ Noted(slot, e).fd \in {slot.fd, -1}
<1>1. slot \in [w : Procs, fd : Nat \cup {-1}, cmd_after_init : AfterInit, is_avail : BOOLEAN] /\ "none" \in AfterInit
  BY DEF Slots, AfterInit
<1>2. DEFINE a == [slot EXCEPT !.is_avail = TRUE, !.cmd_after_init = "none"]
             b == [slot EXCEPT !.cmd_after_init = "none"]
             c == [slot EXCEPT !.fd = -1]
             d == [slot EXCEPT !.fd = -1, !.is_avail = FALSE]
<1>3. a \in Slots /\ b \in Slots /\ c \in Slots /\ d \in Slots
  BY <1>1, Zenon DEF Slots
<1>4. \A t \in {a, b, c, d} : t.w = slot.w
  BY <1>1, Zenon
<1>5. a.fd = slot.fd /\ b.fd = slot.fd /\ c.fd = -1 /\ d.fd = -1
  BY <1>1
<1> HIDE DEF a, b, c, d
<1>6. e.ok \in BOOLEAN
  BY DEF Events
<1>7. Noted(slot, e) \in {a, b, c, d, slot}
  BY <1>6 DEF Noted, a, b, c, d
<1> QED
  BY <1>3, <1>4, <1>5, <1>7

(* and so do all the events of a worker.                                   *)
LEMMA NotedAllGood ==
  ASSUME NEW slot \in Slots, NEW es \in Seq(Events)
  PROVE  NotedAll(slot, es) \in Slots /\ NotedAll(slot, es).w = slot.w /\ NotedAll(slot, es).fd \in {slot.fd, -1}
<1>1. CASE es = <<>>
  BY <1>1 DEF NotedAll
<1>2. CASE Len(es) = 1
  <2>1. es # <<>> /\ es[1] \in Events
    BY <1>2
  <2> QED BY <1>2, <2>1, NotedGood DEF NotedAll
<1>3. CASE es # <<>> /\ Len(es) # 1
  <2>0. Len(es) \in Nat /\ Len(es) # 0 /\ Len(es) # 1
    BY <1>3
  <2>1. es[1] \in Events /\ es[2] \in Events
    <3>1. 1 \in 1..Len(es) /\ 2 \in 1..Len(es)
      BY <2>0
    <3> QED BY <3>1
  <2>2. NotedAll(slot, es) = Noted(Noted(slot, es[1]), es[2])
    BY <1>3 DEF NotedAll
  <2> DEFINE t == Noted(slot, es[1])
  <2>3. t \in Slots /\ t.w = slot.w /\ t.fd \in {slot.fd, -1}
    BY <2>1, NotedGood
  <2> HIDE DEF t
  <2>4. Noted(t, es[2]) \in Slots /\ Noted(t, es[2]).w = t.w /\ Noted(t, es[2]).fd \in {t.fd, -1}
    BY <2>1, <2>3, NotedGood
  <2> QED BY <2>2, <2>3, <2>4 DEF t
<1> QED
  BY <1>1, <1>2, <1>3

(* A worker's events give the user one event or none.                      *)
LEMMA ToldGood ==
  ASSUME NEW slot \in Slots, NEW es \in Seq(Events)
  PROVE  Told(slot, es) = <<>> \/ \E e \in AfsEvents : Told(slot, es) = <<e>>
<1>1. slot.fd \in Nat \cup {-1} /\ slot.cmd_after_init \in Cmds
  BY CmdsFacts DEF Slots, AfterInit, Cmds, UserCmds
<1>2. es # <<>> => es[1] \in Events
  OBVIOUS
<1>3. es # <<>> => AfsEvent(slot.fd, es[1]) \in AfsEvents
  BY <1>1, <1>2, AfsEventType
<1>4. AfsEvent(slot.fd, proc_cmd_fail_ev_(slot.cmd_after_init)) \in AfsEvents
  <2>1. proc_cmd_fail_ev_(slot.cmd_after_init) \in Events
    BY <1>1, EventType, Zenon DEF proc_cmd_fail_ev_
  <2> QED BY <1>1, <2>1, AfsEventType
<1>5. Told(slot, es) \in {<<>>, <<AfsEvent(slot.fd, proc_cmd_fail_ev_(slot.cmd_after_init))>>}
      \/ (es # <<>> /\ Told(slot, es) = <<AfsEvent(slot.fd, es[1])>>)
  BY Zenon DEF Told
<1> QED
  BY <1>3, <1>4, <1>5

(* Unlinking a slot at or before the current one leaves the rest.          *)
LEMMA DelRest ==
  ASSUME NEW list, GoodList(list), NEW n, NEW workers \in Seq(Procs), workers # <<>>, Rest(workers, list),
         list[Len(list) - Len(workers) + 1].fd = n
  PROVE  Rest(Tail(workers), ps_del_(list, n)) /\ Rest(Tail(workers), list)
<1> DEFINE d == ps_del_(list, n)
           t == Tail(workers)
<1>1. list \in Seq(Slots) /\ Len(list) \in Nat /\ Len(workers) \in Nat /\ Len(workers) >= 1 /\ Len(workers) <= Len(list)
  BY DEF GoodList, Rest
<1>2. t \in Seq(Procs) /\ Len(t) = Len(workers) - 1 /\ \A k \in 1..Len(t) : t[k] = workers[k + 1]
  BY <1>1
<1> HIDE DEF t, d
<1>3. \A k \in 1..Len(t) : k + 1 \in 1..Len(workers) /\ Len(list) - Len(workers) + (k + 1) = Len(list) - Len(t) + k
  BY <1>1, <1>2
<1>4. \A k \in 1..Len(t) : t[k] = list[Len(list) - Len(t) + k].w
  BY <1>2, <1>3 DEF Rest
<1>5. Rest(t, list)
  BY <1>1, <1>2, <1>4 DEF Rest
<1>6. CASE d = list
  BY <1>5, <1>6 DEF d, t
<1>7. CASE d # list
  <2>1. PICK k \in 1..Len(list) :
          /\ list[k].fd = n /\ \A j \in 1..Len(list) : list[j].fd = n => k <= j
          /\ d \in Seq(Slots) /\ Len(d) = Len(list) - 1
          /\ \A i \in 1..Len(list) - 1 : d[i] = list[IF i < k THEN i ELSE i + 1]
    <3>1. list \in Seq(Slots) /\ ps_del_(list, n) # list
      BY <1>1, <1>7 DEF d
    <3>2. \E k \in 1..Len(list) :
            /\ list[k].fd = n /\ \A j \in 1..Len(list) : list[j].fd = n => k <= j
            /\ ps_del_(list, n) \in Seq(Slots) /\ Len(ps_del_(list, n)) = Len(list) - 1
            /\ \A i \in 1..Len(list) - 1 : ps_del_(list, n)[i] = list[IF i < k THEN i ELSE i + 1]
      BY <3>1, PsDel, SMTT(30)
    <3> QED BY <3>2 DEF d
  <2>2. Len(list) - Len(workers) + 1 \in 1..Len(list) /\ k <= Len(list) - Len(workers) + 1
    <3> DEFINE p == Len(list) - Len(workers) + 1
    <3>1. p \in 1..Len(list)
      BY <1>1
    <3>2. list[p].fd = n
      OBVIOUS
    <3> HIDE DEF p
    <3>3. k <= p
      BY <2>1, <3>1, <3>2
    <3> QED BY <3>1, <3>3 DEF p
  <2>3. \A j \in 1..Len(t) :
          /\ Len(d) - Len(t) + j \in 1..Len(list) - 1 /\ ~(Len(d) - Len(t) + j < k)
          /\ (Len(d) - Len(t) + j) + 1 = Len(list) - Len(t) + j
    BY <1>1, <1>2, <2>1, <2>2
  <2>4. \A j \in 1..Len(t) : d[Len(d) - Len(t) + j] = list[Len(list) - Len(t) + j]
    BY <2>1, <2>3, Zenon
  <2>5. Rest(t, d)
    <3>1. Len(t) <= Len(d)
      BY <1>1, <1>2, <2>1
    <3>2. \A j \in 1..Len(t) : t[j] = d[Len(d) - Len(t) + j].w
      BY <1>4, <2>4
    <3> QED BY <3>1, <3>2 DEF Rest
  <2> QED BY <1>5, <2>5 DEF d, t
<1> QED
  BY <1>6, <1>7

(* Rest speaks of the workers of a list only.                              *)
LEMMA SameRest ==
  ASSUME NEW list, NEW g, NEW workers, Rest(workers, list), Len(g) = Len(list), Len(list) \in Nat, Len(workers) \in Nat,
         DOMAIN list = 1..Len(list), \A j \in DOMAIN list : g[j].w = list[j].w
  PROVE  Rest(workers, g)
<1>1. \A k \in 1..Len(workers) : Len(list) - Len(workers) + k \in 1..Len(list)
  BY DEF Rest
<1> QED
  BY <1>1, ZenonT(40) DEF Rest

(* Forward writes back one slot, and unlinks at most that one or one before *)
LEMMA ForwardList ==
  ASSUME CtxInv, TypeOK, Forward
  PROVE  GoodList(ps') /\ Len(ps') <= Len(ps) /\ Rest(Tail(todo), ps')
<1> DEFINE w == Head(todo)
           slot == ps[Cur]
           es == proc[w].evs
           noted == NotedAll(slot, es)
           list == [ps EXCEPT ![Cur] = noted]
<1>1. at = "forward"
  BY Zenon DEF Forward
<1>2. /\ Cur \in DOMAIN ps /\ w \in Procs /\ slot \in Slots
      /\ (CHOOSE j \in DOMAIN ps : ps[j].w = w) = Cur
  BY <1>1, Current, ZenonT(40)
<1>3. ps' = list \/ ps' = ps_del_(list, noted.fd)
  BY <1>2, Zenon DEF Forward
<1>4. es \in Seq(Events)
  BY <1>2 DEF TypeOK, ProcState
<1>5. noted \in Slots /\ noted.w = slot.w /\ noted.fd \in {slot.fd, -1}
  <2> HIDE DEF slot, es
  <2> QED BY <1>2, <1>4, NotedAllGood
<1>6. GoodList(ps) /\ todo \in Seq(Procs) /\ todo # <<>> /\ Rest(todo, ps)
  BY <1>1 DEF CtxInv, ListInv, LoopInv
<1> HIDE DEF noted, es, w
<1>7. GoodList(list) /\ Len(list) = Len(ps) /\ \A j \in DOMAIN ps : list[j].w = ps[j].w
  BY <1>2, <1>5, <1>6, SetSlot
<1>8. DOMAIN ps = 1..Len(ps) /\ Len(ps) \in Nat /\ Len(todo) \in Nat /\ ps \in Seq(Slots)
  BY <1>6 DEF GoodList
<1>9. list[Cur].fd = noted.fd
  BY <1>2, <1>8
<1> HIDE DEF list
<1>10. Rest(todo, list)
  BY <1>6, <1>7, <1>8, SameRest
<1>11. list[Len(list) - Len(todo) + 1].fd = noted.fd
  BY <1>7, <1>9 DEF Cur
<1>12. Rest(Tail(todo), ps_del_(list, noted.fd)) /\ Rest(Tail(todo), list)
  BY <1>6, <1>7, <1>10, <1>11, DelRest
<1>13. GoodList(ps_del_(list, noted.fd)) /\ Len(ps_del_(list, noted.fd)) <= Len(list)
  BY <1>7, DelGood
<1>14. CASE ps' = list
  BY <1>7, <1>8, <1>12, <1>14
<1>15. CASE ps' = ps_del_(list, noted.fd)
  BY <1>7, <1>12, <1>13, <1>15
<1> QED
  BY <1>3, <1>14, <1>15

(* ... and tells the user of at most one event.                            *)
LEMMA ForwardEvs ==
  ASSUME CtxInv, TypeOK, Forward
  PROVE  evs' \in Seq(AfsEvents) /\ Len(evs') <= Len(evs) + 1
<1> DEFINE w == Head(todo)
           slot == ps[Cur]
           es == proc[w].evs
           failed == AfsEvent(slot.fd, proc_cmd_fail_ev_(slot.cmd_after_init))
<1>1. at = "forward"
  BY ZenonT(40) DEF Forward
<1>2. /\ Cur \in DOMAIN ps /\ w \in Procs /\ slot \in Slots
      /\ (CHOOSE j \in DOMAIN ps : ps[j].w = w) = Cur
  BY <1>1, Current
<1>3. evs' = evs \/ evs' = Append(evs, failed) \/ evs' = evs \o Told(slot, es)
  BY <1>2, Zenon DEF Forward
<1>4. es \in Seq(Events)
  BY <1>2 DEF TypeOK, ProcState
<1> HIDE DEF w, slot, es
<1>5. failed \in AfsEvents
  <2>1. slot.fd \in Nat \cup {-1} /\ slot.cmd_after_init \in Cmds
    BY <1>2, CmdsFacts DEF Slots, AfterInit, Cmds, UserCmds
  <2>2. proc_cmd_fail_ev_(slot.cmd_after_init) \in Events
    BY <2>1, EventType, Zenon DEF proc_cmd_fail_ev_
  <2> QED BY <2>1, <2>2, AfsEventType
<1>6. evs \in Seq(AfsEvents) /\ Len(evs) \in Nat
  BY DEF CtxInv, EvsInv
<1> HIDE DEF failed
<1>7. CASE evs' = evs \/ evs' = Append(evs, failed)
  BY <1>5, <1>6, <1>7
<1>8. CASE evs' = evs \o Told(slot, es)
  <2>1. Told(slot, es) = <<>> \/ \E e \in AfsEvents : Told(slot, es) = <<e>>
    BY <1>2, <1>4, ToldGood
  <2>2. CASE Told(slot, es) = <<>>
    BY <1>6, <1>8, <2>2
  <2>3. ASSUME NEW e \in AfsEvents, Told(slot, es) = <<e>>
        PROVE  evs' \in Seq(AfsEvents) /\ Len(evs') <= Len(evs) + 1
    BY <1>6, <1>8, <2>3
  <2> QED BY <2>1, <2>2, <2>3
<1> QED
  BY <1>3, <1>7, <1>8, ZenonT(40)

(* One turn of the loop of afs_update keeps the invariant: what it tells   *)
(* the user fits in evs, since every other worker has at most one to come. *)
LEMMA ForwardInv ==
  ASSUME CtxInv, TypeOK, Forward
  PROVE  CtxInv'
<1>1. at = "forward" /\ at' = "update" /\ todo' = Tail(todo) /\ UNCHANGED <<stop_req, res, lim, user>>
  BY Zenon DEF Forward
<1>2. GoodList(ps') /\ Len(ps') <= Len(ps) /\ Rest(todo', ps')
  BY <1>1, ForwardList
<1>3. evs' \in Seq(AfsEvents) /\ Len(evs') <= Len(evs) + 1
  BY ForwardEvs
<1>4. todo \in Seq(Procs) /\ todo # <<>> /\ GoodList(ps) /\ evs \in Seq(AfsEvents)
      /\ 3 * (Len(evs) + Len(todo)) <= lim.evs /\ Fits(ps, lim)
  BY <1>1 DEF CtxInv, ListInv, LoopInv, EvsInv
<1>5. todo' \in Seq(Procs) /\ Len(todo') = Len(todo) - 1 /\ Len(todo) \in Nat /\ Len(todo) # 0
  BY <1>1, <1>4
<1>6. Len(ps) \in Nat /\ Len(ps') \in Nat /\ Len(evs) \in Nat /\ Len(evs') \in Nat /\ lim.evs \in Nat /\ lim.pfds \in Nat
  BY <1>2, <1>3, <1>4 DEF GoodList, Fits
<1>7. lim' = lim /\ stop_req' = stop_req /\ res' = res
  BY <1>1
<1>8. Fits(ps', lim')
  BY <1>2, <1>4, <1>6, <1>7 DEF Fits
<1>9. LoopInv'
  BY <1>1, <1>2, <1>5, <1>7 DEF CtxInv, LoopInv
<1>10. 3 * (Len(evs') + Len(todo')) <= lim.evs /\ Len(evs') <= lim.evs
  BY <1>3, <1>4, <1>5, <1>6
<1>11. EvsInv'
  BY <1>1, <1>3, <1>7, <1>10 DEF CtxInv, EvsInv
<1>12. UserInv'
  BY <1>1 DEF CtxInv, UserInv, user
<1> QED
  BY <1>2, <1>8, <1>9, <1>11, <1>12, ZenonT(40) DEF CtxInv, ListInv

(* The loops over the list of afs_stop_prep and poll                       *)
LEMMA VisitInv ==
  ASSUME CtxInv, StopPrepSlot \/ StopPrepDone \/ afs_pollfds \/ PollSlot
  PROVE  CtxInv'
<1>1. UNCHANGED <<stop_req, res, ctx, user>> /\ at' \in {"calls", "stop_prep", "poll"} /\ at # "stopped"
      /\ (todo' = todo \/ todo' = Workers \/ (todo # <<>> /\ todo' = Tail(todo)))
  BY DEF StopPrepSlot, StopPrepDone, afs_pollfds, PollSlot
<1>2. ListInv' /\ UserInv'
  BY <1>1 DEF CtxInv, ListInv, UserInv, ctx, user
<1>3. todo \in Seq(Procs) /\ Workers \in Seq(Procs)
  BY WorkersRest DEF CtxInv, ListInv, LoopInv
<1>4. todo' \in Seq(Procs)
  <2>1. CASE todo' = todo \/ todo' = Workers
    BY <1>3, <2>1
  <2>2. CASE todo # <<>> /\ todo' = Tail(todo)
    BY <1>3, <2>2
  <2> QED BY <1>1, <2>1, <2>2
<1>5. LoopInv'
  BY <1>1, <1>4 DEF CtxInv, LoopInv
<1>6. EvsInv'
  BY <1>1 DEF CtxInv, EvsInv, ctx
<1> QED
  BY <1>2, <1>5, <1>6 DEF CtxInv

(* afs_update begins: evs is empty and every worker is still to do.        *)
LEMMA UpdateStartInv ==
  ASSUME CtxInv, UpdateStart
  PROVE  CtxInv'
<1>1. at' = "update" /\ todo' = Workers /\ evs' = <<>> /\ at = "poll" /\ UNCHANGED <<stop_req, res, ps, lim, user>>
  BY DEF UpdateStart
<1>2. ListInv' /\ UserInv'
  BY <1>1 DEF CtxInv, ListInv, UserInv, user
<1>3. Workers \in Seq(Procs) /\ Len(Workers) = Len(ps) /\ Rest(Workers, ps)
  BY WorkersRest DEF CtxInv, ListInv
<1>4. LoopInv'
  BY <1>1, <1>3 DEF CtxInv, LoopInv
<1>5. evs' \in Seq(AfsEvents) /\ Len(evs') = 0 /\ Len(ps) \in Nat /\ 3 * Len(ps) <= lim.evs /\ lim.evs \in Nat
  BY <1>1, NewList DEF CtxInv, ListInv, GoodList, Fits
<1>6. 3 * (Len(evs') + Len(todo')) <= lim.evs
  BY <1>1, <1>3, <1>5
<1>7. EvsInv'
  BY <1>1, <1>5, <1>6, SMTT(30) DEF CtxInv, EvsInv
<1> QED
  BY <1>2, <1>4, <1>7 DEF CtxInv

(* proc_update_ of the next worker, before its events are looked at        *)
LEMMA UpdateSlotInv ==
  ASSUME CtxInv, UpdateSlot
  PROVE  CtxInv'
<1>1. at = "update" /\ at' = "forward" /\ todo # <<>> /\ UNCHANGED <<stop_req, todo, ctx, user>>
  BY DEF UpdateSlot
<1>2. res' \in Results
  BY UpdateResult DEF UpdateSlot
<1>3. ListInv' /\ UserInv'
  BY <1>1 DEF CtxInv, ListInv, UserInv, ctx, user
<1>4. LoopInv'
  BY <1>1, <1>2 DEF CtxInv, LoopInv, ctx
<1>5. EvsInv'
  BY <1>1 DEF CtxInv, EvsInv, ctx
<1> QED
  BY <1>3, <1>4, <1>5 DEF CtxInv

(* The last event of afs_update, afs_ev_stop, has room left by the slots:  *)
(* each may tell of one event and has three entries.                       *)
LEMMA UpdateDoneInv ==
  ASSUME CtxInv, UpdateDone
  PROVE  CtxInv'
<1>1. /\ at = "update" /\ todo = <<>> /\ at' = "calls" /\ UNCHANGED <<ps, lim, stop_req, todo, res, calls>>
      /\ evs' = evs \/ (stop_req /\ evs' = Append(evs, StopEvent))
      /\ pend' \subseteq pend /\ held' \subseteq held
  BY Zenon DEF UpdateDone
<1>2. ListInv' /\ LoopInv' /\ UserInv'
  BY <1>1 DEF CtxInv, ListInv, LoopInv, UserInv
<1>3. StopEvent \in AfsEvents
  BY AfsEventType, EventType, CmdsFacts, Zenon DEF StopEvent
<1>4. evs \in Seq(AfsEvents) /\ Len(evs) \in Nat /\ lim.evs \in Nat /\ (lim.evs > 0 => lim.evs >= 3)
  BY DEF CtxInv, ListInv, EvsInv, Fits
<1>5. 3 * (Len(evs) + 0) <= lim.evs
  <2>1. Len(todo) = 0
    BY <1>1
  <2> QED BY <1>1, <2>1 DEF CtxInv, EvsInv
<1>6. evs' \in Seq(AfsEvents) /\ Len(evs') <= Len(evs) + 1 /\ (evs' = evs \/ stop_req)
  BY <1>1, <1>3, <1>4
<1>7. Polite => Len(evs') <= lim.evs
  <2>1. CASE evs' = evs
    BY <1>4, <1>5, <2>1
  <2>2. CASE Polite /\ stop_req
    <3>1. lim.evs >= 3
      BY <1>1, <1>4, <2>2 DEF CtxInv, EvsInv
    <3>2. Len(evs') \in Nat
      BY <1>6
    <3> QED BY <1>4, <1>5, <1>6, <3>1, <3>2, SMTT(30)
  <2> QED BY <1>6, <2>1, <2>2
<1>8. EvsInv'
  BY <1>1, <1>6, <1>7 DEF CtxInv, EvsInv
<1> QED
  BY <1>2, <1>8 DEF CtxInv
----------------------------------------------------------------------------
(***************************************************************************)
(* Every step keeps it.                                                    *)
(***************************************************************************)
(* Nothing runs at first.                                                  *)
LEMMA AfsInitInv == AfsInit => AfsInv
<1> SUFFICES ASSUME AfsInit PROVE AfsInv
  OBVIOUS
<1>1. IInv
  BY InitInv DEF AfsInit
<1>2. /\ ps = <<>> /\ evs = <<>> /\ lim = [pfds |-> 0, evs |-> 0]
      /\ stop_req = FALSE /\ at = "calls" /\ todo = <<>> /\ res = "afs_ok"
      /\ pend = {} /\ held = {} /\ calls = 0
  BY DEF AfsInit
<1>3. ListInv
  BY <1>2, NewList DEF ListInv
<1>4. LoopInv
  <2>1. stop_req \in BOOLEAN
    BY <1>2, Zenon
  <2>2. todo \in Seq(Procs) /\ res \in Results /\ at = "calls"
    BY <1>2 DEF Results
  <2> QED BY <2>1, <2>2 DEF LoopInv
<1>5. EvsInv
  BY <1>2, NewList DEF EvsInv
<1>6. UserInv
  BY <1>2, AfsAssumption DEF UserInv
<1> QED
  BY <1>1, <1>3, <1>4, <1>5, <1>6 DEF AfsInv, CtxInv

(* Every step keeps the invariant of the context.                          *)
LEMMA CtxStep ==
  ASSUME CtxInv, TypeOK, [AfsNext]_afsvars
  PROVE  CtxInv'
<1>1. ASSUME NEW fits \in BOOLEAN, afs_open(fits) \/ afs_mkdir(fits) PROVE CtxInv'
  BY <1>1, OpenInv DEF afs_open, afs_mkdir
<1>2. CASE afs_reserve
  BY <1>2, ReserveInv
<1>3. Fds \subseteq Nat
  <2>1. \A i \in DOMAIN ps : ps[i] \in Slots
    BY DEF CtxInv, ListInv, GoodList
  <2> QED BY <2>1 DEF Fds, Slots
<1>4. ASSUME NEW n \in Fds, afs_close(n) \/ afs_fsync(n) \/ afs_readall(n) PROVE CtxInv'
  <2>1. n \in Nat /\ {"close", "fsync", "readall"} \subseteq UserCmds
    BY <1>3 DEF UserCmds
  <2> QED BY <1>4, <2>1, FdCallInv DEF afs_close, afs_fsync, afs_readall
<1>5. ASSUME NEW n \in Fds, NEW len \in Lens, afs_write(n, len) \/ afs_write_fsync_close(n, len) PROVE CtxInv'
  <2>1. n \in Nat /\ "write" \in UserCmds
    BY <1>3 DEF UserCmds
  <2> QED BY <1>5, <2>1, FdCallInv, WfcInv DEF afs_write
<1>6. CASE afs_stop_prep \/ afs_stop \/ afs_init
  BY <1>6, StopsInv
<1>7. CASE StopPrepSlot \/ StopPrepDone \/ afs_pollfds \/ PollSlot
  BY <1>7, VisitInv
<1>8. CASE UpdateStart \/ UpdateSlot \/ Forward \/ UpdateDone
  BY <1>8, UpdateStartInv, UpdateSlotInv, ForwardInv, UpdateDoneInv, ZenonT(40)
<1>9. CASE Children \/ UNCHANGED afsvars
  <2>1. UNCHANGED <<ctx, loop, user>>
    BY <1>9 DEF Children, ctx, loop, user, afsvars
  <2> QED BY <2>1 DEF CtxInv, ListInv, LoopInv, EvsInv, UserInv, ctx, loop, user
<1> QED
  BY <1>1, <1>2, <1>4, <1>5, <1>6, <1>7, <1>8, <1>9, ZenonT(40) DEF AfsNext, UserCall, Loop
----------------------------------------------------------------------------
(***************************************************************************)
(* The invariant.  A worker is busy, or is to be, only for a request that  *)
(* is pending and has no event yet, or because of afs_stop_prep; and every *)
(* pending request has its event in evs, or a worker that has it, or a     *)
(* worker whose report afs_update is about to look at.                     *)
(***************************************************************************)
Members(list) == {list[i] : i \in DOMAIN list}

(* What a slot and its worker owe the user, whatever afs_update is at      *)
CalmSlot(slot) ==
  LET s == proc[slot.w] IN
  /\ s.stop => stop_req
  /\ slot.cmd_after_init # "none" => Request_(slot.fd, slot.cmd_after_init) \in pend
  /\ s.st = "busy" => IF s.cmd \in UserCmds THEN Request_(slot.fd, s.cmd) \in pend ELSE stop_req
  /\ slot.fd = -1 => Shut(s)
  /\ [fd |-> slot.fd, kind |-> "reserved"] \in held => Shut(s) /\ slot.cmd_after_init # "open"
  /\ s.st = "busy" /\ s.cmd \in {"mkdir", "write_fsync_close"} => Shut(s)

(* The worker has the command, or gets it when it has started.             *)
Doing(slot, c) ==
  LET s == proc[slot.w] IN
  \/ slot.cmd_after_init = c /\ s.st = "init_pend"
  \/ s.st = "busy" /\ s.cmd = c

(* Outside of afs_update                                                   *)
CalmInv ==
  /\ \A w \in Procs : Tidy(proc[w])
  /\ \A slot \in Members(ps) :
       CalmSlot(slot) /\ (slot.cmd_after_init # "none" => proc[slot.w].st = "init_pend")
  /\ \A q \in pend : \E slot \in Members(ps) : slot.fd = q.fd /\ Doing(slot, q.cmd)

Updating == at \in {"update", "forward"}

(* The slot whose worker has been updated and whose events have not been   *)
(* looked at, and the slots to come                                        *)
Reporting(w) == at = "forward" /\ w = Head(todo)
ToVisit(w) == \E k \in DOMAIN todo : todo[k] = w

Silent(n) == \A k \in DOMAIN evs : evs[k].fd # n

(* What the report of a worker may be                                      *)
ReportInv(slot) ==
  LET s == proc[slot.w] IN
  /\ Len(s.evs) \in 0..2
  /\ Len(s.evs) = 2 => First(s) = "none" /\ ~s.evs[1].ok /\ s.evs[2].cmd = "exit"
  /\ First(s) \in UserCmds => /\ Request_(slot.fd, First(s)) \in pend /\ slot.cmd_after_init = "none"
                              /\ ~(s.st = "busy" /\ s.cmd \in UserCmds)
  /\ First(s) = "none" => IF s.evs[1].ok /\ slot.cmd_after_init # "none" THEN s.st = "avail" ELSE s.st \in {"avail", "uninit"}
  /\ First(s) = "none" /\ ~s.evs[1].ok => s.st = "uninit"
  /\ First(s) = "exit" => s.st = "uninit"
  /\ First(s) \in {"none", "close", "mkdir", "write_fsync_close"} => Shut(s)
  /\ res # "afs_ok" => s.st \in {"uninit", "dead"}

SlotInv(slot) ==
  LET s == proc[slot.w] IN
  /\ CalmSlot(slot)
  /\ slot.cmd_after_init # "none" => s.st = "init_pend" \/ (Reporting(slot.w) /\ First(s) = "none")
  /\ Reporting(slot.w) => ReportInv(slot)
  /\ Updating =>
       (ToVisit(slot.w) \/ slot.cmd_after_init # "none" \/ (s.st = "busy" /\ s.cmd \in UserCmds) => Silent(slot.fd))

EventInv ==
  Updating => /\ \A k \in DOMAIN evs : Request_(evs[k].fd, evs[k].cmd) \in pend
              /\ \A k, m \in DOMAIN evs : k # m => evs[k].fd # evs[m].fd

Has(slot, c) ==
  LET s == proc[slot.w] IN
  \/ Doing(slot, c)
  \/ Reporting(slot.w) /\ (First(s) = c \/ (First(s) = "none" /\ slot.cmd_after_init = c))

Kept(q) ==
  \/ Updating /\ \E k \in DOMAIN evs : evs[k].fd = q.fd /\ evs[k].cmd = q.cmd
  \/ \E slot \in Members(ps) : slot.fd = q.fd /\ Has(slot, q.cmd)

UseInv ==
  /\ \A w \in Procs : Tidy(proc[w])
  /\ at = "stop_prep" => stop_req
  /\ at = "stopped" => pend = {}
  /\ \A slot \in Members(ps) : SlotInv(slot)
  /\ EventInv
  /\ \A q \in pend : Kept(q)

(* Outside of afs_update the second invariant is the first one.            *)
LEMMA UseIsCalm ==
  ASSUME UseInv, ~Updating
  PROVE  CalmInv
BY DEF UseInv, CalmInv, SlotInv, Kept, Has, Reporting, Updating

(* And the first is the second there, and where afs_update starts.         *)
LEMMA CalmIsUse ==
  ASSUME CalmInv', ~Updating' \/ (at' = "update" /\ evs' = <<>>), (at' = "stop_prep" => stop_req'), at' # "stopped" \/ pend' = {}
  PROVE  UseInv'
BY DEF UseInv, CalmInv, SlotInv, EventInv, Silent, Kept, Has, Reporting, Updating

(* The slots of a good list                                                *)
LEMMA MembersGood ==
  ASSUME NEW list, GoodList(list)
  PROVE  /\ \A a \in Members(list) : a \in Slots /\ a.w \in Procs /\ a.fd \in Nat \cup {-1} /\ a.cmd_after_init \in AfterInit
         /\ \A a, b \in Members(list) : a # b => a.w # b.w /\ (a.fd # b.fd \/ a.fd = -1)
<1>1. \A i \in DOMAIN list : list[i] \in Slots
  BY DEF GoodList
<1>2. \A a \in Members(list) : a \in Slots
  BY <1>1 DEF Members
<1>3. \A a \in Members(list) : a.w \in Procs /\ a.fd \in Nat \cup {-1} /\ a.cmd_after_init \in AfterInit
  BY <1>2 DEF Slots
<1>4. \A a, b \in Members(list) : a # b => a.w # b.w /\ (a.fd # b.fd \/ a.fd = -1)
  BY DEF Members, GoodList, Distinct
<1> QED
  BY <1>2, <1>3, <1>4
----------------------------------------------------------------------------
(***************************************************************************)
(* The steps of the children and of the loops                              *)
(***************************************************************************)
(* What one worker's step leaves of the others                             *)
LEMMA OtherWorkers ==
  ASSUME TypeOK, NEW w \in Procs, NEW t, Set(w, t)
  PROVE  proc'[w] = t /\ \A v \in Procs : v # w => proc'[v] = proc[v]
BY DEF TypeOK, Set

(* A step that the parent does not see keeps what a slot is owed.          *)
LEMMA SameSlot ==
  ASSUME NEW slot, SameToParent(proc[slot.w], proc'[slot.w]), SlotInv(slot),
         UNCHANGED <<evs, stop_req, at, todo, res, pend, held>>
  PROVE  SlotInv(slot)' /\ \A c : Has(slot, c) => Has(slot, c)'
<1> DEFINE s == proc[slot.w]
           t == proc'[slot.w]
<1>1. First(t) = First(s) /\ t.evs = s.evs /\ t.st = s.st /\ t.cmd = s.cmd /\ t.stop = s.stop /\ (Shut(s) => Shut(t))
  BY DEF SameToParent, First
<1>2. CalmSlot(slot)'
  BY <1>1 DEF SlotInv, CalmSlot
<1>3. Reporting(slot.w)' = Reporting(slot.w) /\ Updating' = Updating /\ ToVisit(slot.w)' = ToVisit(slot.w)
      /\ Silent(slot.fd)' = Silent(slot.fd)
  BY ZenonT(40) DEF Reporting, Updating, ToVisit, Silent
<1>4. Reporting(slot.w) => ReportInv(slot)'
  BY <1>1, ZenonT(40) DEF SlotInv, ReportInv
<1>5. SlotInv(slot)'
  BY <1>1, <1>2, <1>3, <1>4, ZenonT(40) DEF SlotInv
<1>6. \A c : Has(slot, c) => Has(slot, c)'
  BY <1>1, <1>3, ZenonT(40) DEF Has, Doing
<1> QED
  BY <1>5, <1>6

(* And so it keeps the whole invariant.                                    *)
LEMMA UnseenUse ==
  ASSUME AfsInv, UseInv, \A v \in Procs : SameToParent(proc[v], proc'[v]),
         UNCHANGED <<ps, evs, stop_req, at, todo, res, pend, held>>
  PROVE  UseInv'
<1>1. \A slot \in Members(ps) : slot.w \in Procs
  BY MembersGood DEF AfsInv, CtxInv, ListInv
<1>2. \A slot \in Members(ps) : SlotInv(slot)' /\ \A c : Has(slot, c) => Has(slot, c)'
  BY <1>1, SameSlot DEF UseInv
<1>3. Members(ps)' = Members(ps)
  BY DEF Members
<1>4. \A w \in Procs : Tidy(proc'[w])
  BY DEF UseInv, SameToParent
<1>5. \A q \in pend : Kept(q) => Kept(q)'
  BY <1>2, <1>3 DEF Kept, Updating
<1>6. EventInv'
  BY DEF UseInv, EventInv, Updating
<1> QED
  BY <1>2, <1>3, <1>4, <1>5, <1>6, SMTT(30) DEF UseInv

(* A child runs, or dies.                                                  *)
LEMMA ChildrenUse ==
  ASSUME AfsInv, UseInv, Children
  PROVE  UseInv'
<1>1. PICK w \in Procs : (Child(w) \/ ChildDie(w)) /\ UNCHANGED <<ctx, loop, user>>
  BY DEF Children
<1>2. Good(proc[w]) /\ TypeOK
  BY DEF AfsInv, IInv
<1>3. PICK t : Set(w, t) /\ SameToParent(proc[w], t)
  BY <1>1, <1>2, ChildTidy DEF Child, ChildStart, ChildRead, ChildRun, ChildIdle, ChildReply, ChildLeave, ChildDie
<1>4. proc'[w] = t /\ \A v \in Procs : v # w => proc'[v] = proc[v]
  BY <1>2, <1>3, OtherWorkers
<1>5. \A v \in Procs : SameToParent(proc[v], proc'[v])
  BY <1>3, <1>4 DEF SameToParent
<1>6. UNCHANGED <<ps, evs, stop_req, at, todo, res, pend, held>>
  BY <1>1, SMTT(30) DEF ctx, loop, user
<1> QED
  BY <1>5, <1>6, UnseenUse

(* A step that takes up requests to stop at most                           *)
LEMMA LoopCalm ==
  ASSUME GoodList(ps), CalmInv, \A v \in Procs : Nudged(proc[v], proc'[v], stop_req'),
         stop_req => stop_req', UNCHANGED <<ps, pend, held>>
  PROVE  CalmInv'
<1>1. Members(ps)' = Members(ps) /\ \A slot \in Members(ps) : slot.w \in Procs
  BY MembersGood DEF Members
<1>2. ASSUME NEW slot \in Members(ps)
      PROVE  /\ CalmSlot(slot)' /\ (slot.cmd_after_init # "none" => proc'[slot.w].st = "init_pend")
             /\ \A c : Doing(slot, c) => Doing(slot, c)'
  <2>1. Nudged(proc[slot.w], proc'[slot.w], stop_req')
    BY <1>1
  <2>2. CalmSlot(slot) /\ (slot.cmd_after_init # "none" => proc[slot.w].st = "init_pend")
    BY DEF CalmInv
  <2>3. "exit" \notin UserCmds
    BY SMTT(30) DEF UserCmds
  <2>4. CalmSlot(slot)'
    BY <2>1, <2>2, <2>3, SMTT(30) DEF CalmSlot, Nudged
  <2>5. \A c : Doing(slot, c) => Doing(slot, c)'
    BY <2>1, SMTT(30) DEF Doing, Nudged
  <2> QED BY <2>1, <2>2, <2>4, <2>5 DEF Nudged
<1>3. \A v \in Procs : Tidy(proc'[v])
  BY DEF CalmInv, Nudged
<1> QED
  BY <1>1, <1>2, <1>3 DEF CalmInv

(* The steps of the loops outside of afs_update, and its start             *)
LEMMA LoopUse ==
  ASSUME AfsInv, UseInv, \/ afs_stop_prep \/ StopPrepSlot \/ StopPrepDone \/ afs_pollfds \/ PollSlot \/ UpdateStart
  PROVE  UseInv'
<1>1. TypeOK /\ GoodList(ps) /\ todo \in Seq(Procs) /\ \A v \in Procs : Good(proc[v])
  BY DEF AfsInv, IInv, CtxInv, ListInv, LoopInv
<1>2. \A v \in Procs : Nudged(proc[v], proc[v], stop_req')
  BY DEF Nudged
<1>3. CASE afs_stop_prep \/ StopPrepDone \/ afs_pollfds \/ UpdateStart
  <2>1. /\ ~Updating /\ UNCHANGED <<proc, ps, pend, held>> /\ (stop_req => stop_req')
        /\ ~Updating' \/ (at' = "update" /\ evs' = <<>>)
        /\ at' = "stop_prep" => stop_req'
        /\ at' # "stopped"
    BY <1>3 DEF afs_stop_prep, StopPrepDone, afs_pollfds, UpdateStart, CanStop, Updating, ctx, user
  <2>2. CalmInv'
    BY <1>1, <1>2, <2>1, UseIsCalm, LoopCalm, ZenonT(40)
  <2> QED BY <2>1, <2>2, CalmIsUse
<1>4. CASE StopPrepSlot \/ PollSlot
  <2>1. todo # <<>> /\ at \in {"stop_prep", "poll"} /\ UNCHANGED <<at, stop_req, ps, pend, held>> /\ ~Updating
    BY <1>4 DEF StopPrepSlot, PollSlot, ctx, user, Updating
  <2>2. Head(todo) \in Procs
    BY <1>1, <2>1
  <2> DEFINE w == Head(todo)
  <2> HIDE DEF w
  <2>3. PICK t : Set(w, t) /\ Nudged(proc[w], t, stop_req')
    <3>1. CASE StopPrepSlot
      <4>1. Set(w, proc_stop_prep_(proc[w]).s) /\ stop_req' = TRUE
        BY <1>4, <2>1, <3>1 DEF StopPrepSlot, ProcStopPrep, UseInv, w, AfsInv, CtxInv, LoopInv
      <4> QED BY <1>1, <2>2, <4>1, StopPrepTidy, Zenon DEF w
    <3>2. CASE PollSlot
      <4> DEFINE t == [proc[w] EXCEPT !.polled = TRUE, !.revents = Ready(proc[w])]
      <4>1. Set(w, t) /\ SameToParent(proc[w], t)
        BY <1>1, <2>2, <3>2, PollTidy, Zenon DEF PollSlot, Poll, w
      <4> HIDE DEF t
      <4> QED BY <4>1 DEF SameToParent, Nudged
    <3> QED BY <1>4, <3>1, <3>2
  <2>4. \A v \in Procs : Nudged(proc[v], proc'[v], stop_req')
    BY <1>1, <1>2, <2>2, <2>3, OtherWorkers, ZenonT(40) DEF w
  <2>5. CalmInv'
    BY <1>1, <2>1, <2>4, UseIsCalm, LoopCalm, ZenonT(40)
  <2> QED BY <2>1, <2>5, CalmIsUse DEF UseInv, Updating
<1> QED
  BY <1>3, <1>4
----------------------------------------------------------------------------
(***************************************************************************)
(* The calls                                                               *)
(***************************************************************************)
(* Where maybe_alloc_ps_ puts its slot: it numbers or deletes the first    *)
(* free one, or adds one, or leaves the list.                              *)
Placed(o) ==
  \/ /\ ps_get_(-1) # 0 /\ o.w = ps[ps_get_(-1)].w
     /\ \/ o.i = ps_get_(-1) /\ o.ps = [ps EXCEPT ![ps_get_(-1)].fd = ps_next_fd_]
        \/ o.i = 0 /\ o.ps = ps_del_(ps, -1)
  \/ /\ \A j \in DOMAIN ps : ps[j].w # o.w
     /\ \/ o.i = 0 /\ o.ps = ps
        \/ o.i = Len(ps) + 1 /\ o.ps = Append(ps, Slot(o.w, ps_next_fd_))

(* A slot with a new worker has one that was started.                      *)
Begun(o) == o.i # 0 => o.was_init \/ \E q \in proc_init_(proc[o.w]) : q.r = "afs_ok" /\ o.s = q.s /\ proc[o.w].st = "uninit"

(* maybe_alloc_ps_ in its cases                                            *)
LEMMA AllocPlaced ==
  ASSUME ps \in Seq(Slots), NEW o \in maybe_alloc_ps_
  PROVE  Placed(o) /\ Begun(o)
<1> DEFINE i == ps_get_(-1)
           mine == [ps EXCEPT ![i].fd = ps_next_fd_]
           del == ps_del_(ps, -1)
<1>1. CASE i # 0
  <2> DEFINE w == ps[i].w
  <2>1. o \in Reuse(i)
    BY <1>1 DEF maybe_alloc_ps_
  <2>2. CASE proc[w].st # "uninit"
    <3>1. o = Alloc(mine, lim, w, proc[w], i, TRUE)
      BY <2>1, <2>2, Zenon DEF Reuse
    <3> HIDE DEF mine, w, i
    <3>2. o.ps = mine /\ o.w = w /\ o.i = i
      BY <3>1 DEF Alloc
    <3>3. o.was_init
      BY <3>1, Zenon DEF Alloc
    <3> QED BY <1>1, <3>2, <3>3, ZenonT(40) DEF Placed, Begun, mine, w, i
  <2>3. CASE proc[w].st = "uninit"
    <3>1. PICK q \in proc_init_(proc[w]) :
            o = IF q.r = "afs_ok" THEN Alloc(mine, lim, w, q.s, i, FALSE) ELSE Alloc(del, lim, w, q.s, 0, FALSE)
      BY <2>1, <2>3, Zenon DEF Reuse
    <3> HIDE DEF mine, del, w, i
    <3>2. CASE q.r = "afs_ok"
      <4>1. o.ps = mine /\ o.w = w /\ o.i = i /\ o.s = q.s
        BY <3>1, <3>2 DEF Alloc
      <4> QED BY <1>1, <2>3, <3>2, <4>1, ZenonT(40) DEF Placed, Begun, mine, w, i
    <3>3. CASE q.r # "afs_ok"
      <4>1. o.ps = del /\ o.w = w /\ o.i = 0
        BY <3>1, <3>3, ZenonT(40) DEF Alloc
      <4> QED BY <1>1, <4>1 DEF Placed, Begun, del, w, i
    <3> QED BY <3>2, <3>3
  <2> QED BY <2>2, <2>3
<1>2. CASE i = 0
  <2>1. PICK w \in Fresh : o \in ps_add_(w)
    BY <1>2 DEF maybe_alloc_ps_
  <2> DEFINE list == Append(ps, Slot(w, ps_next_fd_))
             room == Grown(Len(ps) + 1)
             half == [lim EXCEPT !.pfds = room.pfds]
  <2>2. proc[w].st = "uninit" /\ \A j \in DOMAIN ps : ps[j].w # w
    BY DEF Fresh
  <2>3. Len(list) = Len(ps) + 1
    OBVIOUS
  <2>4. \/ o = Alloc(ps, lim, w, proc[w], 0, FALSE) \/ o = Alloc(ps, half, w, proc[w], 0, FALSE)
        \/ \E q \in proc_init_(proc[w]) : o = IF q.r = "afs_ok" THEN Alloc(list, room, w, q.s, Len(list), FALSE)
                                                              ELSE Alloc(ps, room, w, q.s, 0, FALSE)
    BY <2>1, Zenon DEF ps_add_
  <2> HIDE DEF list, room, half
  <2>5. CASE o = Alloc(ps, lim, w, proc[w], 0, FALSE) \/ o = Alloc(ps, half, w, proc[w], 0, FALSE)
    <3>1. o.ps = ps /\ o.w = w /\ o.i = 0
      BY <2>5 DEF Alloc
    <3> QED BY <2>2, <3>1 DEF Placed, Begun
  <2>6. ASSUME NEW q \in proc_init_(proc[w]), o = IF q.r = "afs_ok" THEN Alloc(list, room, w, q.s, Len(list), FALSE)
                                                                  ELSE Alloc(ps, room, w, q.s, 0, FALSE)
        PROVE  Placed(o) /\ Begun(o)
    <3>1. CASE q.r = "afs_ok"
      <4>1. o.ps = list /\ o.w = w /\ o.i = Len(list) /\ o.s = q.s
        BY <2>6, <3>1 DEF Alloc
      <4> QED BY <2>2, <2>3, <3>1, <4>1, ZenonT(40) DEF Placed, Begun, list
    <3>2. CASE q.r # "afs_ok"
      <4>1. o.ps = ps /\ o.w = w /\ o.i = 0
        BY <2>6, <3>2, ZenonT(40) DEF Alloc
      <4> QED BY <2>2, <4>1, ZenonT(40) DEF Placed, Begun
    <3> QED BY <3>1, <3>2
  <2> QED BY <2>4, <2>5, <2>6, Zenon
<1> QED
  BY <1>1, <1>2

(* The second list is the first with another slot at i.                    *)
OneChanged(list, i, t, new) ==
  DOMAIN new = DOMAIN list /\ \A j \in DOMAIN list : new[j] = IF j = i THEN t ELSE list[j]

Exchanged(S, a, b, T) == T = (S \ {a}) \cup {b}

(* The slots after one has been replaced                                   *)
LEMMA SetMembers ==
  ASSUME NEW list, GoodList(list), NEW i \in DOMAIN list, NEW t, NEW new, OneChanged(list, i, t, new)
  PROVE  Exchanged(Members(list), list[i], t, Members(new))
<1>1. \A j \in DOMAIN list : j # i => list[j] # list[i]
  BY DEF GoodList, Distinct
<1> QED
  BY <1>1, ZenonT(40) DEF Members, OneChanged, Exchanged

(* The slots after one has been added                                      *)
LEMMA AddMembers ==
  ASSUME NEW list \in Seq(Slots), NEW t \in Slots
  PROVE  Members(Append(list, t)) = Members(list) \cup {t}
<1> DEFINE g == Append(list, t)
<1>1. /\ Len(list) \in Nat /\ DOMAIN list = 1..Len(list) /\ DOMAIN g = 1..(Len(list) + 1)
      /\ g[Len(list) + 1] = t /\ \A j \in 1..Len(list) : g[j] = list[j]
  OBVIOUS
<1>2. \A j \in 1..(Len(list) + 1) : j \in 1..Len(list) \/ j = Len(list) + 1
  BY <1>1
<1>3. 1..Len(list) \subseteq 1..(Len(list) + 1) /\ Len(list) + 1 \in 1..(Len(list) + 1)
  BY <1>1
<1> HIDE DEF g
<1>4. Members(g) = Members(list) \cup {t}
  BY <1>1, <1>2, <1>3, Zenon DEF Members
<1> QED
  BY <1>4 DEF g

(* The slots after one has been deleted                                    *)
LEMMA DelMembers ==
  ASSUME NEW list, GoodList(list), NEW n
  PROVE  /\ Members(ps_del_(list, n)) \subseteq Members(list)
         /\ \A a \in Members(list) : a.fd # n => a \in Members(ps_del_(list, n))
<1> DEFINE d == ps_del_(list, n)
<1>1. list \in Seq(Slots) /\ Len(list) \in Nat /\ DOMAIN list = 1..Len(list)
  BY DEF GoodList
<1> SUFFICES ASSUME d # list PROVE Members(d) \subseteq Members(list) /\ \A a \in Members(list) : a.fd # n => a \in Members(d)
  BY Zenon
<1> HIDE DEF d
<1>2. PICK k \in 1..Len(list) : /\ list[k].fd = n /\ \A j \in 1..Len(list) : list[j].fd = n => k <= j
                                /\ d \in Seq(Slots) /\ Len(d) = Len(list) - 1
                                /\ \A i \in 1..Len(list) - 1 : d[i] = list[IF i < k THEN i ELSE i + 1]
  BY <1>1, PsDel, Zenon DEF d
<1>3. DOMAIN d = 1..Len(list) - 1
  BY <1>1, <1>2
<1>4. \A i \in 1..Len(list) - 1 : (IF i < k THEN i ELSE i + 1) \in 1..Len(list)
  BY <1>1
<1>5. Members(d) \subseteq Members(list)
  BY <1>1, <1>2, <1>3, <1>4, Zenon DEF Members
<1>6. ASSUME NEW j \in 1..Len(list), list[j].fd # n PROVE list[j] \in Members(d)
  <2>1. CASE j < k
    <3>1. j \in 1..Len(list) - 1 /\ d[j] = list[j]
      BY <1>1, <1>2, <2>1, SMTT(30)
    <3> QED BY <1>3, <3>1 DEF Members
  <2>2. CASE j > k
    <3>1. j - 1 \in 1..Len(list) - 1 /\ ~(j - 1 < k) /\ (j - 1) + 1 = j
      BY <1>1, <2>2
    <3>2. d[j - 1] = list[j]
      BY <1>2, <3>1
    <3> QED BY <1>3, <3>1, <3>2 DEF Members
  <2> QED BY <1>1, <1>2, <1>6, <2>1, <2>2, SMTT(30)
<1> QED
  BY <1>1, <1>5, <1>6 DEF Members

(* The slot that is deleted is the one that ps_get_ finds.                 *)
LEMMA DelFirst ==
  ASSUME GoodList(ps), NEW n, ps_get_(n) # 0
  PROVE  ps[ps_get_(n)] \notin Members(ps_del_(ps, n))
<1> DEFINE hits == {i \in DOMAIN ps : ps[i].fd = n}
           k == CHOOSE i \in hits : \A j \in hits : i <= j
           d == ps_del_(ps, n)
<1>1. hits # {} /\ ps_get_(n) = k
  BY DEF ps_get_
<1>2. k \in DOMAIN ps /\ Distinct(ps) /\ DOMAIN ps = 1..Len(ps) /\ Len(ps) \in Nat
  BY <1>1, PsGet DEF GoodList
<1>3. d = [i \in 1..Len(ps) - 1 |-> IF i < k THEN ps[i] ELSE ps[i + 1]]
  BY <1>1, Zenon DEF ps_del_
<1> HIDE DEF hits, k, d
<1>4. DOMAIN d = 1..Len(ps) - 1 /\ \A i \in 1..Len(ps) - 1 : d[i] = IF i < k THEN ps[i] ELSE ps[i + 1]
  BY <1>3
<1>5. \A j \in DOMAIN ps : j # k => ps[j] # ps[k]
  BY <1>2 DEF Distinct
<1>6. \A i \in 1..Len(ps) - 1 : d[i] # ps[k]
  <2> TAKE i \in 1..Len(ps) - 1
  <2>1. i \in DOMAIN ps /\ i + 1 \in DOMAIN ps /\ (~(i < k) => i + 1 # k) /\ (i < k => i # k)
    BY <1>2
  <2> QED BY <1>4, <1>5, <2>1
<1> QED
  BY <1>1, <1>4, <1>6, ZenonT(40) DEF Members, d

(* Nobody waits for the worker of this slot, and it has no file open.      *)
Unowed(slot, s) ==
  /\ slot.cmd_after_init = "none" /\ Shut(s) /\ (s.stop => stop_req)
  /\ s.st = "busy" => stop_req /\ s.cmd \notin UserCmds

(* What a call needs to know of maybe_alloc_ps_                            *)
AllocUse(o) ==
  /\ o.w \in Procs /\ Good(o.s) /\ Tidy(o.s) /\ GoodList(o.ps)
  /\ \A slot \in Members(ps) : slot.fd # -1 => slot.w # o.w /\ slot \in Members(o.ps)
  /\ \A slot \in Members(o.ps) : slot.w # o.w => slot \in Members(ps)
  /\ \A slot \in Members(o.ps) : slot.w = o.w => Unowed(slot, o.s)
  /\ o.i # 0 => /\ o.i \in DOMAIN o.ps /\ o.ps[o.i].w = o.w /\ o.ps[o.i].fd \in Nat
                /\ \A slot \in Members(ps) : slot.fd # o.ps[o.i].fd
  /\ o.i # 0 /\ ~o.was_init => o.s.st = "init_pend"

(* A free slot owes nothing, and its worker has no file open.              *)
LEMMA FreeSlot ==
  ASSUME CtxInv, CalmInv, NEW slot \in Members(ps), slot.fd = -1
  PROVE  Unowed(slot, proc[slot.w])
<1>1. CalmSlot(slot)
  BY DEF CalmInv
<1>2. \A c : Request_(-1, c) \notin pend
  <2>1. \A q \in pend : q.fd \in Nat
    BY DEF CtxInv, UserInv
  <2>2. \A c : Request_(-1, c).fd = -1
    BY DEF Request_
  <2>3. -1 \notin Nat
    OBVIOUS
  <2> QED BY <2>1, <2>2, <2>3, Zenon
<1> QED
  BY <1>1, <1>2 DEF CalmSlot, Unowed

(* What proc_init_ starts has no file open, and is not asked to stop.      *)
LEMMA BegunWorker ==
  ASSUME IInv, \A v \in Procs : Tidy(proc[v]), NEW o, AllocGood(o)
  PROVE  /\ Good(o.s) /\ Tidy(o.s)
         /\ o.s = proc[o.w] \/ (Shut(o.s) /\ ~o.s.stop /\ o.s.st # "busy")
<1>1. o.w \in Procs /\ Good(proc[o.w]) /\ Tidy(proc[o.w])
  BY DEF AllocGood, IInv
<1>2. CASE o.s = proc[o.w]
  BY <1>1, <1>2
<1>3. CASE proc[o.w].st = "uninit" /\ \E q \in proc_init_(proc[o.w]) : o.s = q.s
  <2>1. PICK q \in proc_init_(proc[o.w]) : o.s = q.s
    BY <1>3
  <2>2. Good(q.s)
    BY <1>1, <1>3, ProcInitGood, ZenonT(40)
  <2>3. Tidy(q.s) /\ Shut(q.s) /\ ~q.s.stop /\ q.s.st # "busy"
    BY <1>1, <1>3, InitTidy
  <2> QED BY <2>1, <2>2, <2>3
<1> QED
  BY <1>2, <1>3 DEF AllocGood

(* maybe_alloc_ps_ takes a slot that nobody waits for, under a number that *)
(* no other slot has.                                                      *)
LEMMA AllocUsable ==
  ASSUME AfsInv, CalmInv, NEW o \in maybe_alloc_ps_
  PROVE  AllocUse(o)
<1> USE ZenonT(40)
<1>1. GoodList(ps) /\ ps \in Seq(Slots) /\ DOMAIN ps = 1..Len(ps) /\ Len(ps) \in Nat
  BY SMT DEF AfsInv, CtxInv, ListInv, GoodList
<1>2. AllocGood(o) /\ Placed(o) /\ Begun(o)
  BY <1>1, MaybeAllocGood, AllocPlaced DEF AfsInv, CtxInv, ListInv
<1>3. o.w \in Procs /\ Good(o.s) /\ Tidy(o.s) /\ GoodList(o.ps)
      /\ (o.s = proc[o.w] \/ (Shut(o.s) /\ ~o.s.stop /\ o.s.st # "busy"))
  BY <1>2, BegunWorker, SMT DEF AfsInv, CalmInv, AllocGood
<1>4. ps_next_fd_ \in Nat /\ \A slot \in Members(ps) : slot.fd # ps_next_fd_
  <2>1. ps_next_fd_ \in Nat /\ \A slot \in Members(ps) : slot.fd < ps_next_fd_
    BY <1>1, NextFd DEF Members
  <2>2. \A slot \in Members(ps) : slot.fd \in Nat \cup {-1}
    BY <1>1, MembersGood
  <2> QED BY <2>1, <2>2, SMT
<1>5. o.i # 0 /\ ~o.was_init => o.s.st = "init_pend"
  BY <1>2, <1>3, InitTidy DEF Begun, CalmInv, AfsInv, IInv
<1>6. \A a, b \in Members(ps) : a # b => a.w # b.w
  BY <1>1, MembersGood, SMT
<1>7. CASE ps_get_(-1) # 0 /\ o.w = ps[ps_get_(-1)].w
           /\ \/ o.i = ps_get_(-1) /\ o.ps = [ps EXCEPT ![ps_get_(-1)].fd = ps_next_fd_]
              \/ o.i = 0 /\ o.ps = ps_del_(ps, -1)
  <2> DEFINE i == ps_get_(-1)
             e == ps[i]
             g == [e EXCEPT !.fd = ps_next_fd_]
  <2>1. i \in DOMAIN ps /\ e.fd = -1 /\ e \in Members(ps) /\ e \in Slots
    BY <1>1, <1>7, PsGet, SMT DEF Members
  <2>2. \A slot \in Members(ps) : slot.fd # -1 => slot # e /\ slot.w # e.w
    BY <1>6, <2>1, SMT
  <2>3. Unowed(e, o.s)
    <3>1. Unowed(e, proc[e.w])
      BY <2>1, FreeSlot DEF AfsInv
    <3> QED BY <1>3, <1>7, <3>1 DEF Unowed
  <2>4. CASE o.i = i /\ o.ps = [ps EXCEPT ![i].fd = ps_next_fd_]
    <3>1. [ps EXCEPT ![i].fd = ps_next_fd_] = [ps EXCEPT ![i] = g]
      BY SMT
    <3>2. g.w = e.w /\ g.fd = ps_next_fd_ /\ g.cmd_after_init = e.cmd_after_init
      <4> HIDE DEF e
      <4> QED BY <2>1, SMT DEF Slots
    <3> HIDE DEF g, e, i
    <3>3. o.ps = [ps EXCEPT ![i] = g]
      BY <2>4, <3>1
    <3>4. Members(o.ps) = (Members(ps) \ {e}) \cup {g}
      <4>1. OneChanged(ps, i, g, o.ps)
        BY <1>1, <2>1, <3>3 DEF OneChanged
      <4>2. Exchanged(Members(ps), ps[i], g, Members(o.ps))
        BY <1>1, <2>1, <4>1, SetMembers
      <4> QED BY <4>2, SMT DEF e, Exchanged
    <3>5. i \in DOMAIN o.ps /\ o.ps[i] = g
      BY <1>1, <2>1, <3>3
    <3>6. Unowed(g, o.s)
      BY <2>3, <3>2, SMT DEF Unowed
    <3>7. o.w = e.w /\ o.i = i
      BY <1>7, <2>4 DEF e, i
    <3> QED BY <1>3, <1>4, <1>5, <1>6, <2>1, <2>2, <3>2, <3>4, <3>5, <3>6, <3>7 DEF AllocUse
  <2>5. CASE o.i = 0 /\ o.ps = ps_del_(ps, -1)
    <3>1. /\ Members(o.ps) \subseteq Members(ps) /\ \A a \in Members(ps) : a.fd # -1 => a \in Members(o.ps)
          /\ e \notin Members(o.ps)
      BY <1>1, <1>7, <2>5, DelMembers, DelFirst
    <3>2. o.w = e.w
      BY <1>7, SMT
    <3> HIDE DEF e
    <3>3. \A slot \in Members(o.ps) : slot.w # o.w
      BY <1>6, <2>1, <3>1, <3>2
    <3> QED BY <1>3, <2>2, <2>5, <3>1, <3>2, <3>3 DEF AllocUse
  <2> QED BY <1>7, <2>4, <2>5, SMT
<1>8. CASE (\A j \in DOMAIN ps : ps[j].w # o.w)
           /\ \/ o.i = 0 /\ o.ps = ps
              \/ o.i = Len(ps) + 1 /\ o.ps = Append(ps, Slot(o.w, ps_next_fd_))
  <2>1. \A slot \in Members(ps) : slot.w # o.w
    BY <1>8, SMT DEF Members
  <2>2. CASE o.i = 0 /\ o.ps = ps
    BY <1>3, <2>1, <2>2 DEF AllocUse
  <2>3. CASE o.i = Len(ps) + 1 /\ o.ps = Append(ps, Slot(o.w, ps_next_fd_))
    <3> DEFINE g == Slot(o.w, ps_next_fd_)
    <3>1. g \in Slots /\ g.w = o.w /\ g.fd = ps_next_fd_ /\ g.cmd_after_init = "none"
      BY <1>3, <1>4 DEF Slot, Slots, AfterInit
    <3> HIDE DEF g
    <3>2. Members(o.ps) = Members(ps) \cup {g}
      BY <1>1, <2>3, <3>1, AddMembers DEF g
    <3>3. o.i \in DOMAIN o.ps /\ o.ps[o.i] = g /\ o.i # 0
      BY <1>1, <2>3, <3>1, SMTT(30), SMT DEF g
    <3>4. ~o.was_init /\ o.s # proc[o.w]
      <4>1. ~o.was_init
        BY <1>2, <1>8 DEF AllocGood
      <4>2. o.s.st = "init_pend" /\ proc[o.w].st = "uninit"
        BY <1>2, <1>5, <3>3, <4>1 DEF Begun
      <4> QED BY <4>1, <4>2
    <3>5. Unowed(g, o.s)
      BY <1>3, <3>1, <3>4 DEF Unowed
    <3> QED BY <1>3, <1>4, <1>5, <2>1, <3>1, <3>2, <3>3, <3>5 DEF AllocUse
  <2> QED BY <1>8, <2>2, <2>3
<1> QED
  BY <1>2, <1>7, <1>8, SMT DEF Placed

(* A call that concerns one worker: the other slots and their requests     *)
(* stay.                                                                   *)
LEMMA CallCalm ==
  ASSUME AfsInv, CalmInv, NEW w \in Procs, NEW t, Set(w, t), Tidy(t), UNCHANGED stop_req, pend \subseteq pend',
         \A slot \in Members(ps)' : slot.w # w =>
            slot \in Members(ps) /\ ([fd |-> slot.fd, kind |-> "reserved"] \in held' => [fd |-> slot.fd, kind |-> "reserved"] \in held),
         \A slot \in Members(ps) : slot.w # w /\ slot.fd # -1 => slot \in Members(ps)',
         \A slot \in Members(ps)' : slot.w = w => CalmSlot(slot)' /\ (slot.cmd_after_init # "none" => t.st = "init_pend"),
         \A q \in pend' : \/ q \in pend /\ \A slot \in Members(ps) : slot.w = w => slot.fd # q.fd
                          \/ \E slot \in Members(ps)' : slot.fd = q.fd /\ Doing(slot, q.cmd)',
         GoodList(ps')
  PROVE  CalmInv'
<1> USE ZenonT(40)
<1>1. proc'[w] = t /\ \A v \in Procs : v # w => proc'[v] = proc[v]
  BY OtherWorkers DEF AfsInv, IInv
<1>2. (\A slot \in Members(ps) : slot.w \in Procs) /\ (\A slot \in Members(ps)' : slot.w \in Procs)
  BY MembersGood DEF AfsInv, CtxInv, ListInv, Members
<1>3. \A v \in Procs : Tidy(proc'[v])
  BY <1>1 DEF CalmInv
<1>4. ASSUME NEW slot \in Members(ps)'
      PROVE  CalmSlot(slot)' /\ (slot.cmd_after_init # "none" => proc'[slot.w].st = "init_pend")
  <2>1. CASE slot.w = w
    BY <1>1, <2>1
  <2>2. CASE slot.w # w
    <3>1. slot \in Members(ps) /\ proc'[slot.w] = proc[slot.w]
      BY <1>1, <1>2, <2>2
    <3>2. CalmSlot(slot) /\ (slot.cmd_after_init # "none" => proc[slot.w].st = "init_pend")
      BY <3>1 DEF CalmInv
    <3>3. CalmSlot(slot)'
      BY <2>2, <3>1, <3>2 DEF CalmSlot
    <3> QED BY <3>1, <3>2, <3>3
  <2> QED BY <2>1, <2>2
<1>5. ASSUME NEW q \in pend'
      PROVE  \E slot \in Members(ps)' : slot.fd = q.fd /\ Doing(slot, q.cmd)'
  <2> SUFFICES ASSUME q \in pend, \A slot \in Members(ps) : slot.w = w => slot.fd # q.fd
               PROVE  \E slot \in Members(ps)' : slot.fd = q.fd /\ Doing(slot, q.cmd)'
    BY SMT
  <2>1. PICK slot \in Members(ps) : slot.fd = q.fd /\ Doing(slot, q.cmd)
    BY DEF CalmInv
  <2>2. q.fd # -1
    BY SMTT(30), SMT DEF AfsInv, CtxInv, UserInv
  <2>3. slot \in Members(ps)' /\ proc'[slot.w] = proc[slot.w]
    BY <1>1, <1>2, <2>1, <2>2
  <2>4. Doing(slot, q.cmd)'
    BY <2>1, <2>3 DEF Doing
  <2> QED BY <2>1, <2>3, <2>4
<1> QED
  BY <1>3, <1>4, <1>5 DEF CalmInv

(* A slot that nobody waits for is in order, whoever holds its number.     *)
LEMMA UnownedCalm ==
  ASSUME NEW slot, Unowed(slot, proc'[slot.w]), UNCHANGED stop_req
  PROVE  CalmSlot(slot)'
<1>1. {"mkdir", "write_fsync_close"} \subseteq UserCmds
  BY ZenonT(40) DEF UserCmds
<1> QED
  BY <1>1 DEF Unowed, CalmSlot

(* In the outcomes of maybe_alloc_ps_ the other slots and the requests for *)
(* them are as they were.                                                  *)
LEMMA AllocOthers ==
  ASSUME AfsInv, NEW o, AllocUse(o)
  PROVE  \A q \in pend : \A slot \in Members(ps) : slot.w = o.w => slot.fd # q.fd
<1>1. \A q \in pend : q.fd # -1
  BY SMTT(30) DEF AfsInv, CtxInv, UserInv
<1> QED
  BY <1>1 DEF AllocUse

(* A slot is taken and no request is made: afs_reserve, or a call that     *)
(* fails.                                                                  *)
LEMMA TakenCalm ==
  ASSUME AfsInv, CalmInv, NEW o, AllocUse(o), Set(o.w, o.s), ps' = o.ps, UNCHANGED <<pend, stop_req>>,
         held' = held \/ (o.i # 0 /\ held' = Given(o.ps[o.i].fd, "reserved"))
  PROVE  CalmInv'
<1> USE ZenonT(40)
<1>1. o.w \in Procs /\ Tidy(o.s) /\ GoodList(ps') /\ Members(ps)' = Members(o.ps) /\ proc'[o.w] = o.s
  BY OtherWorkers, SMT DEF AllocUse, AfsInv, IInv, Members
<1>2. ASSUME NEW slot \in Members(o.ps), slot.w # o.w
      PROVE  slot \in Members(ps) /\ ([fd |-> slot.fd, kind |-> "reserved"] \in held' => [fd |-> slot.fd, kind |-> "reserved"] \in held)
  <2>1. slot \in Members(ps) /\ (o.i # 0 => slot.fd # o.ps[o.i].fd)
    BY <1>2 DEF AllocUse
  <2> QED BY <2>1 DEF Given
<1>3. \A slot \in Members(ps) : slot.w # o.w /\ slot.fd # -1 => slot \in Members(o.ps)
  BY DEF AllocUse
<1>4. \A slot \in Members(o.ps) : slot.w = o.w => CalmSlot(slot)' /\ slot.cmd_after_init = "none"
  <2> TAKE slot \in Members(o.ps)
  <2> HAVE slot.w = o.w
  <2>1. Unowed(slot, proc'[slot.w])
    BY <1>1, SMT DEF AllocUse
  <2> QED BY <2>1, UnownedCalm DEF Unowed
<1>5. \A q \in pend : \A slot \in Members(ps) : slot.w = o.w => slot.fd # q.fd
  BY AllocOthers, SMT
<1>6. \A slot \in Members(ps)' : slot.w # o.w =>
        slot \in Members(ps) /\ ([fd |-> slot.fd, kind |-> "reserved"] \in held' => [fd |-> slot.fd, kind |-> "reserved"] \in held)
  BY <1>1, <1>2
<1>7. \A slot \in Members(ps) : slot.w # o.w /\ slot.fd # -1 => slot \in Members(ps)'
  BY <1>1, <1>3
<1>8. \A slot \in Members(ps)' : slot.w = o.w => CalmSlot(slot)' /\ (slot.cmd_after_init # "none" => o.s.st = "init_pend")
  BY <1>1, <1>4
<1>9. \A q \in pend' : q \in pend /\ \A slot \in Members(ps) : slot.w = o.w => slot.fd # q.fd
  BY <1>5
<1>10. pend \subseteq pend' /\ UNCHANGED stop_req
  BY SMT
<1> QED
  BY <1>1, <1>6, <1>7, <1>8, <1>9, <1>10, CallCalm

(* What stays of the descriptors when one is handed out                    *)
LEMMA GivenOthers ==
  ASSUME NEW n, NEW kind, kind # "reserved", NEW m
  PROVE  [fd |-> m, kind |-> "reserved"] \in Given(n, kind) => m # n /\ [fd |-> m, kind |-> "reserved"] \in held
BY ZenonT(40) DEF Given

(* The slot of the outcome is the only one of its worker.                  *)
LEMMA AllocOne ==
  ASSUME NEW o, AllocUse(o), o.i # 0, NEW slot \in Members(o.ps), slot.w = o.w
  PROVE  slot = o.ps[o.i]
<1> USE ZenonT(40)
<1>1. o.ps[o.i] \in Members(o.ps) /\ o.ps[o.i].w = o.w
  BY DEF AllocUse, Members
<1> QED
  BY <1>1, MembersGood DEF AllocUse

(* afs_open or afs_mkdir with a worker that runs                           *)
LEMMA OpenSentCalm ==
  ASSUME AfsInv, CalmInv, NEW op \in {"open", "mkdir"}, NEW o, AllocUse(o), o.i # 0, UNCHANGED stop_req, ps' = o.ps,
         NEW t, NEW r, SentTo(o.s, op, t, r), Set(o.w, t),
         pend' = IF r = "afs_ok" THEN pend \cup {Request_(o.ps[o.i].fd, op)} ELSE pend,
         held' = IF r = "afs_ok" THEN Given(o.ps[o.i].fd, op) ELSE held
  PROVE  CalmInv'
<1> USE ZenonT(40)
<1> DEFINE g == o.ps[o.i]
<1>1. o.w \in Procs /\ Tidy(t) /\ GoodList(ps') /\ Members(ps)' = Members(o.ps) /\ proc'[o.w] = t
  <2>1. o.w \in Procs /\ Tidy(o.s) /\ GoodList(o.ps)
    BY DEF AllocUse
  <2>2. Tidy(t)
    BY <2>1 DEF SentTo
  <2>3. proc'[o.w] = t
    BY <2>1, OtherWorkers DEF AfsInv, IInv
  <2> QED
    BY <2>1, <2>2, <2>3 DEF Members
<1>2. g \in Members(o.ps) /\ g.w = o.w /\ g.fd # -1 /\ Unowed(g, o.s)
  <2>1. g \in Members(o.ps) /\ g.w = o.w /\ g.fd \in Nat
    BY DEF AllocUse, Members
  <2>2. Unowed(g, o.s)
    <3> HIDE DEF g
    <3> QED
      BY <2>1 DEF AllocUse
  <2>3. g.fd # -1
    <3> HIDE DEF g
    <3> QED
      BY <2>1, SMT
  <2> QED
    BY <2>1, <2>2, <2>3
<1>3. pend \subseteq pend'
  OBVIOUS
<1>4. ASSUME NEW slot \in Members(o.ps), slot.w # o.w
      PROVE  slot \in Members(ps) /\ ([fd |-> slot.fd, kind |-> "reserved"] \in held' => [fd |-> slot.fd, kind |-> "reserved"] \in held)
  BY <1>4, GivenOthers DEF AllocUse
<1>5. \A slot \in Members(ps) : slot.w # o.w /\ slot.fd # -1 => slot \in Members(o.ps)
  BY DEF AllocUse
<1>6. \A q \in pend : \A slot \in Members(ps) : slot.w = o.w => slot.fd # q.fd
  BY AllocOthers
<1>7. op \in UserCmds
  BY DEF UserCmds
<1> HIDE DEF g
<1>8. CalmSlot(g)'
  <2>1. CASE r = "afs_ok"
    <3>1. t.st = "busy" /\ t.cmd = op /\ (op # "open" => Shut(t)) /\ (t.stop => stop_req) /\ g.cmd_after_init = "none"
      BY <1>2, <2>1 DEF SentTo, Unowed
    <3>2. Request_(g.fd, op) \in pend' /\ [fd |-> g.fd, kind |-> "reserved"] \notin held'
      BY <2>1, GivenOthers DEF g
    <3> QED BY <1>1, <1>2, <1>7, <3>1, <3>2 DEF CalmSlot
  <2>2. CASE r # "afs_ok"
    <3>1. Unowed(g, t)
      BY <1>2, <2>2 DEF SentTo, Unowed
    <3> QED BY <1>1, <1>2, <3>1, UnownedCalm
  <2> QED BY <2>1, <2>2
<1>9. \A slot \in Members(o.ps) : slot.w = o.w => CalmSlot(slot)' /\ slot.cmd_after_init = "none"
  BY <1>2, <1>8, AllocOne DEF g, Unowed
<1>10. r = "afs_ok" => Doing(g, op)'
  BY <1>1, <1>2 DEF SentTo, Doing
<1>11. \A q \in pend' : \/ q \in pend
                        \/ \E slot \in Members(o.ps) : slot.fd = q.fd /\ Doing(slot, q.cmd)'
  <2> TAKE q \in pend'
  <2>1. CASE q \notin pend
    <3>1. r = "afs_ok" /\ q = Request_(g.fd, op)
      BY <2>1, SMT DEF g
    <3>2. q.fd = g.fd /\ q.cmd = op
      BY <3>1, SMT DEF Request_
    <3> QED BY <1>2, <1>10, <3>1, <3>2
  <2> QED BY <2>1, SMT
<1>12. \A slot \in Members(ps)' : slot.w # o.w =>
        slot \in Members(ps) /\ ([fd |-> slot.fd, kind |-> "reserved"] \in held' => [fd |-> slot.fd, kind |-> "reserved"] \in held)
  BY <1>1, <1>4
<1>13. \A slot \in Members(ps) : slot.w # o.w /\ slot.fd # -1 => slot \in Members(ps)'
  BY <1>1, <1>5
<1>14. \A slot \in Members(ps)' : slot.w = o.w => CalmSlot(slot)' /\ (slot.cmd_after_init # "none" => t.st = "init_pend")
  BY <1>1, <1>9
<1>15. \A q \in pend' : \/ q \in pend /\ \A slot \in Members(ps) : slot.w = o.w => slot.fd # q.fd
                       \/ \E slot \in Members(ps)' : slot.fd = q.fd /\ Doing(slot, q.cmd)'
  BY <1>1, <1>6, <1>11
<1> QED
  BY <1>1, <1>3, <1>12, <1>13, <1>14, <1>15, CallCalm

(* The list where the command of a slot waits for the start of its worker  *)
WaitsIn(list, i, c, new) ==
  /\ GoodList(new)
  /\ \E g : /\ Members(new) = (Members(list) \ {list[i]}) \cup {g}
            /\ g.w = list[i].w /\ g.fd = list[i].fd /\ g.cmd_after_init = c

(* Storing cmd_after_init replaces one slot.                               *)
LEMMA WaitMembers ==
  ASSUME NEW list, GoodList(list), NEW i \in DOMAIN list, NEW c \in AfterInit,
         NEW new, new = [list EXCEPT ![i].is_avail = FALSE, ![i].cmd_after_init = c]
  PROVE  WaitsIn(list, i, c, new)
<1> DEFINE e == list[i]
           g == [e EXCEPT !.is_avail = FALSE, !.cmd_after_init = c]
<1>1. list \in Seq(Slots) /\ e \in Slots
  BY DEF GoodList
<1>2. new = [list EXCEPT ![i] = g]
  BY <1>1, Zenon
<1>3. GoodList(new)
  BY WaitSlot, Zenon
<1>4. g.w = e.w /\ g.fd = e.fd /\ g.cmd_after_init = c
  <2> HIDE DEF e
  <2> QED BY <1>1 DEF Slots
<1> HIDE DEF g, e
<1>5. OneChanged(list, i, g, new)
  BY <1>1, <1>2 DEF OneChanged
<1>6. Exchanged(Members(list), list[i], g, Members(new))
  BY <1>5, SetMembers, ZenonT(40)
<1> QED
  BY <1>3, <1>4, <1>6, Zenon DEF WaitsIn, Exchanged, e

(* afs_open or afs_mkdir with a worker that has just been started          *)
LEMMA OpenWaitsCalm ==
  ASSUME AfsInv, CalmInv, NEW op \in {"open", "mkdir"}, NEW o, AllocUse(o), o.i # 0, ~o.was_init, UNCHANGED stop_req,
         ps' = [o.ps EXCEPT ![o.i].is_avail = FALSE, ![o.i].cmd_after_init = op], Set(o.w, o.s),
         pend' = pend \cup {Request_(o.ps[o.i].fd, op)}, held' = Given(o.ps[o.i].fd, op)
  PROVE  CalmInv'
<1> USE ZenonT(40)
<1> DEFINE e == o.ps[o.i]
<1>1. o.w \in Procs /\ Tidy(o.s) /\ o.s.st = "init_pend" /\ proc'[o.w] = o.s
  BY OtherWorkers DEF AllocUse, AfsInv, IInv
<1>2. e \in Members(o.ps) /\ e.w = o.w /\ e.fd # -1 /\ Unowed(e, o.s)
  BY SMTT(30), SMT DEF AllocUse, Members
<1>3. PICK g : GoodList(ps') /\ Members(ps)' = (Members(o.ps) \ {e}) \cup {g} /\ g.w = o.w /\ g.fd = e.fd /\ g.cmd_after_init = op
  <2>1. GoodList(o.ps) /\ o.i \in DOMAIN o.ps /\ op \in AfterInit
    BY SMT DEF AllocUse, AfterInit
  <2>2. WaitsIn(o.ps, o.i, op, ps')
    BY <2>1, WaitMembers
  <2> QED BY <1>2, <2>2 DEF WaitsIn, Members
<1>4. ASSUME NEW slot \in Members(o.ps), slot.w # o.w
      PROVE  slot \in Members(ps) /\ ([fd |-> slot.fd, kind |-> "reserved"] \in held' => [fd |-> slot.fd, kind |-> "reserved"] \in held)
  BY <1>4, GivenOthers DEF AllocUse
<1>5. \A slot \in Members(ps) : slot.w # o.w /\ slot.fd # -1 => slot \in Members(o.ps)
  BY SMT DEF AllocUse
<1>6. \A q \in pend : \A slot \in Members(ps) : slot.w = o.w => slot.fd # q.fd
  BY AllocOthers
<1>7. \A slot \in Members(o.ps) : slot.w = o.w => slot = e
  BY AllocOne, SMT
<1> HIDE DEF e
<1>8. Request_(e.fd, op) \in pend' /\ [fd |-> e.fd, kind |-> "reserved"] \notin held'
  BY GivenOthers DEF e
<1>9. CalmSlot(g)'
  BY <1>1, <1>2, <1>3, <1>8 DEF CalmSlot, Unowed
<1>10. Doing(g, op)'
  BY <1>1, <1>3 DEF Doing
<1>11. \A q \in pend' : \/ q \in pend
                        \/ \E slot \in Members(ps)' : slot.fd = q.fd /\ Doing(slot, q.cmd)'
  <2> TAKE q \in pend'
  <2>1. CASE q \notin pend
    <3>1. q = Request_(e.fd, op)
      BY <2>1, SMT DEF e
    <3>2. q.fd = g.fd /\ q.cmd = op
      BY <1>3, <3>1 DEF Request_
    <3> QED BY <1>3, <1>10, <3>2
  <2> QED BY <2>1, SMT
<1>12. \A slot \in Members(ps)' : slot.w = o.w => CalmSlot(slot)' /\ o.s.st = "init_pend"
  BY <1>1, <1>3, <1>7, <1>9
<1>13. \A slot \in Members(ps)' : slot.w # o.w => slot \in Members(o.ps)
  BY <1>3
<1>14. \A slot \in Members(ps) : slot.w # o.w /\ slot.fd # -1 => slot \in Members(ps)'
  BY <1>2, <1>3, <1>5
<1>15. pend \subseteq pend'
  BY SMT
<1> QED
  BY <1>1, <1>3, <1>4, <1>6, <1>11, <1>12, <1>13, <1>14, <1>15, CallCalm

(* afs_open and afs_mkdir                                                  *)
LEMMA OpenUse ==
  ASSUME AfsInv, UseInv, NEW op \in {"open", "mkdir"}, NEW fits, OpenCall(op, fits)
  PROVE  UseInv'
<1> USE ZenonT(40)
<1>1. PICK o \in maybe_alloc_ps_ :
        LET sent == proc_send_cmd_(o.s, op)
            n    == o.ps[o.i].fd
        IN  \/ /\ o.i = 0 \/ ~fits
               /\ Set(o.w, o.s) /\ ps' = o.ps /\ UNCHANGED <<pend, held>>
            \/ /\ o.i # 0 /\ fits /\ o.was_init
               /\ Set(o.w, sent.s) /\ ps' = o.ps
               /\ pend' = IF sent.r = "afs_ok" THEN pend \cup {Request_(n, op)} ELSE pend
               /\ held' = IF sent.r = "afs_ok" THEN Given(n, op) ELSE held
            \/ /\ o.i # 0 /\ fits /\ ~o.was_init
               /\ Set(o.w, o.s)
               /\ ps' = [o.ps EXCEPT ![o.i].is_avail = FALSE, ![o.i].cmd_after_init = op]
               /\ pend' = pend \cup {Request_(n, op)}
               /\ held' = Given(n, op)
  BY DEF OpenCall
<1>2. at = "calls" /\ UNCHANGED <<at, stop_req>> /\ ~Updating /\ ~Updating'
  BY SMT DEF OpenCall, CanCall, loop, Updating
<1>3. CalmInv
  BY <1>2, UseIsCalm
<1>4. AllocUse(o)
  BY <1>1, <1>3, AllocUsable
<1>5. CASE Set(o.w, o.s) /\ ps' = o.ps /\ UNCHANGED <<pend, held>>
  BY <1>2, <1>3, <1>4, <1>5, TakenCalm, CalmIsUse
<1> DEFINE t == proc_send_cmd_(o.s, op).s
           r == proc_send_cmd_(o.s, op).r
<1>6. CASE /\ o.i # 0 /\ Set(o.w, t) /\ ps' = o.ps
           /\ pend' = IF r = "afs_ok" THEN pend \cup {Request_(o.ps[o.i].fd, op)} ELSE pend
           /\ held' = IF r = "afs_ok" THEN Given(o.ps[o.i].fd, op) ELSE held
  <2>1. SentTo(o.s, op, t, r)
    <3>1. op \in Cmds \ {"none"} /\ Good(o.s)
      BY <1>4 DEF Cmds, UserCmds, AllocUse
    <3> QED BY <3>1, SendTidy
  <2> HIDE DEF t, r
  <2>2. CalmInv'
    BY <1>2, <1>3, <1>4, <1>6, <2>1, OpenSentCalm
  <2> QED BY <1>2, <2>2, CalmIsUse
<1>7. CASE /\ o.i # 0 /\ ~o.was_init /\ Set(o.w, o.s)
           /\ ps' = [o.ps EXCEPT ![o.i].is_avail = FALSE, ![o.i].cmd_after_init = op]
           /\ pend' = pend \cup {Request_(o.ps[o.i].fd, op)}
           /\ held' = Given(o.ps[o.i].fd, op)
  <2>1. CalmInv'
    BY <1>2, <1>3, <1>4, <1>7, OpenWaitsCalm
  <2> QED BY <1>2, <2>1, CalmIsUse, SMT
<1> QED
  BY <1>1, <1>5, <1>6, <1>7

(* afs_reserve                                                             *)
LEMMA ReserveUse ==
  ASSUME AfsInv, UseInv, afs_reserve
  PROVE  UseInv'
<1> USE ZenonT(40)
<1>1. PICK o \in maybe_alloc_ps_ :
        Set(o.w, o.s) /\ ps' = o.ps /\ held' = IF o.i = 0 THEN held ELSE Given(o.ps[o.i].fd, "reserved")
  BY DEF afs_reserve
<1>2. at = "calls" /\ UNCHANGED <<at, stop_req, pend>> /\ ~Updating /\ ~Updating'
  BY SMT DEF afs_reserve, CanCall, loop, Updating
<1>3. CalmInv
  BY <1>2, UseIsCalm
<1>4. AllocUse(o)
  BY <1>1, <1>3, AllocUsable
<1>5. held' = held \/ (o.i # 0 /\ held' = Given(o.ps[o.i].fd, "reserved"))
  BY <1>1
<1>6. CalmInv'
  BY <1>1, <1>2, <1>3, <1>4, <1>5, TakenCalm
<1> QED
  BY <1>2, <1>6, CalmIsUse

(* The worker of a descriptor that a polite user may use                   *)
Usable(slot, n) ==
  /\ slot \in Members(ps) /\ slot.fd = n /\ slot.w \in Procs /\ slot.cmd_after_init = "none"
  /\ proc[slot.w].st # "busy" /\ ~proc[slot.w].stop
  /\ \A q \in pend : q.fd # n
  /\ [fd |-> n, kind |-> "reserved"] \in held => Shut(proc[slot.w])

(* A descriptor without a pending request names a slot whose worker is not *)
(* busy and is not asked to stop.                                          *)
LEMMA UsableSlot ==
  ASSUME AfsInv, CalmInv, Polite, NEW op, NEW n, CanUse(op, n), ps_get_(n) # 0
  PROVE  Usable(ps[ps_get_(n)], n)
<1> USE ZenonT(40)
<1> DEFINE slot == ps[ps_get_(n)]
<1>1. GoodList(ps) /\ ps \in Seq(Slots)
  BY SMT DEF AfsInv, CtxInv, ListInv, GoodList
<1>2. slot \in Members(ps) /\ slot.fd = n
  BY <1>1, PsGet DEF Members
<1>3. slot.w \in Procs
  BY <1>1, <1>2, MembersGood
<1>4. ~stop_req /\ \A q \in pend : q.fd # n
  BY SMT DEF CanUse, CanCall
<1>5. \A c : Request_(n, c) \notin pend
  BY <1>4 DEF Request_
<1> HIDE DEF slot
<1>6. CalmSlot(slot)
  BY <1>2 DEF CalmInv
<1>7. Usable(slot, n)
  BY <1>2, <1>3, <1>4, <1>5, <1>6 DEF CalmSlot, Usable
<1> QED
  BY <1>7, SMT DEF slot

(* Storing write_len changes nothing that the calls look at.               *)
LEMMA StoreLen ==
  ASSUME NEW s, Good(s), s.st # "busy", NEW len \in Nat
  PROVE  Good([s EXCEPT !.wlen = len]) /\ Nudged(s, [s EXCEPT !.wlen = len], FALSE) /\ [s EXCEPT !.wlen = len].st = s.st
<1> DEFINE t == [s EXCEPT !.wlen = len]
<1>1. Good(t)
  BY DEF Good, Handshake, Honest, Answerable, InChild, ProcState
<1>2. /\ t.st = s.st /\ t.cmd = s.cmd /\ t.stop = s.stop /\ t.file = s.file /\ t.down = s.down /\ t.pc = s.pc /\ t.ran = s.ran
  BY DEF Good, ProcState
<1> HIDE DEF t
<1>3. Nudged(s, t, FALSE)
  BY <1>2, ZenonT(40) DEF Nudged, Tidy, Shut
<1> QED
  BY <1>1, <1>2, <1>3, Zenon DEF t

(* A command other than "open" is sent for a descriptor.                   *)
LEMMA SentCalm ==
  ASSUME AfsInv, CalmInv, NEW slot, NEW n, n # -1, Usable(slot, n), NEW c \in UserCmds \ {"open"},
         NEW u, Nudged(proc[slot.w], u, FALSE), u.st # "busy", NEW t, NEW r, SentTo(u, c, t, r), Set(slot.w, t),
         c \in {"mkdir", "write_fsync_close"} => Shut(proc[slot.w]), UNCHANGED <<stop_req, held, ps>>,
         pend' = IF r = "afs_ok" THEN pend \cup {Request_(n, c)} ELSE pend
  PROVE  CalmInv'
<1> USE ZenonT(40)
<1>1. slot.w \in Procs /\ GoodList(ps) /\ GoodList(ps') /\ Members(ps)' = Members(ps) /\ proc'[slot.w] = t
  BY OtherWorkers DEF Usable, AfsInv, IInv, Members, CtxInv, ListInv
<1>2. Tidy(t) /\ ~t.stop /\ (Shut(proc[slot.w]) => Shut(t)) /\ t.evs = u.evs
      /\ \/ r = "afs_ok" /\ t.st = "busy" /\ t.cmd = c
         \/ r # "afs_ok" /\ t.st # "busy"
  BY DEF SentTo, Nudged, Usable, CalmInv
<1>3. \A a \in Members(ps) : a.w = slot.w => a = slot
  BY <1>1, MembersGood DEF Usable
<1>4. CalmSlot(slot)'
  <2>1. r = "afs_ok" => Request_(slot.fd, c) \in pend'
    BY DEF Usable
  <2> QED BY <1>1, <1>2, <2>1 DEF CalmSlot, Usable
<1>5. r = "afs_ok" => Doing(slot, c)'
  BY <1>1, <1>2 DEF Doing
<1>6. \A q \in pend' : \/ q \in pend /\ \A a \in Members(ps) : a.w = slot.w => a.fd # q.fd
                       \/ \E a \in Members(ps)' : a.fd = q.fd /\ Doing(a, q.cmd)'
  <2> TAKE q \in pend'
  <2>1. CASE q \in pend
    BY <1>3, <2>1 DEF Usable
  <2>2. CASE q \notin pend
    <3>1. r = "afs_ok" /\ q = Request_(n, c)
      BY <2>2
    <3>2. q.fd = slot.fd /\ q.cmd = c
      BY <3>1 DEF Request_, Usable
    <3> QED BY <1>1, <1>5, <3>1, <3>2 DEF Usable
  <2> QED BY <2>1, <2>2
<1>7. \A a \in Members(ps)' : a.w = slot.w => CalmSlot(a)' /\ a.cmd_after_init = "none"
  BY <1>1, <1>3, <1>4 DEF Usable
<1>8. pend \subseteq pend'
  OBVIOUS
<1>9. \A a \in Members(ps)' : a.w # slot.w =>
        a \in Members(ps) /\ ([fd |-> a.fd, kind |-> "reserved"] \in held' => [fd |-> a.fd, kind |-> "reserved"] \in held)
  BY <1>1
<1>10. \A a \in Members(ps) : a.w # slot.w /\ a.fd # -1 => a \in Members(ps)'
  BY <1>1
<1>11. \A a \in Members(ps)' : a.w = slot.w => CalmSlot(a)' /\ (a.cmd_after_init # "none" => t.st = "init_pend")
  BY <1>7
<1>12. UNCHANGED stop_req
  BY SMT
<1>13. slot.w \in Procs /\ Tidy(t) /\ GoodList(ps')
  BY <1>1, <1>2
<1> QED
  BY <1>6, <1>8, <1>9, <1>10, <1>11, <1>12, <1>13, CallCalm

(* afs_close, afs_fsync, afs_readall and afs_write                         *)
LEMMA FdCallUse ==
  ASSUME AfsInv, UseInv, Polite, NEW op \in {"close", "fsync", "readall", "write"}, NEW n \in Fds, NEW len \in Lens,
         FdCall(op, n, len)
  PROVE  UseInv'
<1> DEFINE slot == ps[ps_get_(n)]
           s == proc[slot.w]
           u == IF op \in LenCmds THEN [s EXCEPT !.wlen = len] ELSE s
           t == proc_send_cmd_(u, op).s
           r == proc_send_cmd_(u, op).r
<1>1. /\ CanUse(op, n) /\ ps_get_(n) # 0 /\ Set(slot.w, t)
      /\ pend' = (IF r = "afs_ok" THEN pend \cup {Request_(n, op)} ELSE pend)
      /\ UNCHANGED <<held, ps, stop_req, at>>
  BY DEF FdCall, ctx, loop
<1>2. at = "calls" /\ ~Updating /\ ~Updating' /\ n # -1
  BY <1>1 DEF CanUse, CanCall, Updating, Fds
<1>3. CalmInv
  BY <1>2, UseIsCalm, ZenonT(40)
<1>4. Usable(slot, n)
  BY <1>1, <1>3, UsableSlot, ZenonT(40)
<1>5. Good(s) /\ s.st # "busy" /\ len \in Nat /\ op \in Cmds \ {"none"} /\ op \in UserCmds \ {"open"}
  BY <1>4, LensAssumption DEF Usable, AfsInv, IInv, Cmds, UserCmds
<1> HIDE DEF slot, s
<1>6. Good(u) /\ Nudged(s, u, FALSE) /\ u.st # "busy"
  <2>1. Good([s EXCEPT !.wlen = len]) /\ Nudged(s, [s EXCEPT !.wlen = len], FALSE) /\ [s EXCEPT !.wlen = len].st = s.st
    BY <1>5, StoreLen, ZenonT(40)
  <2>2. Nudged(s, s, FALSE)
    BY DEF Nudged
  <2> QED BY <1>5, <2>1, <2>2, Zenon
<1> HIDE DEF u
<1>7. SentTo(u, op, t, r)
  BY <1>5, <1>6, SendTidy
<1> HIDE DEF t, r
<1>8. CalmInv'
  BY <1>1, <1>2, <1>3, <1>4, <1>5, <1>6, <1>7, SentCalm, ZenonT(40) DEF s
<1> QED
  BY <1>1, <1>2, <1>8, CalmIsUse, ZenonT(40)

(* afs_write_fsync_close waits for the start of the worker.                *)
LEMMA WaitCalm ==
  ASSUME AfsInv, CalmInv, NEW slot, NEW n, n # -1, Usable(slot, n), NEW u, Nudged(proc[slot.w], u, FALSE),
         u.st = "init_pend", Set(slot.w, u), Shut(proc[slot.w]), UNCHANGED <<stop_req, held>>,
         NEW g, GoodList(ps'), Members(ps)' = (Members(ps) \ {slot}) \cup {g},
         g.w = slot.w, g.fd = slot.fd, g.cmd_after_init = "write_fsync_close",
         pend' = pend \cup {Request_(n, "write_fsync_close")}
  PROVE  CalmInv'
<1> USE ZenonT(40)
<1>1. slot.w \in Procs /\ GoodList(ps) /\ proc'[slot.w] = u
  BY OtherWorkers DEF Usable, AfsInv, IInv, CtxInv, ListInv
<1>2. Tidy(u) /\ ~u.stop /\ Shut(u)
  BY <1>1 DEF Nudged, Usable, CalmInv
<1>3. \A a \in Members(ps) : a.w = slot.w => a = slot
  BY <1>1, MembersGood DEF Usable
<1>4. Request_(g.fd, "write_fsync_close") \in pend'
  BY DEF Usable
<1>5. CalmSlot(g)'
  BY <1>1, <1>2, <1>4 DEF CalmSlot, Usable
<1>6. Doing(g, "write_fsync_close")'
  BY <1>1 DEF Doing
<1>7. \A q \in pend' : \/ q \in pend /\ \A a \in Members(ps) : a.w = slot.w => a.fd # q.fd
                       \/ \E a \in Members(ps)' : a.fd = q.fd /\ Doing(a, q.cmd)'
  <2> TAKE q \in pend'
  <2>1. CASE q \in pend
    BY <1>3, <2>1 DEF Usable
  <2>2. CASE q \notin pend
    <3>1. q = Request_(n, "write_fsync_close")
      BY <2>2
    <3>2. q.fd = g.fd /\ q.cmd = "write_fsync_close"
      BY <3>1 DEF Request_, Usable
    <3> QED BY <1>6, <3>2
  <2> QED BY <2>1, <2>2
<1>8. \A a \in Members(ps)' : a.w = slot.w => CalmSlot(a)' /\ u.st = "init_pend"
  BY <1>3, <1>5
<1>9. \A a \in Members(ps)' : a.w # slot.w => a \in Members(ps)
  BY SMT
<1>10. \A a \in Members(ps) : a.w # slot.w => a \in Members(ps)'
  BY SMT
<1>11. pend \subseteq pend'
  BY SMT
<1> QED
  BY <1>1, <1>2, <1>7, <1>8, <1>9, <1>10, <1>11, CallCalm

(* afs_write_fsync_close                                                   *)
LEMMA WfcUse ==
  ASSUME AfsInv, UseInv, Polite, NEW n \in Fds, NEW len \in Lens, afs_write_fsync_close(n, len)
  PROVE  UseInv'
<1> USE ZenonT(40)
<1> DEFINE i == ps_get_(n)
           slot == ps[i]
           s == proc[slot.w]
           u == [s EXCEPT !.wlen = len]
           t == proc_send_cmd_(u, "write_fsync_close").s
           r == proc_send_cmd_(u, "write_fsync_close").r
           new == [ps EXCEPT ![i].is_avail = FALSE, ![i].cmd_after_init = "write_fsync_close"]
<1>1. /\ CanUse("write_fsync_close", n) /\ i # 0 /\ Set(slot.w, t)
      /\ ps' = (IF s.st = "init_pend" THEN new ELSE ps)
      /\ pend' = (IF s.st = "init_pend" \/ r = "afs_ok" THEN pend \cup {Request_(n, "write_fsync_close")} ELSE pend)
      /\ UNCHANGED <<held, stop_req, at>>
  BY SMT DEF afs_write_fsync_close, loop
<1>2. at = "calls" /\ ~Updating /\ ~Updating' /\ n # -1
  BY <1>1, SMT DEF CanUse, CanCall, Updating, Fds
<1>3. CalmInv
  BY <1>2, UseIsCalm
<1>4. Usable(slot, n)
  BY <1>1, <1>3, UsableSlot
<1>5. Good(s) /\ s.st # "busy" /\ len \in Nat /\ "write_fsync_close" \in Cmds \ {"none"} /\ "write_fsync_close" \in UserCmds \ {"open"}
  BY <1>4, LensAssumption DEF Usable, AfsInv, IInv, Cmds, UserCmds
<1>6. Shut(s)
  BY <1>1, <1>4 DEF CanUse, Holds, Usable
<1>7. i \in DOMAIN ps /\ GoodList(ps)
  BY <1>1, PsGet, SMT DEF AfsInv, CtxInv, ListInv, GoodList
<1> HIDE DEF slot, s, i
<1>8. Good(u) /\ Nudged(s, u, FALSE) /\ u.st = s.st
  BY <1>5, StoreLen
<1> HIDE DEF u
<1>9. SentTo(u, "write_fsync_close", t, r)
  BY <1>5, <1>8, SendTidy, SMT
<1> HIDE DEF t, r
<1>10. CASE s.st # "init_pend"
  <2>1. CalmInv'
    BY <1>1, <1>2, <1>3, <1>4, <1>5, <1>6, <1>8, <1>9, <1>10, SentCalm DEF s
  <2> QED BY <1>1, <1>2, <2>1, CalmIsUse, SMTT(30)
<1>11. CASE s.st = "init_pend"
  <2>1. t = u
    BY <1>8, <1>9, <1>11 DEF SentTo
  <2>2. "write_fsync_close" \in AfterInit
    BY DEF AfterInit
  <2>3. WaitsIn(ps, i, "write_fsync_close", ps')
    <3>1. ps' = new
      BY <1>1, <1>11
    <3> QED BY <1>7, <2>2, <3>1, WaitMembers
  <2> HIDE DEF new
  <2>4. PICK g : GoodList(ps') /\ Members(ps') = (Members(ps) \ {slot}) \cup {g}
                 /\ g.w = slot.w /\ g.fd = slot.fd /\ g.cmd_after_init = "write_fsync_close"
    BY <2>3, SMT DEF WaitsIn, slot
  <2>5. Members(ps)' = Members(ps')
    BY DEF Members
  <2>6. CalmInv'
    BY <1>1, <1>2, <1>3, <1>4, <1>6, <1>8, <1>11, <2>1, <2>4, <2>5, WaitCalm DEF s
  <2> QED BY <1>1, <1>2, <2>6, CalmIsUse
<1> QED
  BY <1>10, <1>11

(* afs_stop and afs_init                                                   *)
LEMMA StopUse ==
  ASSUME AfsInv, UseInv, afs_stop \/ afs_init
  PROVE  UseInv'
<1>1. UNCHANGED proc /\ ps' = <<>> /\ pend' = {} /\ at' \in {"stopped", "calls"}
  BY DEF afs_stop, afs_init, UseInv, user
<1>2. Members(ps)' = {}
  BY <1>1, SMTT(30) DEF Members
<1>3. CalmInv' /\ ~Updating'
  BY <1>1, <1>2 DEF CalmInv, UseInv, Updating
<1> QED
  BY <1>1, <1>3, CalmIsUse, ZenonT(40)
============================================================================
