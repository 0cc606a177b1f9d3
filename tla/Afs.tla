-------------------------------- MODULE Afs --------------------------------
(***************************************************************************)
(* The afs context: the list of slots (struct ps_), each with one worker   *)
(* of AfsProc, the calls of its user and the event loop                    *)
(*                                                                         *)
(*    afs_pollfds; poll; afs_update; afs_evs; calls; afs_pollfds; ...      *)
(*                                                                         *)
(* The loops over the list, of afs_stop_prep, poll() and afs_update, visit *)
(* one slot per step (todo holds the ones to come), because the children   *)
(* run meanwhile.  A step changes at most one worker, so that Afs is shown *)
(* to implement AfsProc.                                                   *)
(***************************************************************************)
EXTENDS AfsProc, Integers, FiniteSets

CONSTANTS Ops,       \* the operations that the user calls
          Polite,    \* TRUE: the user keeps the rules of CanCall and CanStop
          MaxCalls   \* bound: calls in a behaviour

ASSUME AfsAssumption == Ops \subseteq UserCmds \cup {"reserve"} /\ MaxCalls \in Nat /\ Polite \in BOOLEAN

VARIABLES ps,        \* c->ps, the list of slots
          evs,       \* c->evs, evs_len of them
          lim,       \* c->evs_maxlen and c->pfds_maxlen
          stop_req,  \* c->is_stop_req
          at,        \* where the program is
          todo,      \* the workers of the slots that a loop has yet to visit
          res,       \* what proc_update_ returned for the first of them
          pend,      \* history: accepted requests without an event
          held,      \* history: descriptors that the user was given
          calls      \* calls made so far

ctx == <<ps, evs, lim>>
loop == <<stop_req, at, todo, res>>
user == <<pend, held, calls>>
afsvars == <<proc, ps, evs, lim, stop_req, at, todo, res, pend, held, calls>>

AfterInit == {"none", "open", "mkdir", "write_fsync_close"}

Slot(worker, n) == [w |-> worker, fd |-> n, cmd_after_init |-> "none", is_avail |-> FALSE]
Slots == [w : Procs, fd : Nat \cup {-1}, cmd_after_init : AfterInit, is_avail : BOOLEAN]

AfsEvent(n, e) == [fd |-> n, cmd |-> e.cmd, ok |-> e.ok, len |-> e.len]
StopEvent == AfsEvent(-1, Event("exit", TRUE, 0))
AfsEvents == [fd : Nat \cup {-1}, cmd : Cmds, ok : BOOLEAN, len : Nat]

Request_(n, c) == [fd |-> n, cmd |-> c]
----------------------------------------------------------------------------
(***************************************************************************)
(* The list                                                                *)
(***************************************************************************)

(* The first slot with this fd, 0 for NULL                                 *)
ps_get_(n) ==
  LET hits == {i \in DOMAIN ps : ps[i].fd = n}
  IN  IF hits = {} THEN 0 ELSE CHOOSE i \in hits : \A j \in hits : i <= j

ps_del_(list, n) ==
  LET hits == {i \in DOMAIN list : list[i].fd = n}
      k    == CHOOSE i \in hits : \A j \in hits : i <= j
  IN  IF hits = {} THEN list
      ELSE [i \in 1..Len(list) - 1 |-> IF i < k THEN list[i] ELSE list[i + 1]]

(* Mutant: the number of slots serves as the next descriptor.              *)
NextFdIsLen == Len(ps)

ps_next_fd_ ==
  CHOOSE n \in {0} \cup {ps[i].fd + 1 : i \in DOMAIN ps} : \A i \in DOMAIN ps : ps[i].fd < n

evs_pfds_prealloc_len_ == 2

(* Mutants: an event array of one entry per slot; pfds one too short.      *)
OneEvPerSlot(n) ==
  [pfds |-> IF lim.pfds < n THEN n + evs_pfds_prealloc_len_ ELSE lim.pfds,
   evs  |-> IF lim.evs < n THEN n ELSE lim.evs]
PfdsOffByOne(n) ==
  [pfds |-> IF lim.pfds < n - 1 THEN n + evs_pfds_prealloc_len_ ELSE lim.pfds,
   evs  |-> IF lim.evs < n * proc_evs_maxlen_ THEN (n + evs_pfds_prealloc_len_) * proc_evs_maxlen_ ELSE lim.evs]

(* The arrays after ps_add_ made room for n slots                          *)
Grown(n) ==
  [pfds |-> IF lim.pfds < n THEN n + evs_pfds_prealloc_len_ ELSE lim.pfds,
   evs  |-> IF lim.evs < n * proc_evs_maxlen_ THEN (n + evs_pfds_prealloc_len_) * proc_evs_maxlen_ ELSE lim.evs]

(* What malloc can return                                                  *)
Fresh == {w \in Procs : proc[w].st = "uninit" /\ \A i \in DOMAIN ps : ps[i].w # w}

(* The outcomes of maybe_alloc_ps_: the list, the arrays, the worker that  *)
(* it touched and its new state, the slot (0 for NULL) and *was_init_out.  *)
Alloc(list, room, worker, state, index, init) ==
  [ps |-> list, lim |-> room, w |-> worker, s |-> state, i |-> index, was_init |-> init]

(* Mutants: the free slot gets no number; its live worker is forked again. *)
ReuseUnnumbered(i) ==
  LET w == ps[i].w IN
  IF proc[w].st # "uninit" THEN {Alloc(ps, lim, w, proc[w], i, TRUE)} ELSE {}
ReuseForks(i) ==
  LET mine == [ps EXCEPT ![i].fd = ps_next_fd_] IN
  {Alloc(mine, lim, ps[i].w, o.s, i, FALSE) : o \in proc_init_(proc[ps[i].w])}

Reuse(i) ==
  LET w    == ps[i].w
      mine == [ps EXCEPT ![i].fd = ps_next_fd_]
  IN  IF proc[w].st # "uninit" THEN {Alloc(mine, lim, w, proc[w], i, TRUE)}
      ELSE {IF o.r = "afs_ok" THEN Alloc(mine, lim, w, o.s, i, FALSE)
            ELSE Alloc(ps_del_(ps, -1), lim, w, o.s, 0, FALSE) : o \in proc_init_(proc[w])}

(* malloc may fail for the slot, for pfds or, once pfds is replaced, for evs *)
ps_add_(w) ==
  LET room == Grown(Len(ps) + 1)
      list == Append(ps, Slot(w, ps_next_fd_))
  IN  {Alloc(ps, lim, w, proc[w], 0, FALSE),
       Alloc(ps, [lim EXCEPT !.pfds = room.pfds], w, proc[w], 0, FALSE)} \cup
      {IF o.r = "afs_ok" THEN Alloc(list, room, w, o.s, Len(list), FALSE)
       ELSE Alloc(ps, room, w, o.s, 0, FALSE) : o \in proc_init_(proc[w])}

maybe_alloc_ps_ ==
  LET i == ps_get_(-1) IN
  IF i # 0 THEN Reuse(i) ELSE UNION {ps_add_(w) : w \in Fresh}

(* New arrays are zeroed, and evs_len is kept.                             *)
Keep(o) ==
  /\ lim' = o.lim
  /\ evs' = IF o.lim.evs = lim.evs THEN evs
            ELSE [i \in DOMAIN evs |-> AfsEvent(0, Event("none", TRUE, 0))]
----------------------------------------------------------------------------
(***************************************************************************)
(* The calls.  A polite user stops calling after afs_stop_prep, uses a     *)
(* descriptor it was given, only after the event of its last request, and  *)
(* afs_write_fsync_close only with a reserved one.                         *)
(***************************************************************************)
Holds(n, kind) == [fd |-> n, kind |-> kind] \in held

(* A number that is handed out again stands for what it was handed out for *)
(* last.                                                                   *)
Given(n, kind) == {h \in held : h.fd # n} \cup {[fd |-> n, kind |-> kind]}

CanCall(op) == at = "calls" /\ calls < MaxCalls /\ op \in Ops /\ (Polite => ~stop_req)

CanUse(op, n) ==
  /\ CanCall(op)
  /\ Polite => /\ \A q \in pend : q.fd # n
               /\ Holds(n, IF op = "write_fsync_close" THEN "reserved" ELSE "open")

(* afs_open and afs_mkdir.  A path too long is found out after the slot is *)
(* taken.                                                                  *)
OpenCall(op, fits) ==
  /\ CanCall(op)
  /\ \E o \in maybe_alloc_ps_ :
       LET sent == proc_send_cmd_(o.s, op)
           n    == o.ps[o.i].fd
       IN  /\ Keep(o)
           /\ \/ /\ o.i = 0 \/ ~fits
                 /\ Set(o.w, o.s) /\ ps' = o.ps /\ UNCHANGED <<pend, held>>
              \/ /\ o.i # 0 /\ fits /\ o.was_init
                 /\ Set(o.w, sent.s) /\ ps' = o.ps
                 /\ pend' = IF sent.r = "afs_ok" THEN pend \cup {Request_(n, op)} ELSE pend
                 /\ held' = IF sent.r = "afs_ok" THEN Given(n, op) ELSE held
              \/ /\ o.i # 0 /\ fits /\ ~o.was_init
                 /\ Set(o.w, o.s)
                 /\ ps' = [o.ps EXCEPT ![o.i].is_avail = FALSE, ![o.i].cmd_after_init = op]
                 /\ pend' = pend \cup {Request_(n, op)}
                 /\ held' = Given(n, op)
  /\ calls' = calls + 1
  /\ UNCHANGED loop

afs_open(fits) == OpenCall("open", fits)
afs_mkdir(fits) == OpenCall("mkdir", fits)

afs_reserve ==
  /\ CanCall("reserve")
  /\ \E o \in maybe_alloc_ps_ :
       /\ Keep(o)
       /\ Set(o.w, o.s) /\ ps' = o.ps
       /\ held' = IF o.i = 0 THEN held ELSE Given(o.ps[o.i].fd, "reserved")
  /\ calls' = calls + 1
  /\ UNCHANGED <<pend, loop>>

(* afs_close, afs_fsync, afs_write and afs_readall of an open descriptor.  *)
(* afs_write stores write_len whether or not the command can be sent.      *)
FdCall(op, n, len) ==
  LET i == ps_get_(n)
      w == ps[i].w
      sent == proc_send_cmd_(IF op \in LenCmds THEN [proc[w] EXCEPT !.wlen = len] ELSE proc[w], op)
  IN  /\ CanUse(op, n)
      /\ i # 0 /\ ps[i].is_avail /\ proc[w].st # "uninit"
      /\ Set(w, sent.s)
      /\ pend' = IF sent.r = "afs_ok" THEN pend \cup {Request_(n, op)} ELSE pend
      /\ calls' = calls + 1
      /\ UNCHANGED <<held, ctx, loop>>

afs_close(n) == FdCall("close", n, 0)
afs_fsync(n) == FdCall("fsync", n, 0)
afs_readall(n) == FdCall("readall", n, 0)
afs_write(n, len) == FdCall("write", n, len)

(* It stores its arguments in the page, and then sends, or waits for the   *)
(* worker to start, or fails.                                              *)
afs_write_fsync_close(n, len) ==
  LET i == ps_get_(n)
      w == ps[i].w
      sent == proc_send_cmd_([proc[w] EXCEPT !.wlen = len], "write_fsync_close")
      soon == proc[w].st = "init_pend"
  IN  /\ CanUse("write_fsync_close", n)
      /\ i # 0 /\ proc[w].st # "uninit"
      /\ Set(w, sent.s)
      /\ ps' = IF soon THEN [ps EXCEPT ![i].is_avail = FALSE, ![i].cmd_after_init = "write_fsync_close"]
                       ELSE ps
      /\ pend' = IF soon \/ sent.r = "afs_ok" THEN pend \cup {Request_(n, "write_fsync_close")} ELSE pend
      /\ calls' = calls + 1
      /\ UNCHANGED <<held, evs, lim, loop>>

Workers == [i \in DOMAIN ps |-> ps[i].w]

(* A polite user stops a context that has had a slot.                      *)
CanStop == at = "calls" /\ ~stop_req /\ (Polite => lim.evs > 0)

afs_stop_prep ==
  /\ CanStop
  /\ stop_req' = TRUE /\ at' = "stop_prep" /\ todo' = Workers
  /\ UNCHANGED <<proc, res, ctx, user>>

StopPrepSlot ==
  /\ at = "stop_prep" /\ todo # <<>>
  /\ ProcStopPrep(Head(todo)) /\ todo' = Tail(todo)
  /\ UNCHANGED <<stop_req, at, res, ctx, user>>

StopPrepDone ==
  /\ at = "stop_prep" /\ todo = <<>> /\ at' = "calls"
  /\ UNCHANGED <<proc, stop_req, todo, res, ctx, user>>

(* Polite: only after afs_ev_stop.  A slot is freed even when proc_stop_   *)
(* says that its worker is not ready.                                      *)
afs_stop ==
  /\ at = "calls" /\ (Polite => \E i \in DOMAIN evs : evs[i] = StopEvent)
  /\ at' = "stopped" /\ ps' = <<>> /\ evs' = <<>> /\ lim' = [pfds |-> 0, evs |-> 0]
  /\ pend' = {} /\ held' = {}
  /\ UNCHANGED <<proc, stop_req, todo, res, calls>>

afs_init ==
  /\ at = "stopped" /\ at' = "calls" /\ stop_req' = FALSE
  /\ ps' = <<>> /\ evs' = <<>> /\ lim' = [pfds |-> 0, evs |-> 0]
  /\ UNCHANGED <<proc, todo, res, user>>
----------------------------------------------------------------------------
(***************************************************************************)
(* The event loop                                                          *)
(***************************************************************************)
afs_pollfds ==
  /\ at = "calls" /\ at' = "poll" /\ todo' = Workers
  /\ UNCHANGED <<proc, stop_req, res, ctx, user>>

PollSlot ==
  /\ at = "poll" /\ todo # <<>>
  /\ Poll(Head(todo)) /\ todo' = Tail(todo)
  /\ UNCHANGED <<stop_req, at, res, ctx, user>>

UpdateStart ==
  /\ at = "poll" /\ todo = <<>>
  /\ at' = "update" /\ todo' = Workers /\ evs' = <<>>
  /\ UNCHANGED <<proc, stop_req, res, ps, lim, user>>

UpdateSlot ==
  /\ at = "update" /\ todo # <<>>
  /\ ProcUpdate(Head(todo)) /\ res' = proc_update_(proc[Head(todo)]).r
  /\ at' = "forward"
  /\ UNCHANGED <<stop_req, todo, ctx, user>>

(* What an event of the worker does to its slot                            *)
Noted(slot, e) ==
  CASE e.cmd = "none" /\ e.ok  -> [slot EXCEPT !.is_avail = TRUE, !.cmd_after_init = "none"]
    [] e.cmd = "none" /\ ~e.ok -> [slot EXCEPT !.cmd_after_init = "none"]
    [] e.cmd \in {"close", "mkdir", "write_fsync_close"} -> [slot EXCEPT !.fd = -1]
    [] e.cmd = "exit"          -> [slot EXCEPT !.fd = -1, !.is_avail = FALSE]
    [] OTHER                   -> slot

(* The events of a worker are at most two, and then the second is "exit".  *)
NotedAll(slot, es) ==
  CASE es = <<>>    -> slot
    [] Len(es) = 1  -> Noted(slot, es[1])
    [] OTHER        -> Noted(Noted(slot, es[1]), es[2])

(* Mutants: a failed start is not reported; internal events are passed on. *)
ToldNoStartFail(slot, es) ==
  IF es = <<>> \/ es[1].cmd \in {"exit", "none"} THEN <<>> ELSE <<AfsEvent(slot.fd, es[1])>>
ToldAll(slot, es) ==
  IF es = <<>> THEN <<>>
  ELSE IF es[1].cmd = "none" /\ ~es[1].ok THEN <<AfsEvent(slot.fd, proc_cmd_fail_ev_(slot.cmd_after_init))>>
  ELSE <<AfsEvent(slot.fd, es[1])>>

(* What it tells the user: a failed start fails the command that waits,    *)
(* an exit nothing.                                                        *)
Told(slot, es) ==
  IF es = <<>> \/ es[1].cmd = "exit" THEN <<>>
  ELSE IF es[1].cmd # "none" THEN <<AfsEvent(slot.fd, es[1])>>
  ELSE IF ~es[1].ok /\ slot.cmd_after_init # "none"
       THEN <<AfsEvent(slot.fd, proc_cmd_fail_ev_(slot.cmd_after_init))>>
  ELSE <<>>

Forward ==
  LET w     == Head(todo)
      i     == CHOOSE j \in DOMAIN ps : ps[j].w = w
      slot  == ps[i]
      es    == proc[w].evs
      noted == NotedAll(slot, es)
      list  == [ps EXCEPT ![i] = noted]
      begun == es # <<>> /\ es[1].cmd = "none" /\ es[1].ok /\ slot.cmd_after_init # "none"
      sent  == proc_send_cmd_(proc[w], slot.cmd_after_init)
      gone  == res # "afs_ok" \/ (es # <<>> /\ es[1].cmd = "none" /\ ~es[1].ok)
  IN  /\ at = "forward"
      /\ \/ begun /\ Set(w, sent.s)
            /\ evs' = IF sent.r = "afs_ok" THEN evs
                      ELSE Append(evs, AfsEvent(slot.fd, proc_cmd_fail_ev_(slot.cmd_after_init)))
         \/ ~begun /\ UNCHANGED proc /\ evs' = evs \o Told(slot, es)
      /\ ps' = IF gone THEN ps_del_(list, noted.fd) ELSE list
      /\ at' = "update" /\ todo' = Tail(todo)
      /\ UNCHANGED <<stop_req, res, lim, user>>

(* The end of afs_update; the user then reads the events.                  *)
Closes == {"close", "mkdir", "write_fsync_close"}

UpdateDone ==
  LET stopped == stop_req /\ \A i \in DOMAIN ps : proc[ps[i].w].st = "uninit"
      all     == IF stopped THEN Append(evs, StopEvent) ELSE evs
      Seen(n, cmds) == \E i \in DOMAIN all : all[i].fd = n /\ all[i].cmd \in cmds
  IN  /\ at = "update" /\ todo = <<>>
      /\ evs' = all /\ at' = "calls"
      /\ pend' = {q \in pend : ~Seen(q.fd, {q.cmd})}
      /\ held' = {h \in held : ~Seen(h.fd, Closes)}
      /\ UNCHANGED <<proc, ps, lim, stop_req, todo, res, calls>>
----------------------------------------------------------------------------
Fds == {ps[i].fd : i \in DOMAIN ps} \ {-1}

UserCall ==
  \/ \E fits \in BOOLEAN : afs_open(fits) \/ afs_mkdir(fits)
  \/ afs_reserve
  \/ \E n \in Fds : \/ afs_close(n) \/ afs_fsync(n) \/ afs_readall(n)
                    \/ \E len \in Lens : afs_write(n, len) \/ afs_write_fsync_close(n, len)
  \/ afs_stop_prep \/ afs_stop \/ afs_init

Loop == \/ StopPrepSlot \/ StopPrepDone
        \/ afs_pollfds \/ PollSlot \/ UpdateStart \/ UpdateSlot \/ Forward \/ UpdateDone

AfsInit ==
  /\ Init
  /\ ps = <<>> /\ evs = <<>> /\ lim = [pfds |-> 0, evs |-> 0]
  /\ stop_req = FALSE /\ at = "calls" /\ todo = <<>> /\ res = "afs_ok"
  /\ pend = {} /\ held = {} /\ calls = 0

Children == \E w \in Procs : (Child(w) \/ ChildDie(w)) /\ UNCHANGED <<ctx, loop, user>>

AfsNext == UserCall \/ Loop \/ Children

AfsSpec == AfsInit /\ [][AfsNext]_afsvars

(* The loop runs on; the operating system runs the children.               *)
AfsFairness ==
  /\ WF_afsvars(Loop)
  /\ \A w \in Procs : WF_afsvars(Child(w) /\ UNCHANGED <<ctx, loop, user>>)

AfsFairSpec == AfsSpec /\ AfsFairness
----------------------------------------------------------------------------
(***************************************************************************)
(* Properties                                                              *)
(***************************************************************************)

(* Every variable holds a value of its C type.                             *)
AfsTypeOK ==
  /\ TypeOK
  /\ ps \in Seq(Slots) /\ evs \in Seq(AfsEvents) /\ lim \in [pfds : Nat, evs : Nat]
  /\ stop_req \in BOOLEAN /\ todo \in Seq(Procs) /\ res \in Results
  /\ at \in {"calls", "stop_prep", "poll", "update", "forward", "stopped"}
  /\ pend \subseteq [fd : Nat, cmd : UserCmds]
  /\ held \subseteq [fd : Nat, kind : {"open", "mkdir", "reserved"}]
  /\ calls \in 0..MaxCalls

(* A descriptor names one slot (ps_next_fd_ and the loops that reset it),  *)
(* and a worker is in one slot.                                            *)
UniqueFds ==
  \A i, j \in DOMAIN ps :
    i # j => ps[i].w # ps[j].w /\ (ps[i].fd # ps[j].fd \/ ps[i].fd = -1)

(* The array that ps_add_ grew has room for the events that one afs_update *)
(* forwards: SOB_PANIC("evs overflow ...") (afs.c:201) does not fire.      *)
EvsFit == Len(evs) <= lim.evs

(* The same of the array of afs_pollfds: "not enough pfds" (afs.c:599)     *)
(* does not fire however many slots ps_add_ and ps_del_ left.              *)
PfdsFit == Len(ps) <= lim.pfds

(* No accepted request is forgotten, whatever slots afs_update deletes:    *)
(* its slot is there, and waits for the start of the worker, or the worker *)
(* is at it, or its event is in evs.                                       *)
Working(i, c) ==
  \/ ps[i].cmd_after_init = c
  \/ proc[ps[i].w].st = "busy" /\ proc[ps[i].w].cmd = c
  \/ \E k \in DOMAIN proc[ps[i].w].evs : proc[ps[i].w].evs[k].cmd = c

NoLostRequest ==
  \A q \in pend : \/ \E i \in DOMAIN ps : ps[i].fd = q.fd /\ Working(i, q.cmd)
                  \/ \E k \in DOMAIN evs : evs[k].fd = q.fd /\ evs[k].cmd = q.cmd

(* Every event that the user reads answers one of their requests, and no   *)
(* request is answered twice.                                              *)
EventsWereAsked ==
  [][at = "update" /\ at' = "calls" =>
       /\ \A k \in DOMAIN evs : Request_(evs[k].fd, evs[k].cmd) \in pend
       /\ \A k, m \in DOMAIN evs : k # m => evs[k].fd # evs[m].fd]_afsvars

(* A worker that is free for reuse has no file open, so that the next      *)
(* afs_open does not fail with "already open" (afs.c:1341).                *)
FreeHasNoFile ==
  \A i \in DOMAIN ps : ps[i].fd = -1 /\ proc[ps[i].w].st = "avail" => ~proc[ps[i].w].file

(* Every accepted request gets its event from some later afs_update.       *)
Completed == \A n \in 0..Cardinality(Procs), c \in UserCmds :
               Request_(n, c) \in pend ~> Request_(n, c) \notin pend

(* afs_stop_prep is followed by afs_ev_stop, whatever state each worker is *)
(* in when it is asked to exit.                                            *)
StopReported == (stop_req /\ at # "stopped") ~> (\E k \in DOMAIN evs : evs[k] = StopEvent) \/ at = "stopped"

(* The composition drives its workers only in ways that AfsProc describes. *)
ImplementsProc == Spec

(* "will del same ps because we iterate same way as ps_del_" (afs.c:308)   *)
DelSamePs ==
  [][at = "forward" => \A i \in DOMAIN ps :
       ps[i].w # Head(todo) => \E j \in DOMAIN ps' : ps'[j].w = ps[i].w]_afsvars
============================================================================
