---------------------------- MODULE HttpsProofs ----------------------------
(***************************************************************************)
(* For any sockets, any room in m->fds above what curl watches at a time,  *)
(* and any user: the invariants of Https and NoReqAfterStop.               *)
(***************************************************************************)
EXTENDS Https, FiniteSetTheorems, TLAPS

(* What curl asked for, the timer with the sockets                         *)
Asked(c) == [x \in Fds |-> IF x = "timerfd" THEN (IF c.timer THEN "IN" ELSE "no") ELSE c.want[x]]

Good(f) == f \in [a : [1..fds_maxlen_ -> Entries], n : 0..fds_maxlen_]

(* The entries of f are what is asked for, one for each.                   *)
Sync(f, asked) ==
  /\ \A k \in 1..f.n : f.a[k].fd \in Fds /\ asked[f.a[k].fd] # "no" /\ f.a[k].events = asked[f.a[k].fd]
  /\ \A x \in Fds : asked[x] # "no" => \E k \in 1..f.n : f.a[k].fd = x
  /\ \A k, l \in 1..f.n : f.a[k].fd = f.a[l].fd => k = l

Curls == [attached : BOOLEAN, run : {"off", "active", "ok", "fail"}, want : [Socks -> PollEvents \cup {"no"}],
          timer : BOOLEAN, failed : BOOLEAN]

Walk == {"scan", "curl", "info"}

(* The walk of https_update: what it has added to evs, and where it is     *)
WalkInv ==
  /\ at \in Walk => \/ st = "pend" /\ evs = <<>>
                    \/ st = "err" /\ Len(evs) = 1 /\ curl.run = "off"
  /\ at \in Walk => i <= nfds + 1
  /\ at \in {"curl", "info"} => i <= nfds
  /\ at \notin Walk => i = 1

(* Between requests, and once a stop has been asked for                    *)
ReqInv ==
  user # "none" =>
    /\ st # "uninit"
    /\ st \in {"just_init", "idle"} => curl = NoCurl
    /\ user = "stopping" => \/ st = "stopped"
                            \/ is_stop_waiting /\ st \in {"pend", "err"}
    /\ is_stop_waiting => user = "stopping"

ArrayInv == user # "none" => Sync(Array, Asked(curl)) /\ Cardinality(WatchedSocks) <= MaxSocks

DataType ==
  /\ evs \in Seq(EvTypes) /\ Len(evs) <= 3
  /\ fds \in [1..fds_maxlen_ -> Entries] /\ fds_len \in 0..fds_maxlen_
  /\ curl \in Curls

ControlType ==
  /\ st \in States /\ stop_strat \in {"abort", "wait"} /\ is_stop_waiting \in BOOLEAN
  /\ at \in Walk \cup {"calls", "poll", "update"}
  /\ i \in Nat /\ i >= 1 /\ nfds \in 0..fds_maxlen_
  /\ user \in {"none", "ready", "stopping"} /\ (user = "none" => at = "calls")

TypeInv == DataType /\ ControlType

IInv == TypeInv /\ WalkInv /\ ReqInv /\ ArrayInv
----------------------------------------------------------------------------
(* set_fd_ of what was not listed appends it, of what was changes it.      *)
LEMMA SetSync ==
  ASSUME NEW f, Good(f), NEW asked, Sync(f, asked), NEW fd \in Fds, NEW events \in PollEvents,
         NEW asked2, \A x \in Fds : asked2[x] = IF x = fd THEN events ELSE asked[x],
         asked[fd] = "no" => f.n < fds_maxlen_
  PROVE  Good(set_fd_(f, fd, events)) /\ Sync(set_fd_(f, fd, events), asked2)
<1> DEFINE g == set_fd_(f, fd, events)
<1>1. events # "no"
  BY DEF PollEvents
<1>2. fds_maxlen_ \in Nat
  BY HttpsAssumption
<1>3. f.n \in 0..fds_maxlen_ /\ f.a \in [1..fds_maxlen_ -> Entries]
  BY DEF Good
<1>4. CASE find_fd_(f, fd) # {}
  <2>1. /\ g.n = f.n
        /\ g.a = [k \in 1..fds_maxlen_ |-> IF k \in find_fd_(f, fd) THEN [f.a[k] EXCEPT !.events = events]
                                                                      ELSE f.a[k]]
        /\ g = [a |-> g.a, n |-> g.n]
    BY <1>3, <1>4 DEF set_fd_, Good
  <2>2. \A k \in 1..f.n : k \in find_fd_(f, fd) <=> f.a[k].fd = fd
    BY DEF find_fd_
  <2>3. \A k \in 1..fds_maxlen_ :
          /\ g.a[k] \in Entries /\ g.a[k].fd = f.a[k].fd
          /\ g.a[k].events = IF k \in find_fd_(f, fd) THEN events ELSE f.a[k].events
    <3> TAKE k \in 1..fds_maxlen_
    <3>1. f.a[k] \in Entries
      BY <1>3, Zenon
    <3>2. g.a[k] = IF k \in find_fd_(f, fd) THEN [f.a[k] EXCEPT !.events = events] ELSE f.a[k]
      BY <2>1
    <3> DEFINE e == f.a[k]
    <3> HIDE DEF e, g
    <3>3. [e EXCEPT !.events = events] \in Entries /\ [e EXCEPT !.events = events].fd = e.fd
          /\ [e EXCEPT !.events = events].events = events
      <4>1. e \in Entries
        BY <3>1 DEF e
      <4> QED BY <4>1 DEF Entries
    <3> QED BY <3>1, <3>2, <3>3 DEF e
  <2> HIDE DEF g
  <2>4. Good(g)
    BY <1>3, <2>1, <2>3, Zenon DEF Good
  <2>5. Sync(g, asked2)
    <3>1. \A k \in 1..f.n : g.a[k].fd = f.a[k].fd /\ g.a[k].events = IF f.a[k].fd = fd THEN events ELSE f.a[k].events
      BY <1>2, <1>3, <2>2, <2>3
    <3>2. \A x \in Fds : asked2[x] # "no" => \E k \in 1..f.n : f.a[k].fd = x
      BY <1>4 DEF Sync, find_fd_
    <3> QED BY <1>1, <2>1, <3>1, <3>2, SMTT(30) DEF Sync
  <2> QED
    BY <2>4, <2>5 DEF g
<1>5. CASE find_fd_(f, fd) = {}
  <2>1. asked[fd] = "no" /\ f.n < fds_maxlen_
    BY <1>5 DEF Sync, find_fd_
  <2>2. g = [a |-> [f.a EXCEPT ![f.n + 1] = Entry(fd, events)], n |-> f.n + 1]
    BY <1>2, <1>3, <1>5, <2>1 DEF set_fd_
  <2>3. Entry(fd, events) \in Entries /\ Entry(fd, events).fd = fd /\ Entry(fd, events).events = events
    BY DEF Entry, Entries
  <2> HIDE DEF g
  <2>4. /\ g.n = f.n + 1 /\ g.a \in [1..fds_maxlen_ -> Entries]
        /\ \A k \in 1..f.n : g.a[k] = f.a[k]
        /\ g.a[f.n + 1] = Entry(fd, events)
    BY <1>2, <1>3, <2>1, <2>2, <2>3
  <2>5. Good(g)
    BY <1>2, <1>3, <2>1, <2>2, <2>4 DEF Good
  <2>6. \A k \in 1..g.n : k \in 1..f.n \/ k = f.n + 1
    BY <1>3, <2>4
  <2>7. \A k \in 1..f.n : f.a[k].fd # fd /\ k \in 1..g.n
    BY <1>3, <1>5, <2>4 DEF find_fd_
  <2>8. f.n + 1 \in 1..g.n
    BY <1>3, <2>4
  <2>9. Sync(g, asked2)
    BY <1>1, <2>3, <2>4, <2>6, <2>7, <2>8 DEF Sync
  <2> QED
    BY <2>5, <2>9 DEF g
<1> QED
  BY <1>4, <1>5

(* fired plays no part.                                                    *)
LEMMA SameSync ==
  ASSUME NEW f, NEW g, NEW asked, Sync(f, asked), g.n = f.n,
         \A k \in 1..f.n : g.a[k].fd = f.a[k].fd /\ g.a[k].events = f.a[k].events
  PROVE  Sync(g, asked)
BY DEF Sync

(* del_fd_ of what is listed moves what is behind it down by one.          *)
LEMMA DelSync ==
  ASSUME NEW f, Good(f), NEW asked, Sync(f, asked), NEW fd \in Fds, asked[fd] # "no",
         NEW asked2, \A x \in Fds : asked2[x] = IF x = fd THEN "no" ELSE asked[x]
  PROVE  Good(del_fd_(f, fd)) /\ Sync(del_fd_(f, fd), asked2) /\ find_fd_(f, fd) # {}
<1> DEFINE g == del_fd_(f, fd)
           p == CHOOSE k \in find_fd_(f, fd) : TRUE
<1>1. fds_maxlen_ \in Nat
  BY HttpsAssumption
<1>2. f.n \in 0..fds_maxlen_ /\ f.a \in [1..fds_maxlen_ -> Entries]
  BY DEF Good
<1>3. find_fd_(f, fd) # {}
  BY DEF Sync, find_fd_
<1>4. p \in 1..f.n /\ f.a[p].fd = fd
  <2>1. p \in find_fd_(f, fd)
    BY <1>3
  <2> QED BY <2>1 DEF find_fd_
<1>5. g = [a |-> [k \in 1..fds_maxlen_ |-> IF p <= k /\ k < f.n THEN f.a[k + 1] ELSE f.a[k]], n |-> f.n - 1]
  BY <1>2, <1>3, Zenon DEF del_fd_
<1> HIDE DEF g, p
<1>6. \A k \in 1..fds_maxlen_ : IF p <= k /\ k < f.n THEN k + 1 \in 1..fds_maxlen_ ELSE TRUE
  BY <1>1, <1>2, <1>4
<1>7. Good(g)
  <2>1. f.n - 1 \in 0..fds_maxlen_
    BY <1>1, <1>2, <1>4
  <2>2. [k \in 1..fds_maxlen_ |-> IF p <= k /\ k < f.n THEN f.a[k + 1] ELSE f.a[k]] \in [1..fds_maxlen_ -> Entries]
    BY <1>2, <1>6, Zenon
  <2> QED BY <1>5, <2>1, <2>2 DEF Good
<1>8. g.n = f.n - 1
  BY <1>5
<1>9. \A k \in 1..g.n : g.a[k] = f.a[IF p <= k THEN k + 1 ELSE k]
  BY <1>1, <1>2, <1>4, <1>5, <1>8
<1>10. \A k \in 1..g.n : (IF p <= k THEN k + 1 ELSE k) \in 1..f.n \ {p}
  BY <1>2, <1>4, <1>8
<1>11. \A l \in 1..f.n \ {p} : \E k \in 1..g.n : l = IF p <= k THEN k + 1 ELSE k
  <2> TAKE l \in 1..f.n \ {p}
  <2>1. (IF l < p THEN l ELSE l - 1) \in 1..g.n
    BY <1>2, <1>4, <1>8
  <2> WITNESS (IF l < p THEN l ELSE l - 1) \in 1..g.n
  <2> QED BY <1>2, <1>4, <1>8
<1>12. \A l \in 1..f.n \ {p} : f.a[l].fd # fd
  BY <1>4 DEF Sync
<1>13. \A k \in 1..g.n : g.a[k].fd \in Fds /\ asked2[g.a[k].fd] # "no" /\ g.a[k].events = asked2[g.a[k].fd]
  BY <1>9, <1>10, <1>12 DEF Sync
<1>14. \A x \in Fds : asked2[x] # "no" => \E k \in 1..g.n : g.a[k].fd = x
  <2> TAKE x \in Fds
  <2> HAVE asked2[x] # "no"
  <2>1. x # fd /\ asked[x] # "no"
    OBVIOUS
  <2>2. PICK l \in 1..f.n \ {p} : f.a[l].fd = x
    BY <1>4, <2>1 DEF Sync
  <2> QED BY <1>9, <1>11, <2>2
<1>15. \A k, l \in 1..g.n : g.a[k].fd = g.a[l].fd => k = l
  <2> SUFFICES ASSUME NEW k \in 1..g.n, NEW l \in 1..g.n, g.a[k].fd = g.a[l].fd PROVE k = l
    OBVIOUS
  <2>1. (IF p <= k THEN k + 1 ELSE k) = (IF p <= l THEN l + 1 ELSE l)
    BY <1>9, <1>10 DEF Sync
  <2> QED BY <1>2, <1>4, <1>8, <2>1
<1>16. Sync(g, asked2)
  BY <1>13, <1>14, <1>15 DEF Sync
<1> QED
  BY <1>3, <1>7, <1>16 DEF g
----------------------------------------------------------------------------
(* There is room for what curl may still ask for.                          *)
LEMMA Room ==
  ASSUME TypeInv, ArrayInv, user # "none"
  PROVE  /\ IsFiniteSet(WatchedSocks) /\ Cardinality(WatchedSocks) \in Nat
         /\ fds_len <= Cardinality(WatchedSocks) + (IF curl.timer THEN 1 ELSE 0)
<1>1. IsFiniteSet(WatchedSocks) /\ Cardinality(WatchedSocks) \in Nat
  BY FS_Subset, FS_CardinalityType, HttpsAssumption DEF WatchedSocks
<1>2. IsFiniteSet(Watched) /\ Cardinality(Watched) = Cardinality(WatchedSocks) + (IF curl.timer THEN 1 ELSE 0)
  <2>1. "timerfd" \notin WatchedSocks
    BY HttpsAssumption DEF WatchedSocks
  <2>2. CASE curl.timer
    <3>1. Watched = WatchedSocks \cup {"timerfd"}
      BY <2>2 DEF Watched
    <3> QED BY <1>1, <2>1, <2>2, <3>1, FS_AddElement
  <2>3. CASE ~curl.timer
    <3>1. Watched = WatchedSocks
      BY <2>3 DEF Watched
    <3> QED BY <1>1, <2>3, <3>1
  <2> QED BY <2>2, <2>3
<1> DEFINE F == [k \in 1..fds_len |-> fds[k].fd]
<1>3. \A k \in 1..fds_len : fds[k].fd \in Watched
  <2> TAKE k \in 1..fds_len
  <2> DEFINE x == fds[k].fd
  <2>1. x \in Fds /\ Asked(curl)[x] # "no"
    BY DEF ArrayInv, Sync, Array
  <2> HIDE DEF x
  <2>2. x \in Watched
    BY <2>1 DEF Asked, Watched, WatchedSocks, Fds
  <2> QED BY <2>2 DEF x
<1>4. \A k, l \in 1..fds_len : fds[k].fd = fds[l].fd => k = l
  BY DEF ArrayInv, Sync, Array
<1>5. F \in Injection(1..fds_len, Watched)
  BY <1>3, <1>4 DEF Injection, IsInjective
<1>6. Cardinality(1..fds_len) <= Cardinality(Watched)
  BY <1>2, <1>5, FS_Injection
<1>7. fds_len \in Nat
  BY HttpsAssumption DEF TypeInv, DataType, ControlType
<1>8. Cardinality(1..fds_len) = fds_len
  BY <1>7, FS_Interval
<1> QED
  BY <1>1, <1>2, <1>6, <1>8

(* curl_multi_remove_handle leaves nothing in the array.                   *)
LEMMA RemoveClean ==
  ASSUME TypeInv, ArrayInv, user # "none", curl_multi_remove_handle
  PROVE  /\ curl' = NoCurl /\ fds' = fds /\ fds_len' = 0
<1>1. Kept = {}
  <2> SUFFICES ASSUME NEW k \in 1..fds_len PROVE fds[k].fd \in Watched
    BY DEF Kept
  <2> DEFINE x == fds[k].fd
  <2>1. x \in Fds /\ Asked(curl)[x] # "no"
    BY DEF ArrayInv, Sync, Array
  <2> HIDE DEF x
  <2>2. x \in Watched
    BY <2>1 DEF Asked, Watched, WatchedSocks, Fds
  <2> QED BY <2>2 DEF x
<1> QED
  BY <1>1, FS_EmptySet DEF curl_multi_remove_handle, Removed, PutArray

(* The curl of a context in which no request runs                          *)
LEMMA NoCurlType == NoCurl \in Curls
BY DEF NoCurl, Curls

(* An empty array and a curl that asks for nothing are in step.            *)
LEMMA CleanSync ==
  /\ \A a : Sync([a |-> a, n |-> 0], Asked(NoCurl))
  /\ Cardinality({s \in Socks : NoCurl.want[s] # "no"}) <= MaxSocks
<1>1. {s \in Socks : NoCurl.want[s] # "no"} = {}
  BY DEF NoCurl
<1>2. Cardinality({s \in Socks : NoCurl.want[s] # "no"}) <= MaxSocks
  BY <1>1, FS_EmptySet, HttpsAssumption
<1>3. \A x \in Fds : Asked(NoCurl)[x] = "no"
  BY DEF Asked, NoCurl, Fds
<1>4. \A a : Sync([a |-> a, n |-> 0], Asked(NoCurl))
  BY <1>3 DEF Sync
<1> QED
  BY <1>2, <1>4

(* That is how https_init, and a request that is over, leave them.         *)
LEMMA CleanArray ==
  ASSUME curl' = NoCurl, fds_len' = 0
  PROVE  ArrayInv'
BY CleanSync DEF ArrayInv, Array, WatchedSocks

(* What sock_cb_ and timer_cb_ do to the array                             *)
LEMMA SockArray ==
  ASSUME TypeInv, ArrayInv, user # "none", NEW s \in Socks, NEW what \in PollEvents \cup {"no"}, sock_cb_(s, what)
  PROVE  fds' \in [1..fds_maxlen_ -> Entries] /\ fds_len' \in 0..fds_maxlen_ /\ curl' \in Curls /\ ArrayInv'
<1> DEFINE g == IF what = "no" THEN del_fd_(Array, s) ELSE set_fd_(Array, s, what)
<1>1. curl \in Curls /\ curl' \in Curls /\ curl'.want = [curl.want EXCEPT ![s] = what] /\ curl'.timer = curl.timer
  BY Zenon DEF sock_cb_, TypeInv, DataType, ControlType, Curls
<1>2. Good(Array) /\ Sync(Array, Asked(curl)) /\ s \in Fds /\ s # "timerfd"
  BY HttpsAssumption DEF TypeInv, DataType, ControlType, ArrayInv, Good, Array, Fds
<1>3. Asked(curl)[s] = curl.want[s]
  BY <1>2 DEF Asked
<1>4. \A x \in Fds : Asked(curl')[x] = IF x = s THEN what ELSE Asked(curl)[x]
  BY <1>1, <1>2 DEF Asked, Fds, Curls
<1>5. WatchedSocks' = IF what = "no" THEN WatchedSocks \ {s} ELSE WatchedSocks \cup {s}
  BY <1>1 DEF WatchedSocks, Curls
<1>6. IsFiniteSet(WatchedSocks) /\ Cardinality(WatchedSocks) \in Nat /\ Cardinality(WatchedSocks) <= MaxSocks
  BY Room DEF ArrayInv
<1>7. MaxSocks \in Nat /\ fds_maxlen_ \in Nat /\ MaxSocks < fds_maxlen_
  BY HttpsAssumption
<1>8. Cardinality(WatchedSocks)' <= MaxSocks
  <2>1. what # "no" => s \in WatchedSocks \/ Cardinality(WatchedSocks) < MaxSocks
    BY DEF sock_cb_, WatchedSocks
  <2>2. CASE what = "no"
    <3>1. Cardinality(WatchedSocks \ {s}) <= Cardinality(WatchedSocks)
      BY <1>6, FS_RemoveElement
    <3>2. Cardinality(WatchedSocks \ {s}) \in Nat
      BY <1>6, FS_RemoveElement, FS_CardinalityType
    <3> QED BY <1>5, <1>6, <1>7, <2>2, <3>1, <3>2
  <2>3. CASE what # "no"
    <3>1. Cardinality(WatchedSocks \cup {s}) = IF s \in WatchedSocks THEN Cardinality(WatchedSocks)
                                                                    ELSE Cardinality(WatchedSocks) + 1
      BY <1>6, FS_AddElement, SMTT(30)
    <3> QED BY <1>5, <1>6, <1>7, <2>1, <2>3, <3>1
  <2> QED BY <2>2, <2>3
<1>9. Good(g) /\ Sync(g, Asked(curl'))
  <2>1. CASE what = "no"
    <3>1. Asked(curl)[s] # "no"
      BY <1>3, <2>1 DEF sock_cb_
    <3> QED BY <1>2, <1>4, <2>1, <3>1, DelSync
  <2>2. CASE what # "no"
    <3>1. what \in PollEvents
      BY <2>2
    <3>2. Asked(curl)[s] = "no" => Array.n < fds_maxlen_
      <4>1. fds_len <= Cardinality(WatchedSocks) + 1 /\ fds_len \in Nat
        BY Room, <1>6, <1>7 DEF TypeInv, DataType, ControlType
      <4>2. Array.n = fds_len
        BY DEF Array
      <4> QED BY <1>3, <1>6, <1>7, <2>2, <4>1, <4>2 DEF sock_cb_
    <3> QED BY <1>2, <1>4, <2>2, <3>1, <3>2, SetSync
  <2> QED BY <2>1, <2>2
<1>10. fds' = g.a /\ fds_len' = g.n
  BY DEF sock_cb_, PutArray
<1> HIDE DEF g
<1>11. g = [a |-> fds', n |-> fds_len']
  BY <1>9, <1>10 DEF Good
<1> QED
  BY <1>1, <1>8, <1>9, <1>11, SMTT(30) DEF Good, ArrayInv, Array

(* timer_cb_ adds or removes the timerfd, and there is room for it.        *)
LEMMA TimerArray ==
  ASSUME TypeInv, ArrayInv, user # "none", NEW on \in BOOLEAN,
         curl' \in Curls, curl'.want = curl.want, curl'.timer = on, on \/ curl.timer,
         PutArray(IF on THEN set_fd_(Array, "timerfd", "IN") ELSE del_fd_(Array, "timerfd"))
  PROVE  fds' \in [1..fds_maxlen_ -> Entries] /\ fds_len' \in 0..fds_maxlen_ /\ ArrayInv'
<1> DEFINE g == IF on THEN set_fd_(Array, "timerfd", "IN") ELSE del_fd_(Array, "timerfd")
<1>1. curl \in Curls
  BY DEF TypeInv, DataType, ControlType
<1>2. Good(Array) /\ Sync(Array, Asked(curl)) /\ "timerfd" \in Fds
  BY DEF TypeInv, DataType, ControlType, ArrayInv, Good, Array, Fds
<1>3. Asked(curl)["timerfd"] = (IF curl.timer THEN "IN" ELSE "no")
  BY <1>2 DEF Asked
<1>4. \A x \in Fds : Asked(curl')[x] = IF x = "timerfd" THEN (IF on THEN "IN" ELSE "no") ELSE Asked(curl)[x]
  BY <1>1 DEF Asked, Fds, Curls
<1>5. WatchedSocks' = WatchedSocks
  BY DEF WatchedSocks
<1>6. MaxSocks \in Nat /\ fds_maxlen_ \in Nat /\ MaxSocks < fds_maxlen_ /\ "IN" \in PollEvents
  BY HttpsAssumption DEF PollEvents
<1>7. Good(g) /\ Sync(g, Asked(curl'))
  <2>1. CASE ~on
    <3>1. Asked(curl)["timerfd"] # "no"
      BY <1>3, <2>1
    <3> QED BY <1>2, <1>4, <2>1, <3>1, DelSync
  <2>2. CASE on
    <3>1. Asked(curl)["timerfd"] = "no" => Array.n < fds_maxlen_
      <4>1. fds_len \in Nat /\ Cardinality(WatchedSocks) \in Nat /\ Cardinality(WatchedSocks) <= MaxSocks
        BY Room, <1>6 DEF TypeInv, DataType, ControlType, ArrayInv
      <4>2. ~curl.timer => fds_len <= Cardinality(WatchedSocks) + 0
        BY Room
      <4>3. Array.n = fds_len
        BY DEF Array
      <4> QED BY <1>3, <1>6, <4>1, <4>2, <4>3
    <3> QED BY <1>2, <1>4, <1>6, <2>2, <3>1, SetSync
  <2> QED BY <2>1, <2>2
<1>8. fds' = g.a /\ fds_len' = g.n
  BY DEF PutArray
<1> HIDE DEF g
<1>9. g = [a |-> fds', n |-> fds_len']
  BY <1>7, <1>8 DEF Good
<1> QED
  BY <1>5, <1>7, <1>9 DEF Good, ArrayInv, Array
----------------------------------------------------------------------------
(* What add_ev_ does to the events of an update                            *)
LEMMA EvsType ==
  /\ <<>> \in Seq(EvTypes) /\ Len(<<>>) = 0
  /\ \A e \in EvTypes : <<e>> \in Seq(EvTypes) /\ Len(<<e>>) = 1
  /\ \A q \in Seq(EvTypes), e \in EvTypes : Append(q, e) \in Seq(EvTypes) /\ Len(Append(q, e)) = Len(q) + 1
  /\ \A q \in Seq(EvTypes), e \in EvTypes : q \o <<e>> \in Seq(EvTypes) /\ Len(q \o <<e>>) = Len(q) + 1
  /\ \A q \in Seq(EvTypes) : q \o <<>> = q /\ Len(q) \in Nat
OBVIOUS

(* The invariant holds before https_init.                                  *)
LEMMA InitInv == Init => IInv
<1> SUFFICES ASSUME Init PROVE IInv
  OBVIOUS
<1>1. Unused \in Entries
  BY DEF Unused, Entries, PollEvents
<1>2. fds_maxlen_ \in Nat
  BY HttpsAssumption
<1>3. TypeInv
  <2>1. fds \in [1..fds_maxlen_ -> Entries]
    BY <1>1 DEF Init
  <2>2. evs \in Seq(EvTypes) /\ Len(evs) <= 3
    BY EvsType DEF Init
  <2>3. DataType
    BY <1>2, <2>1, <2>2, NoCurlType DEF Init, DataType
  <2>4. ControlType
    <3>1. st \in States /\ stop_strat \in {"abort", "wait"} /\ at \in Walk \cup {"calls", "poll", "update"}
          /\ user \in {"none", "ready", "stopping"} /\ (user = "none" => at = "calls")
      BY DEF Init, States
    <3>2. is_stop_waiting \in BOOLEAN
      BY Zenon DEF Init
    <3>3. i \in Nat /\ i >= 1 /\ nfds \in 0..fds_maxlen_
      BY <1>2 DEF Init
    <3> QED BY <3>1, <3>2, <3>3 DEF ControlType
  <2> QED BY <2>3, <2>4 DEF TypeInv
<1> QED
  BY <1>3 DEF IInv, Init, WalkInv, ReqInv, ArrayInv, Walk

(* A step that leaves the array and curl alone                             *)
LEMMA SameArray ==
  ASSUME ArrayInv, UNCHANGED <<fds, fds_len, curl>>, user # "none"
  PROVE  ArrayInv'
BY DEF ArrayInv, Array, WatchedSocks

(* Every step keeps the invariant.                                         *)
LEMMA StepInv == IInv /\ [Next]_vars => IInv'
<1> SUFFICES ASSUME IInv, [Next]_vars PROVE IInv'
  OBVIOUS
<1> USE DEF IInv
<1>0. MaxSocks \in Nat /\ fds_maxlen_ \in Nat
  BY HttpsAssumption
<1>1. ASSUME NEW ok \in BOOLEAN, https_init(ok) PROVE IInv'
  <2>1. TypeInv'
    <3>1. evs' \in Seq(EvTypes) /\ Len(evs') <= 3
      BY <1>1, EvsType DEF https_init
    <3>2. DataType'
      BY <1>0, <1>1, <3>1, NoCurlType DEF https_init, TypeInv, DataType
    <3> QED BY <1>0, <1>1, <3>2, Zenon DEF https_init, scan, TypeInv, ControlType, States, Walk
  <2>2. WalkInv' /\ ReqInv'
    BY <1>1 DEF https_init, scan, WalkInv, ReqInv, Walk
  <2>3. ArrayInv'
    BY <1>1, CleanArray DEF https_init, ArrayInv
  <2> QED BY <2>1, <2>2, <2>3
<1>2. ASSUME NEW s \in Strats, https_set_stop_strat(s) PROVE IInv'
  <2> USE <1>2 DEF https_set_stop_strat, array, scan, Calls
  <2>1. TypeInv' /\ WalkInv' /\ ReqInv'
    BY HttpsAssumption DEF TypeInv, DataType, ControlType, WalkInv, ReqInv, Walk
  <2>2. ArrayInv'
    BY SameArray
  <2> QED BY <2>1, <2>2
<1>3. ASSUME NEW added \in BOOLEAN, https_req_json(added) PROVE IInv'
  <2> USE <1>3 DEF https_req_json, array, scan, Calls
  <2>1. CASE ~added
    <3>1. TypeInv' /\ WalkInv' /\ ReqInv'
      BY <2>1 DEF TypeInv, DataType, ControlType, WalkInv, ReqInv, Walk, States
    <3>2. ArrayInv'
      BY <2>1, SameArray
    <3> QED BY <3>1, <3>2
  <2>2. CASE added
    <3>1. curl' \in Curls /\ curl'.want = curl.want /\ curl'.timer = TRUE
      BY <2>2, Zenon DEF TypeInv, DataType, ControlType, Curls
    <3>2. fds' \in [1..fds_maxlen_ -> Entries] /\ fds_len' \in 0..fds_maxlen_ /\ ArrayInv'
      BY <2>2, <3>1, TimerArray, Zenon
    <3>3. TypeInv' /\ WalkInv' /\ ReqInv'
      BY <2>2, <3>1, <3>2 DEF TypeInv, DataType, ControlType, WalkInv, ReqInv, Walk, States
    <3> QED BY <3>2, <3>3
  <2> QED BY <2>1, <2>2
<1>4. ASSUME https_stop_prep PROVE IInv'
  <2> USE <1>4 DEF https_stop_prep, array, scan, Calls
  <2>1. CASE StopAbort /\ st = "pend"
    <3>1. curl' = NoCurl /\ fds' = fds /\ fds_len' = 0
      BY <2>1, RemoveClean DEF StopAbort
    <3>2. TypeInv'
      <4>1. DataType'
        BY <1>0, <3>1, NoCurlType DEF TypeInv, DataType
      <4> QED BY <2>1, <4>1, Zenon DEF StopAbort, TypeInv, ControlType, Walk, States
    <3>3. WalkInv' /\ ReqInv'
      BY <2>1 DEF StopAbort, WalkInv, ReqInv, Walk
    <3> QED BY <3>1, <3>2, <3>3, CleanArray
  <2>2. CASE StopAbort /\ st # "pend"
    <3>1. TypeInv' /\ WalkInv' /\ ReqInv'
      BY <2>2, Zenon DEF StopAbort, TypeInv, DataType, ControlType, WalkInv, ReqInv, Walk, States
    <3>2. ArrayInv'
      BY <2>2, SameArray DEF StopAbort
    <3> QED BY <3>1, <3>2
  <2>3. CASE StopWait
    <3>1. TypeInv'
      BY <2>3 DEF StopWait, TypeInv, DataType, ControlType, Walk, States
    <3>2. WalkInv' /\ ReqInv'
      BY <2>3, Zenon DEF StopWait, TypeInv, DataType, ControlType, WalkInv, ReqInv, Walk, States
    <3>3. ArrayInv'
      BY <2>3, SameArray DEF StopWait
    <3> QED BY <3>1, <3>2, <3>3
  <2> QED BY <2>1, <2>2, <2>3
<1>5. ASSUME https_stop PROVE IInv'
  BY <1>5, NoCurlType DEF https_stop, array, scan, Calls, TypeInv, DataType, ControlType, WalkInv, ReqInv, ArrayInv, Walk, States
<1>6. ASSUME https_pollfds PROVE IInv'
  <2> USE <1>6 DEF https_pollfds, m, array, Calls
  <2>1. TypeInv' /\ WalkInv' /\ ReqInv'
    BY <1>0, SMTT(30) DEF TypeInv, DataType, ControlType, WalkInv, ReqInv, Walk
  <2> QED BY <2>1, SameArray
<1>7. ASSUME NEW timer \in BOOLEAN, Poll(timer) PROVE IInv'
  <2> USE <1>7 DEF Poll, m, scan
  <2>1. \A k \in 1..fds_maxlen_ : fds'[k] \in Entries /\ fds'[k].fd = fds[k].fd /\ fds'[k].events = fds[k].events
    <3> TAKE k \in 1..fds_maxlen_
    <3> DEFINE e == fds[k]
               v == (timer /\ e.fd = "timerfd")
    <3>1. e \in Entries
      BY DEF TypeInv, DataType, ControlType
    <3>2. fds'[k] = [e EXCEPT !.fired = v] \/ fds'[k] = e
      BY DEF TypeInv, DataType, ControlType
    <3>3. v \in BOOLEAN
      OBVIOUS
    <3> HIDE DEF e, v
    <3>4. [e EXCEPT !.fired = v] \in Entries /\ [e EXCEPT !.fired = v].fd = e.fd /\ [e EXCEPT !.fired = v].events = e.events
      BY <3>1, <3>3 DEF Entries
    <3>5. fds'[k] \in Entries /\ fds'[k].fd = e.fd /\ fds'[k].events = e.events
      BY <3>1, <3>2, <3>4, Zenon
    <3> QED BY <3>5 DEF e
  <2>2. fds' \in [1..fds_maxlen_ -> Entries]
    BY <2>1 DEF TypeInv, DataType, ControlType
  <2>3. TypeInv' /\ WalkInv' /\ ReqInv'
    BY <2>2 DEF TypeInv, DataType, ControlType, WalkInv, ReqInv, Walk
  <2>4. ArrayInv'
    <3>1. \A k \in 1..fds_len : fds'[k].fd = fds[k].fd /\ fds'[k].events = fds[k].events
      BY <1>0, <2>1 DEF TypeInv, DataType, ControlType
    <3>2. Array.n = fds_len /\ Array'.n = fds_len /\ Array.a = fds /\ Array'.a = fds'
      BY DEF Array
    <3>3. Sync(Array, Asked(curl)) => Sync(Array', Asked(curl))
      BY <3>1, <3>2, SameSync, Zenon
    <3> QED BY <3>3 DEF ArrayInv, WatchedSocks
  <2> QED BY <2>3, <2>4
<1>8. ASSUME UpdateStart PROVE IInv'
  <2> USE <1>8 DEF UpdateStart, array, scan, Leave
  <2>1. TypeInv'
    <3>1. evs' \in Seq(EvTypes) /\ Len(evs') <= 3
      <4>1. "stopped" \in EvTypes /\ "init" \in EvTypes
        BY DEF EvTypes
      <4>2. evs' = <<"stopped">> \/ evs' = <<"init">> \/ evs' = <<>>
        OBVIOUS
      <4> QED BY <4>1, <4>2, EvsType
    <3> QED BY <1>0, <3>1 DEF TypeInv, DataType, ControlType, Walk, States
  <2>2. WalkInv' /\ ReqInv'
    BY <1>0 DEF TypeInv, DataType, ControlType, WalkInv, ReqInv, Walk, States
  <2>3. ArrayInv'
    BY SameArray DEF TypeInv, DataType, ControlType
  <2> QED BY <2>1, <2>2, <2>3
<1>9. ASSUME Scan PROVE IInv'
  <2> USE <1>9 DEF Scan, m, array, scan, Leave
  <2>1. TypeInv' /\ WalkInv' /\ ReqInv'
    BY <1>0, SMTT(30) DEF TypeInv, DataType, ControlType, WalkInv, ReqInv, Walk
  <2>2. ArrayInv'
    BY SameArray DEF TypeInv, DataType, ControlType, Walk
  <2> QED BY <2>1, <2>2
<1>10. ASSUME Info PROVE IInv'
  <2> USE <1>10 DEF Info, array
  <2>0. at = "info" /\ user # "none"
    BY DEF TypeInv, DataType, ControlType
  <2>1. CASE curl.run = "ok"
    <3>1. Finished /\ Leave
      BY <2>1
    <3>2. curl' = NoCurl /\ fds' = fds /\ fds_len' = 0
      BY <2>0, <3>1, RemoveClean DEF Finished
    <3>3. st = "pend" /\ evs = <<>>
      BY <2>0, <2>1 DEF WalkInv, Walk
    <3>4. evs' \in Seq(EvTypes) /\ Len(evs') <= 3
      <4>1. "req_fin" \in EvTypes /\ "stopped" \in EvTypes
        BY DEF EvTypes
      <4>2. Append(evs, "req_fin") \in Seq(EvTypes) /\ Len(Append(evs, "req_fin")) = 1
        BY <3>3, <4>1, EvsType
      <4> QED BY <3>1, <4>1, <4>2, EvsType DEF Finished
    <3>5. TypeInv'
      <4>1. DataType'
        BY <1>0, <3>2, <3>4, NoCurlType DEF TypeInv, DataType
      <4>2. ControlType'
        <5>1. i' \in Nat /\ i' >= 1 /\ nfds' \in 0..fds_maxlen_
          BY <1>0, <3>1 DEF Leave
        <5>2. is_stop_waiting' \in BOOLEAN
          BY <3>1, Zenon DEF Finished
        <5>3. st' \in States /\ at' = "calls"
          BY <3>1 DEF Leave, Finished, States
        <5> QED BY <5>1, <5>2, <5>3 DEF TypeInv, ControlType
      <4> QED BY <4>1, <4>2 DEF TypeInv
    <3>6. WalkInv' /\ ReqInv'
      BY <2>0, <3>1, <3>2, <3>3 DEF Finished, Leave, WalkInv, ReqInv, Walk
    <3> QED BY <3>2, <3>5, <3>6, CleanArray
  <2>2. CASE curl.run # "ok"
    <3>1. curl' \in Curls /\ curl'.want = curl.want /\ curl'.timer = curl.timer /\ curl'.run = (IF curl.run = "fail" THEN "off" ELSE curl.run)
      BY <2>2 DEF TypeInv, DataType, ControlType, Curls
    <3>2. evs' \in Seq(EvTypes) /\ Len(evs') <= 3
      BY <2>0, <2>2, SMTT(30) DEF TypeInv, DataType, ControlType, WalkInv, Walk, req_fail_, EvTypes
    <3>3. TypeInv'
      BY <2>0, <2>2, <3>1, <3>2, SMTT(30) DEF TypeInv, DataType, ControlType, States, Walk, req_fail_
    <3>4. WalkInv' /\ ReqInv'
      <4>1. curl.run \in {"off", "active", "fail"}
        BY <2>2 DEF TypeInv, DataType, Curls
      <4>2. CASE curl.run = "fail"
        <5>1. st = "pend" /\ evs = <<>>
          BY <2>0, <4>2 DEF WalkInv, Walk
        <5>2. st' = "err" /\ Len(evs') = 1 /\ curl'.run = "off" /\ at' = "scan" /\ i' = i + 1 /\ nfds' = nfds
          BY <3>1, <4>2, <5>1, EvsType DEF req_fail_, EvTypes
        <5> QED BY <2>0, <4>2, <5>1, <5>2 DEF TypeInv, ControlType, WalkInv, ReqInv, Walk
      <4>3. CASE curl.run # "fail"
        BY <2>0, <2>2, <3>1, <4>3 DEF TypeInv, ControlType, WalkInv, ReqInv, Walk
      <4> QED BY <4>2, <4>3
    <3>5. ArrayInv'
      BY <2>2, <3>1 DEF ArrayInv, Array, WatchedSocks, Asked
    <3> QED BY <3>3, <3>4, <3>5
  <2> QED BY <2>1, <2>2
<1>11. ASSUME NEW s \in Socks, NEW what \in PollEvents \cup {"no"}, sock_cb_(s, what) PROVE IInv'
  <2>0. at = "curl" /\ user # "none"
    BY <1>11 DEF sock_cb_, TypeInv, DataType, ControlType
  <2>1. fds' \in [1..fds_maxlen_ -> Entries] /\ fds_len' \in 0..fds_maxlen_ /\ curl' \in Curls /\ ArrayInv'
    BY <1>11, <2>0, SockArray
  <2>2. curl'.run = curl.run
    BY <1>11 DEF sock_cb_, TypeInv, DataType, ControlType, Curls
  <2>3. TypeInv' /\ WalkInv' /\ ReqInv'
    BY <1>11, <2>0, <2>1, <2>2 DEF sock_cb_, m, scan, TypeInv, DataType, ControlType, WalkInv, ReqInv, Walk
  <2> QED BY <2>1, <2>3
<1>12. ASSUME NEW on \in BOOLEAN, NEW ok \in BOOLEAN, timer_cb_(on, ok) PROVE IInv'
  <2>0. at = "curl" /\ user # "none"
    BY <1>12 DEF timer_cb_, TypeInv, DataType, ControlType
  <2>1. curl' \in Curls /\ curl'.want = curl.want /\ curl'.timer = on /\ curl'.run = curl.run
    BY <1>12, Zenon DEF timer_cb_, TypeInv, DataType, ControlType, Curls
  <2>2. fds' \in [1..fds_maxlen_ -> Entries] /\ fds_len' \in 0..fds_maxlen_ /\ ArrayInv'
    BY <1>12, <2>0, <2>1, TimerArray DEF timer_cb_
  <2>3. TypeInv' /\ WalkInv' /\ ReqInv'
    BY <1>12, <2>0, <2>1, <2>2 DEF timer_cb_, m, scan, TypeInv, DataType, ControlType, WalkInv, ReqInv, Walk
  <2> QED BY <2>2, <2>3
<1>13. ASSUME NEW r \in {"ok", "fail"}, CurlDone(r) PROVE IInv'
  <2> USE <1>13 DEF CurlDone, m, array, scan
  <2>1. curl' \in Curls /\ curl'.want = curl.want /\ curl'.timer = curl.timer
    BY DEF TypeInv, DataType, ControlType, Curls
  <2>2. TypeInv' /\ WalkInv' /\ ReqInv'
    BY <2>1 DEF TypeInv, DataType, ControlType, WalkInv, ReqInv, Walk
  <2>3. ArrayInv'
    BY <2>1 DEF ArrayInv, Array, WatchedSocks, Asked
  <2> QED BY <2>2, <2>3
<1>14. ASSUME NEW cmres \in {"ok", "bad"}, CurlReturn(cmres) PROVE IInv'
  <2> USE <1>14 DEF CurlReturn, array, scan, Leave, req_fail_
  <2>1. evs' \in Seq(EvTypes) /\ Len(evs') <= 3
    BY SMTT(30) DEF TypeInv, DataType, ControlType, WalkInv, Walk, EvTypes
  <2>2. TypeInv' /\ WalkInv' /\ ReqInv'
    BY <1>0, <2>1, SMTT(30) DEF TypeInv, DataType, ControlType, WalkInv, ReqInv, Walk, States
  <2>3. ArrayInv'
    BY SameArray DEF TypeInv, DataType, ControlType
  <2> QED BY <2>2, <2>3
<1>15. CASE UNCHANGED vars
  BY <1>15 DEF vars, TypeInv, DataType, ControlType, WalkInv, ReqInv, ArrayInv, Array, WatchedSocks
<1>16. {TRUE, ~AddFails} \subseteq BOOLEAN
  BY HttpsAssumption
<1> QED
  BY <1>1, <1>2, <1>3, <1>4, <1>5, <1>6, <1>7, <1>8, <1>9, <1>10, <1>11, <1>12, <1>13, <1>14, <1>15, <1>16, Zenon DEF Next, Call, Loop, Callback, Done, Return

(* The inductive invariant holds.                                          *)
THEOREM Invariance == Spec => []IInv
BY InitInv, StepInv, PTL DEF Spec

(* TypeOK, with it that add_ev_ never finds evs full and that the walk of  *)
(* https_update stays inside m->fds, for any number of sockets.            *)
THEOREM TypeCorrect == Spec => []TypeOK
<1>1. IInv => TypeOK
  <2> SUFFICES ASSUME IInv PROVE TypeOK
    OBVIOUS
  <2>1. curl.want \in [Socks -> PollEvents \cup {"no"}] /\ curl.run \in {"off", "active", "ok", "fail"}
    BY DEF IInv, TypeInv, DataType, Curls
  <2>2. Len(evs) <= evs_maxlen_
    BY EvsType DEF IInv, TypeInv, DataType, evs_maxlen_
  <2>3. i \in 1..fds_maxlen_ + 1 /\ fds_maxlen_ \in Nat
    BY HttpsAssumption DEF IInv, TypeInv, ControlType, WalkInv
  <2> QED BY <2>1, <2>2, <2>3 DEF IInv, TypeInv, DataType, ControlType, Walk, TypeOK
<1> QED BY <1>1, Invariance, PTL

(* sock_cb_, timer_cb_ and curl_multi_remove_handle keep m->fds what curl  *)
(* asked for, and no callback finds it full, when it has one place more    *)
(* than curl has sockets at a time.                                        *)
THEOREM ArrayInSync == Spec => []FdsInSync
<1>1. IInv => FdsInSync
  <2> SUFFICES ASSUME IInv, user # "none" PROVE FdsInSync
    BY DEF FdsInSync
  <2>1. Sync(Array, Asked(curl)) /\ Array.a = fds /\ Array.n = fds_len
    BY DEF IInv, ArrayInv, Array
  <2>2. \A x \in Fds : Asked(curl)[x] # "no" <=> x \in Watched
    BY HttpsAssumption DEF Asked, Watched, WatchedSocks, Fds
  <2>3. \A x \in Socks : Asked(curl)[x] = curl.want[x]
    BY HttpsAssumption DEF Asked, Fds
  <2>4. Watched \subseteq Fds
    BY DEF Watched, WatchedSocks, Fds
  <2>5. {fds[k].fd : k \in 1..fds_len} = Watched
    BY <2>1, <2>2, <2>4 DEF Sync
  <2>6. \A k \in 1..fds_len : fds[k].fd \in Socks => fds[k].events = curl.want[fds[k].fd]
    BY <2>1, <2>3 DEF Sync
  <2> QED BY <2>1, <2>5, <2>6, SMTT(30) DEF Sync, FdsInSync
<1> QED BY <1>1, Invariance, PTL

(* https_update takes the handle out of curl before the module is idle.    *)
THEOREM CleanWhenIdle == Spec => []IdleIsClean
<1>1. IInv => IdleIsClean
  <2> SUFFICES ASSUME IInv, user # "none", st \in {"just_init", "idle"} PROVE curl = NoCurl /\ fds_len = 0
    BY DEF IdleIsClean
  <2>1. curl = NoCurl
    BY DEF IInv, ReqInv
  <2>2. \A x \in Fds : Asked(curl)[x] = "no"
    BY <2>1 DEF Asked, NoCurl, Fds
  <2>3. \A k \in 1..fds_len : FALSE
    BY <2>2 DEF IInv, ArrayInv, Sync, Array
  <2>4. fds_len \in Nat
    BY HttpsAssumption DEF IInv, TypeInv, DataType
  <2> QED BY <2>1, <2>3, <2>4
<1> QED BY <1>1, Invariance, PTL

(* https_stop_prep leaves no way into https_req_json, however the loop and *)
(* the calls of the user go on.                                            *)
THEOREM NoneAfterStop == Spec => NoReqAfterStop
<1>1. IInv /\ [Next]_vars => [user = "stopping" /\ user' = "stopping" /\ curl'.attached => curl.attached]_vars
  <2> SUFFICES ASSUME IInv, Next, user = "stopping", curl'.attached PROVE curl.attached
    BY DEF vars
  <2>1. st # "idle" \/ is_stop_waiting
    BY DEF IInv, ReqInv
  <2>2. curl \in Curls /\ ~NoCurl.attached
    BY DEF IInv, TypeInv, DataType, NoCurl
  <2> QED BY <2>1, <2>2
      DEF Next, Call, Loop, Callback, Done, Return, https_init, https_set_stop_strat, https_req_json, https_stop_prep,
          StopAbort, StopWait, https_stop, https_pollfds, Poll, UpdateStart, Scan, Info, Finished, sock_cb_, timer_cb_,
          CurlDone, CurlReturn, curl_multi_remove_handle, Curls
<1> QED BY <1>1, Invariance, PTL DEF Spec, NoReqAfterStop
============================================================================
