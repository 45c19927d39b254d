-------------------------- MODULE ServerPartsProofs --------------------------
(***************************************************************************)
(* The parts of the server the pages stand on, each followed on its own:   *)
(* the cache of the dashboards, the key pairs of a user's systems, and the *)
(* token.  Of each there is an invariant that contains its types and what  *)
(* it promises (CacheInv, KeysNow, TokenInv), and three lemmas: it holds   *)
(* at first, every step keeps it, and what it says.                        *)
(***************************************************************************)
EXTENDS Workbench, TLAPS, FiniteSetTheorems, SequenceTheorems

-----------------------------------------------------------------------------
(* What saga keeps one call of a kind: a set with at most one member.      *)

AtMostOne(S) == \A x, y \in S : x = y

\* The cardinality the type invariants of the pages speak of.
LEMMA OneAtMost ==
  ASSUME NEW S, AtMostOne(S)
  PROVE  Cardinality(S) <= 1
<1>1. CASE S = {}
  BY <1>1, FS_EmptySet
<1>2. CASE S # {}
  <2>1. PICK x \in S : TRUE
    BY <1>2
  <2>2. S = {x}
    BY <2>1 DEF AtMostOne
  <2>3. Cardinality({x}) = 1
    BY FS_Singleton
  <2> QED
    BY <2>2, <2>3
<1> QED
  BY <1>1, <1>2

-----------------------------------------------------------------------------
(* The cache.  What it holds is no older than the time kept for its file,  *)
(* unless it came late; hence an answer taken from it is at least as new   *)
(* as the file was when the request looked at it.                          *)

\* An entry f that did not come late is no older than t.
NotOlder(f, t) == f \notin ui.late => t <= store.memo[f]

\* The time kept for a file is missing or below its entries; a request that
\* has emptied the cache, or found its time in it, will find no older entry.
StampIsKept ==
    \A f \in Functions : LET s == store.stamp[FileOf[f]] IN
        s # Data!Missing => s <= store.file[FileOf[f]] /\ NotOlder(f, s)

RequestsAgree ==
    \A r \in Requests :
        /\ calls[r].at = "memo" => NotOlder(calls[r].f, calls[r].time)
        /\ calls[r].at = "set" =>
              \A f \in Functions :
                  FileOf[f] = FileOf[calls[r].f] => NotOlder(f, calls[r].time)

CacheInv == Data!TypeOK /\ StampIsKept /\ RequestsAgree

----------------------------------------------------------------------------
\* The fields of the three records, and the times that compare.
LEMMA CacheFields ==
    ASSUME Data!CacheAssumption, Data!TypeOK
    PROVE  /\ store = [file |-> store.file, stamp |-> store.stamp, memo |-> store.memo]
           /\ store.file \in [Databases -> 0..MaxChanges]
           /\ store.stamp \in [Databases -> 0..(MaxChanges + 1)]
           /\ store.memo \in [Functions -> 0..(MaxChanges + 1)]
           /\ ui = [late |-> ui.late] /\ ui.late \in SUBSET Functions
           /\ MaxChanges \in Nat
           /\ DOMAIN calls = Requests
           /\ \A f \in Functions : FileOf[f] \in Databases
  BY DEF Data!CacheAssumption, Data!TypeOK, Data!Times, Data!Missing

\* A request that is not idle has a function and a time its file has had.
LEMMA CacheBusy ==
    ASSUME Data!CacheAssumption, Data!TypeOK, NEW r \in Requests, calls[r] # Data!Idle
    PROVE  /\ calls[r] = Data!At(calls[r].at, calls[r].f, calls[r].time)
           /\ calls[r].at \in Data!Phases
           /\ calls[r].f \in Functions
           /\ calls[r].time \in 0..MaxChanges
           /\ calls[r].time <= store.file[FileOf[calls[r].f]]
  BY DEF Data!TypeOK, Data!Times, Data!At

\* An empty cache is in its invariant.
LEMMA CacheStart ==
    ASSUME Data!CacheAssumption, Data!Init
    PROVE  CacheInv
  BY DEF Data!CacheAssumption, Data!Init, CacheInv, Data!TypeOK, StampIsKept,
     RequestsAgree, NotOlder,
         Data!EmptyMemo, Data!EmptyStamp, Data!Missing, Data!Times, Data!Idle

\* A request that goes on to c while the cache stays as it is: what it now
\* relies on must hold.
LEMMA CacheMoved ==
    ASSUME Data!CacheAssumption, CacheInv, NEW r \in Requests, NEW c,
           \/ c = Data!Idle
           \/ /\ c \in [at : Data!Phases, f : Functions, time : Data!Times]
              /\ c.time <= store.file[FileOf[c.f]]
              /\ c.at # "set"
              /\ c.at = "memo" => NotOlder(c.f, c.time),
           calls' = [calls EXCEPT ![r] = c], UNCHANGED <<store, ui>>
    PROVE  CacheInv'
<1>1. Data!TypeOK /\ StampIsKept /\ RequestsAgree
  BY DEF CacheInv
<1>2. calls' \in [Requests -> {Data!Idle} \cup [at : Data!Phases, f : Functions,
      time : Data!Times]]
  BY <1>1 DEF Data!TypeOK
<1>3. \A q \in Requests : calls'[q] = IF q = r THEN c ELSE calls[q]
  BY <1>1 DEF Data!TypeOK
<1>4. Data!TypeOK'
  BY <1>1, <1>2, <1>3 DEF Data!TypeOK
<1>5. StampIsKept'
  BY <1>1 DEF StampIsKept, NotOlder
<1>6. RequestsAgree'
  BY <1>1, <1>3 DEF RequestsAgree, NotOlder, Data!Idle
<1> QED
  BY <1>4, <1>5, <1>6 DEF CacheInv

\* A file that is replaced leaves the entries and the times that are kept no
\* newer than they were.
LEMMA CacheUpdated ==
    ASSUME Data!CacheAssumption, CacheInv, Data!update
    PROVE  CacheInv'
<1>1. PICK d \in Databases : /\ store.file[d] < MaxChanges
                             /\ store' = [store EXCEPT !.file[d] = @ + 1]
  BY DEF Data!update
<1>2. Data!TypeOK /\ StampIsKept /\ RequestsAgree /\ UNCHANGED <<calls, ui>>
  BY DEF CacheInv, Data!update
<1>3. /\ store'.stamp = store.stamp /\ store'.memo = store.memo
      /\ store'.file = [store.file EXCEPT ![d] = @ + 1]
      /\ store' = [file |-> store'.file, stamp |-> store.stamp, memo |-> store.memo]
  BY <1>1, <1>2, CacheFields
<1>4. store'.file \in [Databases -> Data!Times]
  BY <1>1, <1>2, <1>3, CacheFields DEF Data!Times
<1>5. \A e \in Databases : store.file[e] <= store'.file[e]
  BY <1>2, <1>3, CacheFields
<1>6. Data!TypeOK'
  <2>1. ASSUME NEW r \in Requests, calls[r] # Data!Idle
        PROVE  calls[r].time <= store'.file[FileOf[calls[r].f]]
    BY <2>1, <1>2, <1>4, <1>5, CacheBusy, CacheFields DEF Data!Times
  <2> QED
    BY <2>1, <1>2, <1>3, <1>4 DEF Data!TypeOK
<1>7. StampIsKept'
  <2>1. ASSUME NEW f \in Functions, store.stamp[FileOf[f]] # Data!Missing
        PROVE  store.stamp[FileOf[f]] <= store'.file[FileOf[f]]
    BY <2>1, <1>2, <1>4, <1>5, CacheFields DEF Data!Times, StampIsKept
  <2> QED
    BY <2>1, <1>2, <1>3 DEF StampIsKept, NotOlder
<1>8. RequestsAgree'
  BY <1>2, <1>3 DEF RequestsAgree, NotOlder
<1> QED
  BY <1>6, <1>7, <1>8 DEF CacheInv

\* A request that finds a newer file empties the cache.
LEMMA CacheEmptied ==
    ASSUME Data!CacheAssumption, CacheInv, Data!clear
    PROVE  CacheInv'
<1>1. PICK r \in Requests :
         /\ calls[r].at = "clear" /\ store' = Data!Cleared(store)
         /\ calls' = [calls EXCEPT ![r] = Data!At("set", calls[r].f, calls[r].time)]
         /\ ui' = [ui EXCEPT !.late = {}]
  BY DEF Data!clear
<1>2. Data!TypeOK /\ StampIsKept /\ RequestsAgree
  BY DEF CacheInv
<1>3. /\ store'.stamp = Data!EmptyStamp /\ store'.memo = Data!EmptyMemo
      /\ store'.file = store.file
      /\ store' = [file |-> store.file, stamp |-> Data!EmptyStamp, memo |-> Data!EmptyMemo]
  BY <1>1, <1>2, CacheFields DEF Data!Cleared
<1>4. ui' = [late |-> {}]
  BY <1>1, <1>2, CacheFields
<1>5. \A q \in Requests : calls'[q] = IF q = r
      THEN Data!At("set", calls[r].f, calls[r].time)
                                      ELSE calls[q]
  BY <1>1, <1>2, CacheFields
<1>6. calls[r] # Data!Idle
  BY <1>1 DEF Data!Idle
<1>7. Data!At("set", calls[r].f, calls[r].time)
        \in [at : Data!Phases, f : Functions, time : Data!Times]
  BY <1>2, <1>6, CacheBusy DEF Data!At, Data!Phases, Data!Times
<1>8. Data!TypeOK'
  <2>1. calls' \in [Requests -> {Data!Idle} \cup [at : Data!Phases, f : Functions,
        time : Data!Times]]
    BY <1>1, <1>2, <1>7 DEF Data!TypeOK
  <2>2. ASSUME NEW q \in Requests, calls'[q] # Data!Idle
        PROVE  calls'[q].time <= store.file[FileOf[calls'[q].f]]
    <3>1. CASE q = r
      <4>1. calls[r].time <= store.file[FileOf[calls[r].f]]
        BY <1>2, <1>6, CacheBusy
      <4> QED
        BY <3>1, <4>1, <1>5 DEF Data!At
    <3>2. CASE q # r
      BY <3>2, <2>2, <1>2, <1>5, CacheBusy
    <3> QED
      BY <3>1, <3>2
  <2>3. store' \in [file : [Databases -> Data!Times],
        stamp : [Databases -> 0..Data!Missing],
                    memo : [Functions -> 0..Data!Missing]]
    BY <1>2, <1>3, CacheFields DEF Data!EmptyStamp, Data!EmptyMemo, Data!Missing, Data!Times
  <2> QED
    BY <2>1, <2>2, <2>3, <1>3, <1>4 DEF Data!TypeOK
<1>9. StampIsKept'
  BY <1>2, <1>3, CacheFields DEF StampIsKept, Data!EmptyStamp
<1>10. \A q \in Requests : calls'[q] # Data!Idle => calls'[q].time <= Data!Missing
  BY <1>8, Data!CacheAssumption
     DEF Data!TypeOK, Data!Times, Data!Missing, Data!CacheAssumption
<1>11. RequestsAgree'
  <2>1. ASSUME NEW q \in Requests, calls'[q].at = "memo" \/ calls'[q].at = "set"
        PROVE  calls'[q].time <= Data!Missing /\ calls'[q].f \in Functions
    BY <2>1, <1>8, <1>10 DEF Data!Idle, Data!TypeOK
  <2> QED
    BY <2>1, <1>3 DEF RequestsAgree, NotOlder, Data!EmptyMemo
<1> QED
  BY <1>8, <1>9, <1>11 DEF CacheInv

\* A request that has emptied the cache keeps the time it has seen.
LEMMA CacheStamped ==
    ASSUME Data!CacheAssumption, CacheInv, Data!set
    PROVE  CacheInv'
<1>1. PICK r \in Requests :
         /\ calls[r].at = "set"
         /\ store' = [store EXCEPT !.stamp[FileOf[calls[r].f]] = calls[r].time]
         /\ calls' = [calls EXCEPT ![r] = Data!At("memo", calls[r].f, calls[r].time)]
         /\ UNCHANGED ui
  BY DEF Data!set
<1>2. Data!TypeOK /\ StampIsKept /\ RequestsAgree
  BY DEF CacheInv
<1>3. /\ store'.memo = store.memo /\ store'.file = store.file
      /\ store'.stamp = [store.stamp EXCEPT ![FileOf[calls[r].f]] = calls[r].time]
      /\ store' = [file |-> store.file, stamp |-> store'.stamp, memo |-> store.memo]
  BY <1>1, <1>2, CacheFields
<1>5. \A q \in Requests : calls'[q] = IF q = r
      THEN Data!At("memo", calls[r].f, calls[r].time)
                                      ELSE calls[q]
  BY <1>1, <1>2, CacheFields
<1>6. /\ calls[r] # Data!Idle
      /\ calls[r].f \in Functions
      /\ calls[r].time \in 0..MaxChanges
      /\ calls[r].time <= store.file[FileOf[calls[r].f]]
  BY <1>1, <1>2, CacheBusy DEF Data!Idle
<1>7. \A f \in Functions :
         FileOf[f] = FileOf[calls[r].f] => NotOlder(f, calls[r].time)
  BY <1>1, <1>2 DEF RequestsAgree
<1>8. Data!TypeOK'
  <2>1. calls' \in [Requests -> {Data!Idle} \cup [at : Data!Phases, f : Functions,
        time : Data!Times]]
    BY <1>1, <1>2, <1>6 DEF Data!TypeOK, Data!At, Data!Phases, Data!Times
  <2>2. ASSUME NEW q \in Requests, calls'[q] # Data!Idle
        PROVE  calls'[q].time <= store.file[FileOf[calls'[q].f]]
    <3>1. CASE q = r
      <4>1. calls[r].time <= store.file[FileOf[calls[r].f]]
        BY <1>2, <1>6, CacheBusy
      <4> QED
        BY <3>1, <4>1, <1>5 DEF Data!At
    <3>2. CASE q # r
      BY <3>2, <2>2, <1>2, <1>5, CacheBusy
    <3> QED
      BY <3>1, <3>2
  <2>3. store'.stamp \in [Databases -> 0..Data!Missing]
    BY <1>2, <1>3, <1>6, CacheFields DEF Data!Missing
  <2> QED
    BY <2>1, <2>2, <2>3, <1>1, <1>2, <1>3 DEF Data!TypeOK
<1>9. StampIsKept'
  <2>1. ASSUME NEW f \in Functions, FileOf[f] = FileOf[calls[r].f]
        PROVE  /\ store'.stamp[FileOf[f]] = calls[r].time
               /\ calls[r].time <= store.file[FileOf[f]]
               /\ NotOlder(f, calls[r].time)
    BY <2>1, <1>2, <1>3, <1>6, <1>7, CacheFields
  <2>2. ASSUME NEW f \in Functions, FileOf[f] # FileOf[calls[r].f]
        PROVE  store'.stamp[FileOf[f]] = store.stamp[FileOf[f]]
    BY <2>2, <1>2, <1>3, CacheFields
  <2> QED
    BY <2>1, <2>2, <1>1, <1>2, <1>3 DEF StampIsKept, NotOlder
<1>11. RequestsAgree'
  <2>1. NotOlder(calls[r].f, calls[r].time)
    BY <1>6, <1>7
  <2> QED
    BY <2>1, <1>1, <1>2, <1>3, <1>5 DEF RequestsAgree, NotOlder, Data!At
<1> QED
  BY <1>8, <1>9, <1>11 DEF CacheInv

\* An answer is entered by the request that has read it; a late one is marked.
LEMMA CacheMemoized ==
    ASSUME Data!CacheAssumption, CacheInv, Data!memoize
    PROVE  CacheInv'
<1>1. PICK r \in Requests :
         /\ calls[r].at = "memoize"
         /\ store' = [store EXCEPT !.memo[calls[r].f] = calls[r].time]
         /\ ui' = [ui EXCEPT !.late =
                      IF calls[r].time < store.file[FileOf[calls[r].f]]
                      THEN @ \cup {calls[r].f} ELSE @ \ {calls[r].f}]
         /\ calls' = [calls EXCEPT ![r] = Data!Idle]
  BY DEF Data!memoize
<1>2. Data!TypeOK /\ StampIsKept /\ RequestsAgree
  BY DEF CacheInv
<1>3. /\ store'.stamp = store.stamp /\ store'.file = store.file
      /\ store'.memo = [store.memo EXCEPT ![calls[r].f] = calls[r].time]
      /\ store' = [file |-> store.file, stamp |-> store.stamp, memo |-> store'.memo]
  BY <1>1, <1>2, CacheFields
<1>4. /\ calls[r].f \in Functions
      /\ calls[r].time \in 0..MaxChanges
      /\ calls[r].time <= store.file[FileOf[calls[r].f]]
  BY <1>1, <1>2, CacheBusy DEF Data!Idle
<1>5. \A q \in Requests : calls'[q] = IF q = r THEN Data!Idle ELSE calls[q]
  BY <1>1, <1>2, CacheFields
<1>6. /\ ui' = [late |-> ui'.late] /\ ui'.late \in SUBSET Functions
      /\ \A f \in Functions \ {calls[r].f} : f \in ui'.late <=> f \in ui.late
      /\ calls[r].f \notin ui'.late =>
            ~(calls[r].time < store.file[FileOf[calls[r].f]])
  <2>1. ui' = [late |-> IF calls[r].time < store.file[FileOf[calls[r].f]]
                        THEN ui.late \cup {calls[r].f} ELSE ui.late \ {calls[r].f}]
    BY <1>1, <1>2, CacheFields
  <2>2. CASE calls[r].time < store.file[FileOf[calls[r].f]]
    BY <2>1, <2>2, <1>2, <1>4, CacheFields
  <2>3. CASE ~(calls[r].time < store.file[FileOf[calls[r].f]])
    BY <2>1, <2>3, <1>2, <1>4, CacheFields
  <2> QED
    BY <2>2, <2>3
\* An entry that is not late is as new as the file, thus as anything before.
<1>7. ASSUME NEW f \in Functions, NEW t \in 0..MaxChanges, NotOlder(f, t),
             t <= store.file[FileOf[f]]
      PROVE  NotOlder(f, t)'
  <2>1. CASE f = calls[r].f
    <3>1. SUFFICES ASSUME f \notin ui'.late PROVE t <= calls[r].time
      BY <2>1, <1>2, <1>3, <1>4, CacheFields DEF NotOlder
    <3>2. ~(calls[r].time < store.file[FileOf[f]])
      BY <3>1, <2>1, <1>6
    <3>3. store.file[FileOf[f]] \in 0..MaxChanges
      BY <1>2, CacheFields
    <3> QED
      BY <3>2, <3>3, <1>4, <1>7, CacheFields, <1>2
  <2>2. CASE f # calls[r].f
    BY <2>2, <1>2, <1>3, <1>6, <1>7, CacheFields DEF NotOlder
  <2> QED
    BY <2>1, <2>2
<1>8. Data!TypeOK'
  <2>1. calls' \in [Requests -> {Data!Idle} \cup [at : Data!Phases, f : Functions,
        time : Data!Times]]
    BY <1>1, <1>2 DEF Data!TypeOK
  <2>2. store'.memo \in [Functions -> 0..Data!Missing]
    BY <1>2, <1>3, <1>4, CacheFields DEF Data!Missing
  <2> QED
    BY <2>1, <2>2, <1>2, <1>3, <1>5, <1>6 DEF Data!TypeOK
<1>9. StampIsKept'
  <2>1. ASSUME NEW f \in Functions, store.stamp[FileOf[f]] # Data!Missing
        PROVE  /\ store.stamp[FileOf[f]] <= store.file[FileOf[f]]
               /\ NotOlder(f, store.stamp[FileOf[f]])'
    <3>1. /\ store.stamp[FileOf[f]] \in 0..MaxChanges
          /\ store.stamp[FileOf[f]] <= store.file[FileOf[f]]
          /\ NotOlder(f, store.stamp[FileOf[f]])
      BY <2>1, <1>2, CacheFields DEF StampIsKept, Data!Missing
    <3>2. \A t \in 0..MaxChanges :
             (NotOlder(f, t) /\ t <= store.file[FileOf[f]])
               => (f \notin ui'.late => t <= store'.memo[f])
      BY <1>7 DEF NotOlder
    <3> QED
      BY <3>1, <3>2, <1>3 DEF NotOlder
  <2> QED
    BY <2>1, <1>3 DEF StampIsKept, NotOlder
<1>10. RequestsAgree'
  <2>1. ASSUME NEW q \in Requests, calls[q].at \in {"memo", "set"}
        PROVE  /\ calls[q].f \in Functions /\ calls[q].time \in 0..MaxChanges
               /\ calls[q].time <= store.file[FileOf[calls[q].f]]
    BY <2>1, <1>2, CacheBusy DEF Data!Idle
  <2>2. ASSUME NEW f \in Functions, NEW t \in 0..MaxChanges, NotOlder(f, t),
               t <= store.file[FileOf[f]]
        PROVE  f \notin ui'.late => t <= store'.memo[f]
    BY <2>2, <1>7 DEF NotOlder
  <2>3. ASSUME NEW q \in Requests, calls'[q].at = "memo"
        PROVE  NotOlder(calls[q].f, calls[q].time)' /\ calls'[q] = calls[q]
    <3>1. calls'[q] = calls[q]
      BY <2>3, <1>5 DEF Data!Idle
    <3>2. NotOlder(calls[q].f, calls[q].time)
      BY <2>3, <3>1, <1>2 DEF RequestsAgree
    <3> QED
      BY <2>1, <2>2, <2>3, <3>1, <3>2 DEF NotOlder
  <2>4. ASSUME NEW q \in Requests, calls'[q].at = "set", NEW f \in Functions,
               FileOf[f] = FileOf[calls[q].f]
        PROVE  f \notin ui'.late => calls[q].time <= store'.memo[f]
    <3>1. calls'[q] = calls[q]
      BY <2>4, <1>5 DEF Data!Idle
    <3>2. NotOlder(f, calls[q].time)
      BY <2>4, <3>1, <1>2 DEF RequestsAgree
    <3>3. FileOf[f] = FileOf[calls[q].f] /\ calls[q].time <= store.file[FileOf[f]]
      BY <2>1, <2>4, <3>1
    <3> QED
      BY <2>1, <2>2, <2>4, <3>1, <3>2, <3>3
  <2>5. ASSUME NEW q \in Requests, calls'[q].at = "set"
        PROVE  calls'[q] = calls[q]
    BY <2>5, <1>5 DEF Data!Idle
  <2> QED
    BY <2>3, <2>4, <2>5 DEF RequestsAgree, NotOlder
<1> QED
  BY <1>8, <1>9, <1>10 DEF CacheInv

\* Every step of a request and every change of a file keeps the invariant.
LEMMA CacheStep ==
    ASSUME Data!CacheAssumption, CacheInv, [Data!Next]_<<store, calls, ui, alive>>
    PROVE  CacheInv'
<1>0. Data!TypeOK /\ StampIsKept /\ RequestsAgree
  BY DEF CacheInv
<1>1. CASE Data!update
  BY <1>1, CacheUpdated
<1>2. CASE Data!getmtime
  <2>1. PICK r \in Requests, f \in Functions :
           calls' = [calls EXCEPT ![r] = Data!At("stamp", f, store.file[FileOf[f]])]
    BY <1>2 DEF Data!getmtime
  <2>2. store.file[FileOf[f]] \in Data!Times
    BY <1>0, CacheFields DEF Data!Times
  <2>3. LET c == Data!At("stamp", f, store.file[FileOf[f]]) IN
        /\ c \in [at : Data!Phases, f : Functions, time : Data!Times]
        /\ c.time <= store.file[FileOf[c.f]] /\ c.at # "set" /\ c.at # "memo"
    BY <2>2 DEF Data!At, Data!Phases, Data!Times, Data!CacheAssumption
  <2> QED
    BY <2>1, <2>3, <1>2, CacheMoved DEF Data!getmtime
<1>3. CASE Data!check_db_timestamp_and_cache_validity
  <2>1. PICK r \in Requests :
           /\ calls[r].at = "stamp"
           /\ calls' = [calls EXCEPT ![r] =
                 Data!At(IF store.stamp[FileOf[calls[r].f]] = calls[r].time
                    THEN "memo" ELSE "clear", calls[r].f, calls[r].time)]
    BY <1>3 DEF Data!check_db_timestamp_and_cache_validity
  <2>2. /\ calls[r].f \in Functions /\ calls[r].time \in 0..MaxChanges
        /\ calls[r].time <= store.file[FileOf[calls[r].f]]
    BY <2>1, <1>0, CacheBusy DEF Data!Idle
  <2>3. CASE store.stamp[FileOf[calls[r].f]] = calls[r].time
    <3>1. NotOlder(calls[r].f, calls[r].time)
      BY <2>2, <2>3, <1>0, CacheFields DEF StampIsKept, Data!Missing
    <3>2. LET c == Data!At("memo", calls[r].f, calls[r].time) IN
          /\ c \in [at : Data!Phases, f : Functions, time : Data!Times]
          /\ c.time <= store.file[FileOf[c.f]] /\ c.at # "set"
          /\ NotOlder(c.f, c.time)
      BY <2>2, <3>1 DEF Data!At, Data!Phases, Data!Times
    <3>3. calls' = [calls EXCEPT ![r] = Data!At("memo", calls[r].f, calls[r].time)]
      BY <2>1, <2>3
    <3> QED
      BY <3>2, <3>3, <1>3, CacheMoved DEF Data!check_db_timestamp_and_cache_validity
  <2>4. CASE store.stamp[FileOf[calls[r].f]] # calls[r].time
    <3>2. LET c == Data!At("clear", calls[r].f, calls[r].time) IN
          /\ c \in [at : Data!Phases, f : Functions, time : Data!Times]
          /\ c.time <= store.file[FileOf[c.f]] /\ c.at # "set" /\ c.at # "memo"
      BY <2>2 DEF Data!At, Data!Phases, Data!Times
    <3>3. calls' = [calls EXCEPT ![r] = Data!At("clear", calls[r].f, calls[r].time)]
      BY <2>1, <2>4
    <3> QED
      BY <3>2, <3>3, <1>3, CacheMoved DEF Data!check_db_timestamp_and_cache_validity
  <2> QED
    BY <2>3, <2>4
<1>4. CASE Data!clear
  BY <1>4, CacheEmptied
<1>5. CASE Data!set
  BY <1>5, CacheStamped
<1>6. CASE Data!hit
  BY <1>6, CacheMoved DEF Data!hit
<1>7. CASE Data!query
  <2>1. PICK r \in Requests :
           /\ calls[r].at = "memo"
           /\ calls' = [calls EXCEPT ![r] =
                 Data!At("memoize", calls[r].f, store.file[FileOf[calls[r].f]])]
    BY <1>7 DEF Data!query
  <2>2. calls[r].f \in Functions /\ store.file[FileOf[calls[r].f]] \in Data!Times
    BY <2>1, <1>0, CacheBusy, CacheFields DEF Data!Idle, Data!Times
  <2>3. LET c == Data!At("memoize", calls[r].f, store.file[FileOf[calls[r].f]]) IN
        /\ c \in [at : Data!Phases, f : Functions, time : Data!Times]
        /\ c.time <= store.file[FileOf[c.f]] /\ c.at # "set" /\ c.at # "memo"
    BY <2>2 DEF Data!At, Data!Phases, Data!Times, Data!CacheAssumption
  <2> QED
    BY <2>1, <2>3, <1>7, CacheMoved DEF Data!query
<1>8. CASE Data!memoize
  BY <1>8, CacheMemoized
<1>9. CASE Data!lost
  BY <1>9, CacheMoved DEF Data!lost
<1>10. CASE UNCHANGED <<store, calls, ui, alive>>
  BY <1>0, <1>10 DEF CacheInv, Data!TypeOK, StampIsKept, RequestsAgree, NotOlder
<1> QED
  BY <1>1, <1>2, <1>3, <1>4, <1>5, <1>6, <1>7, <1>8, <1>9, <1>10 DEF Data!Next

\* What that invariant says of types and of answers.
LEMMA CacheHolds == ASSUME CacheInv PROVE Data!TypeOK /\ Data!AnswerIsCurrent
  BY DEF CacheInv, RequestsAgree, NotOlder, Data!AnswerIsCurrent

----------------------------------------------------------------------------
\* Files, cache and requests keep their types, and no request holds a time
\* its file has not had.
THEOREM CacheTypes ==
    ASSUME Data!CacheAssumption
    PROVE  Data!Spec => []Data!TypeOK
<1>1. Data!Init => CacheInv
  BY CacheStart
<1>2. CacheInv /\ [Data!Next]_<<store, calls, ui, alive>> => CacheInv'
  BY CacheStep
<1>3. CacheInv => Data!TypeOK
  BY CacheHolds
<1> QED
  BY <1>1, <1>2, <1>3, PTL DEF Data!Spec, Data!vars

\* However many requests and files there are and however their steps
\* interleave, fail and stop, a request that finds an answer in the cache finds
\* one read from the file as it was when the request looked, or later, unless
\* the entry came late.
THEOREM AnswersAreCurrent ==
    ASSUME Data!CacheAssumption
    PROVE  Data!Spec => []Data!AnswerIsCurrent
<1>1. Data!Init => CacheInv
  BY CacheStart
<1>2. CacheInv /\ [Data!Next]_<<store, calls, ui, alive>> => CacheInv'
  BY CacheStep
<1>3. CacheInv => Data!AnswerIsCurrent
  BY CacheHolds
<1> QED
  BY <1>1, <1>2, <1>3, PTL DEF Data!Spec, Data!vars
-----------------------------------------------------------------------------
(* The key pairs.  A request works through a list of steps, and no list    *)
(* has a step twice.                                                       *)

StepNames == {"row", "storageHost", "tapis", "loginHost", "read", "add", "enable"}

Todos ==
  {<<"row", "storageHost", "tapis", "loginHost", "read", "add">>,
   <<"storageHost", "tapis", "loginHost", "read", "add">>,
   <<"tapis", "row", "storageHost", "read", "add">>,
   <<"tapis", "loginHost", "read", "add">>,
   <<"row", "storageHost", "tapis", "loginHost">>,
   <<"row", "storageHost", "read", "add">>,
   <<"enable", "tapis", "storageHost", "row">>,
   <<"loginHost", "read", "add">>,
   <<"storageHost", "tapis", "loginHost">>,
   <<"storageHost", "read", "add">>,
   <<"tapis", "row", "storageHost">>,
   <<"tapis", "storageHost", "row">>,
   <<"read", "add">>,
   <<"tapis", "loginHost">>,
   <<"row", "storageHost">>,
   <<"storageHost", "row">>,
   <<"add">>,
   <<"loginHost">>,
   <<"storageHost">>,
   <<"row">>,
   <<"tapis">>}

Left(todo) == {todo[i] : i \in 1..Len(todo)}

\* The steps that are left of a list of one,
LEMMA OneLeft == ASSUME NEW t, Len(t) = 1 PROVE Left(t) = {t[1]}
<1>1. 1..Len(t) = {1}
  OBVIOUS
<1> QED
  BY <1>1 DEF Left

\* of two,
LEMMA TwoLeft == ASSUME NEW t, Len(t) = 2 PROVE Left(t) = {t[1], t[2]}
<1>1. 1..Len(t) = {1, 2}
  OBVIOUS
<1> QED
  BY <1>1 DEF Left

\* of three,
LEMMA ThreeLeft == ASSUME NEW t, Len(t) = 3 PROVE Left(t) = {t[1], t[2], t[3]}
<1>1. 1..Len(t) = {1, 2, 3}
  OBVIOUS
<1> QED
  BY <1>1 DEF Left

\* of four,
LEMMA FourLeft == ASSUME NEW t, Len(t) = 4 PROVE Left(t) = {t[1], t[2], t[3], t[4]}
<1>1. 1..Len(t) = {1, 2, 3, 4}
  OBVIOUS
<1> QED
  BY <1>1 DEF Left

\* of five,
LEMMA FiveLeft == ASSUME NEW t, Len(t) = 5 PROVE Left(t) = {t[1], t[2], t[3], t[4], t[5]}
<1>1. 1..Len(t) = {1, 2, 3, 4, 5}
  OBVIOUS
<1> QED
  BY <1>1 DEF Left

\* and of six steps, which is the longest there is.
LEMMA SixLeft == ASSUME NEW t, Len(t) = 6
  PROVE Left(t) = {t[1], t[2], t[3], t[4], t[5], t[6]}
<1>1. 1..Len(t) = {1, 2, 3, 4, 5, 6}
  OBVIOUS
<1> QED
  BY <1>1 DEF Left

(* What is left after a step, and that a push ends with its two.           *)
StepsOn(t) ==
  /\ t # <<>> /\ Head(t) \in Left(t) /\ Left(t) \subseteq StepNames
  /\ Len(t) > 1 => Tail(t) \in Todos /\ Left(Tail(t)) = Left(t) \ {Head(t)}
  /\ ~(Len(t) > 1) => Left(t) = {Head(t)}
  /\ Head(t) = "read" => Left(t) = {"read", "add"} /\ Tail(t) = <<"add">> /\ Len(t) > 1
  /\ Head(t) = "add" => Left(t) = {"add"}

\* What the steps after the first are, for each list a request may have.
LEMMA TodoSteps ==
  ASSUME NEW t \in Todos
  PROVE  StepsOn(t)
<1>1. CASE t = <<"row", "storageHost", "tapis", "loginHost", "read", "add">>
  <2>1. Len(t) = 6 /\ Head(t) = "row" /\ t # <<>>
    BY <1>1
  <2>2. Left(t) = {"row", "storageHost", "tapis", "loginHost", "read", "add"}
    <3>1. t[1] = "row" /\ t[2] = "storageHost" /\ t[3] = "tapis" /\ t[4] = "loginHost"
          /\ t[5] = "read" /\ t[6] = "add"
      BY <1>1
    <3> QED
      BY <2>1, <3>1, SixLeft
  <2>3. PICK r : r = <<"storageHost", "tapis", "loginHost", "read", "add">>
    OBVIOUS
  <2>4. Tail(t) = r
    BY <1>1, <2>3
  <2>5. Left(r) = {"storageHost", "tapis", "loginHost", "read", "add"}
    <3>1. Len(r) = 5 /\ r[1] = "storageHost" /\ r[2] = "tapis" /\ r[3] = "loginHost"
          /\ r[4] = "read" /\ r[5] = "add"
      BY <2>3
    <3> QED
      BY <3>1, FiveLeft
  <2>6. r \in Todos
    BY <2>3, Zenon DEF Todos
  <2>7. Left(Tail(t)) = Left(t) \ {Head(t)}
    <3>1. Left(Tail(t)) = {"storageHost", "tapis", "loginHost", "read", "add"}
      BY <2>4, <2>5
    <3>2. Left(t) \ {Head(t)} = {"storageHost", "tapis", "loginHost", "read", "add"}
      BY ONLY <2>1, <2>2
    <3> QED
      BY <3>1, <3>2
  <2>8. Tail(t) \in Todos
    BY <2>4, <2>6
  <2>9. Left(t) \subseteq StepNames /\ Head(t) \in Left(t)
    BY ONLY <2>1, <2>2 DEF StepNames
  <2> QED
    BY ONLY <2>1, <2>7, <2>8, <2>9 DEF StepsOn
<1>2. CASE t = <<"storageHost", "tapis", "loginHost", "read", "add">>
  <2>1. Len(t) = 5 /\ Head(t) = "storageHost" /\ t # <<>>
    BY <1>2
  <2>2. Left(t) = {"storageHost", "tapis", "loginHost", "read", "add"}
    <3>1. t[1] = "storageHost" /\ t[2] = "tapis" /\ t[3] = "loginHost" /\ t[4] = "read"
          /\ t[5] = "add"
      BY <1>2
    <3> QED
      BY <2>1, <3>1, FiveLeft
  <2>3. PICK r : r = <<"tapis", "loginHost", "read", "add">>
    OBVIOUS
  <2>4. Tail(t) = r
    BY <1>2, <2>3
  <2>5. Left(r) = {"tapis", "loginHost", "read", "add"}
    <3>1. Len(r) = 4 /\ r[1] = "tapis" /\ r[2] = "loginHost" /\ r[3] = "read"
          /\ r[4] = "add"
      BY <2>3
    <3> QED
      BY <3>1, FourLeft
  <2>6. r \in Todos
    BY <2>3, Zenon DEF Todos
  <2>7. Left(Tail(t)) = Left(t) \ {Head(t)}
    <3>1. Left(Tail(t)) = {"tapis", "loginHost", "read", "add"}
      BY <2>4, <2>5
    <3>2. Left(t) \ {Head(t)} = {"tapis", "loginHost", "read", "add"}
      BY ONLY <2>1, <2>2
    <3> QED
      BY <3>1, <3>2
  <2>8. Tail(t) \in Todos
    BY <2>4, <2>6
  <2>9. Left(t) \subseteq StepNames /\ Head(t) \in Left(t)
    BY ONLY <2>1, <2>2 DEF StepNames
  <2> QED
    BY ONLY <2>1, <2>7, <2>8, <2>9 DEF StepsOn
<1>3. CASE t = <<"tapis", "row", "storageHost", "read", "add">>
  <2>1. Len(t) = 5 /\ Head(t) = "tapis" /\ t # <<>>
    BY <1>3
  <2>2. Left(t) = {"tapis", "row", "storageHost", "read", "add"}
    <3>1. t[1] = "tapis" /\ t[2] = "row" /\ t[3] = "storageHost" /\ t[4] = "read"
          /\ t[5] = "add"
      BY <1>3
    <3> QED
      BY <2>1, <3>1, FiveLeft
  <2>3. PICK r : r = <<"row", "storageHost", "read", "add">>
    OBVIOUS
  <2>4. Tail(t) = r
    BY <1>3, <2>3
  <2>5. Left(r) = {"row", "storageHost", "read", "add"}
    <3>1. Len(r) = 4 /\ r[1] = "row" /\ r[2] = "storageHost" /\ r[3] = "read"
          /\ r[4] = "add"
      BY <2>3
    <3> QED
      BY <3>1, FourLeft
  <2>6. r \in Todos
    BY <2>3, Zenon DEF Todos
  <2>7. Left(Tail(t)) = Left(t) \ {Head(t)}
    <3>1. Left(Tail(t)) = {"row", "storageHost", "read", "add"}
      BY <2>4, <2>5
    <3>2. Left(t) \ {Head(t)} = {"row", "storageHost", "read", "add"}
      BY ONLY <2>1, <2>2
    <3> QED
      BY <3>1, <3>2
  <2>8. Tail(t) \in Todos
    BY <2>4, <2>6
  <2>9. Left(t) \subseteq StepNames /\ Head(t) \in Left(t)
    BY ONLY <2>1, <2>2 DEF StepNames
  <2> QED
    BY ONLY <2>1, <2>7, <2>8, <2>9 DEF StepsOn
<1>4. CASE t = <<"tapis", "loginHost", "read", "add">>
  <2>1. Len(t) = 4 /\ Head(t) = "tapis" /\ t # <<>>
    BY <1>4
  <2>2. Left(t) = {"tapis", "loginHost", "read", "add"}
    <3>1. t[1] = "tapis" /\ t[2] = "loginHost" /\ t[3] = "read" /\ t[4] = "add"
      BY <1>4
    <3> QED
      BY <2>1, <3>1, FourLeft
  <2>3. PICK r : r = <<"loginHost", "read", "add">>
    OBVIOUS
  <2>4. Tail(t) = r
    BY <1>4, <2>3
  <2>5. Left(r) = {"loginHost", "read", "add"}
    <3>1. Len(r) = 3 /\ r[1] = "loginHost" /\ r[2] = "read" /\ r[3] = "add"
      BY <2>3
    <3> QED
      BY <3>1, ThreeLeft
  <2>6. r \in Todos
    BY <2>3, Zenon DEF Todos
  <2>7. Left(Tail(t)) = Left(t) \ {Head(t)}
    <3>1. Left(Tail(t)) = {"loginHost", "read", "add"}
      BY <2>4, <2>5
    <3>2. Left(t) \ {Head(t)} = {"loginHost", "read", "add"}
      BY ONLY <2>1, <2>2
    <3> QED
      BY <3>1, <3>2
  <2>8. Tail(t) \in Todos
    BY <2>4, <2>6
  <2>9. Left(t) \subseteq StepNames /\ Head(t) \in Left(t)
    BY ONLY <2>1, <2>2 DEF StepNames
  <2> QED
    BY ONLY <2>1, <2>7, <2>8, <2>9 DEF StepsOn
<1>5. CASE t = <<"row", "storageHost", "tapis", "loginHost">>
  <2>1. Len(t) = 4 /\ Head(t) = "row" /\ t # <<>>
    BY <1>5
  <2>2. Left(t) = {"row", "storageHost", "tapis", "loginHost"}
    <3>1. t[1] = "row" /\ t[2] = "storageHost" /\ t[3] = "tapis" /\ t[4] = "loginHost"
      BY <1>5
    <3> QED
      BY <2>1, <3>1, FourLeft
  <2>3. PICK r : r = <<"storageHost", "tapis", "loginHost">>
    OBVIOUS
  <2>4. Tail(t) = r
    BY <1>5, <2>3
  <2>5. Left(r) = {"storageHost", "tapis", "loginHost"}
    <3>1. Len(r) = 3 /\ r[1] = "storageHost" /\ r[2] = "tapis" /\ r[3] = "loginHost"
      BY <2>3
    <3> QED
      BY <3>1, ThreeLeft
  <2>6. r \in Todos
    BY <2>3, Zenon DEF Todos
  <2>7. Left(Tail(t)) = Left(t) \ {Head(t)}
    <3>1. Left(Tail(t)) = {"storageHost", "tapis", "loginHost"}
      BY <2>4, <2>5
    <3>2. Left(t) \ {Head(t)} = {"storageHost", "tapis", "loginHost"}
      BY ONLY <2>1, <2>2
    <3> QED
      BY <3>1, <3>2
  <2>8. Tail(t) \in Todos
    BY <2>4, <2>6
  <2>9. Left(t) \subseteq StepNames /\ Head(t) \in Left(t)
    BY ONLY <2>1, <2>2 DEF StepNames
  <2> QED
    BY ONLY <2>1, <2>7, <2>8, <2>9 DEF StepsOn
<1>6. CASE t = <<"row", "storageHost", "read", "add">>
  <2>1. Len(t) = 4 /\ Head(t) = "row" /\ t # <<>>
    BY <1>6
  <2>2. Left(t) = {"row", "storageHost", "read", "add"}
    <3>1. t[1] = "row" /\ t[2] = "storageHost" /\ t[3] = "read" /\ t[4] = "add"
      BY <1>6
    <3> QED
      BY <2>1, <3>1, FourLeft
  <2>3. PICK r : r = <<"storageHost", "read", "add">>
    OBVIOUS
  <2>4. Tail(t) = r
    BY <1>6, <2>3
  <2>5. Left(r) = {"storageHost", "read", "add"}
    <3>1. Len(r) = 3 /\ r[1] = "storageHost" /\ r[2] = "read" /\ r[3] = "add"
      BY <2>3
    <3> QED
      BY <3>1, ThreeLeft
  <2>6. r \in Todos
    BY <2>3, Zenon DEF Todos
  <2>7. Left(Tail(t)) = Left(t) \ {Head(t)}
    <3>1. Left(Tail(t)) = {"storageHost", "read", "add"}
      BY <2>4, <2>5
    <3>2. Left(t) \ {Head(t)} = {"storageHost", "read", "add"}
      BY ONLY <2>1, <2>2
    <3> QED
      BY <3>1, <3>2
  <2>8. Tail(t) \in Todos
    BY <2>4, <2>6
  <2>9. Left(t) \subseteq StepNames /\ Head(t) \in Left(t)
    BY ONLY <2>1, <2>2 DEF StepNames
  <2> QED
    BY ONLY <2>1, <2>7, <2>8, <2>9 DEF StepsOn
<1>7. CASE t = <<"enable", "tapis", "storageHost", "row">>
  <2>1. Len(t) = 4 /\ Head(t) = "enable" /\ t # <<>>
    BY <1>7
  <2>2. Left(t) = {"enable", "tapis", "storageHost", "row"}
    <3>1. t[1] = "enable" /\ t[2] = "tapis" /\ t[3] = "storageHost" /\ t[4] = "row"
      BY <1>7
    <3> QED
      BY <2>1, <3>1, FourLeft
  <2>3. PICK r : r = <<"tapis", "storageHost", "row">>
    OBVIOUS
  <2>4. Tail(t) = r
    BY <1>7, <2>3
  <2>5. Left(r) = {"tapis", "storageHost", "row"}
    <3>1. Len(r) = 3 /\ r[1] = "tapis" /\ r[2] = "storageHost" /\ r[3] = "row"
      BY <2>3
    <3> QED
      BY <3>1, ThreeLeft
  <2>6. r \in Todos
    BY <2>3, Zenon DEF Todos
  <2>7. Left(Tail(t)) = Left(t) \ {Head(t)}
    <3>1. Left(Tail(t)) = {"tapis", "storageHost", "row"}
      BY <2>4, <2>5
    <3>2. Left(t) \ {Head(t)} = {"tapis", "storageHost", "row"}
      BY ONLY <2>1, <2>2
    <3> QED
      BY <3>1, <3>2
  <2>8. Tail(t) \in Todos
    BY <2>4, <2>6
  <2>9. Left(t) \subseteq StepNames /\ Head(t) \in Left(t)
    BY ONLY <2>1, <2>2 DEF StepNames
  <2> QED
    BY ONLY <2>1, <2>7, <2>8, <2>9 DEF StepsOn
<1>8. CASE t = <<"loginHost", "read", "add">>
  <2>1. Len(t) = 3 /\ Head(t) = "loginHost" /\ t # <<>>
    BY <1>8
  <2>2. Left(t) = {"loginHost", "read", "add"}
    <3>1. t[1] = "loginHost" /\ t[2] = "read" /\ t[3] = "add"
      BY <1>8
    <3> QED
      BY <2>1, <3>1, ThreeLeft
  <2>3. PICK r : r = <<"read", "add">>
    OBVIOUS
  <2>4. Tail(t) = r
    BY <1>8, <2>3
  <2>5. Left(r) = {"read", "add"}
    <3>1. Len(r) = 2 /\ r[1] = "read" /\ r[2] = "add"
      BY <2>3
    <3> QED
      BY <3>1, TwoLeft
  <2>6. r \in Todos
    BY <2>3, Zenon DEF Todos
  <2>7. Left(Tail(t)) = Left(t) \ {Head(t)}
    <3>1. Left(Tail(t)) = {"read", "add"}
      BY <2>4, <2>5
    <3>2. Left(t) \ {Head(t)} = {"read", "add"}
      BY ONLY <2>1, <2>2
    <3> QED
      BY <3>1, <3>2
  <2>8. Tail(t) \in Todos
    BY <2>4, <2>6
  <2>9. Left(t) \subseteq StepNames /\ Head(t) \in Left(t)
    BY ONLY <2>1, <2>2 DEF StepNames
  <2> QED
    BY ONLY <2>1, <2>7, <2>8, <2>9 DEF StepsOn
<1>9. CASE t = <<"storageHost", "tapis", "loginHost">>
  <2>1. Len(t) = 3 /\ Head(t) = "storageHost" /\ t # <<>>
    BY <1>9
  <2>2. Left(t) = {"storageHost", "tapis", "loginHost"}
    <3>1. t[1] = "storageHost" /\ t[2] = "tapis" /\ t[3] = "loginHost"
      BY <1>9
    <3> QED
      BY <2>1, <3>1, ThreeLeft
  <2>3. PICK r : r = <<"tapis", "loginHost">>
    OBVIOUS
  <2>4. Tail(t) = r
    BY <1>9, <2>3
  <2>5. Left(r) = {"tapis", "loginHost"}
    <3>1. Len(r) = 2 /\ r[1] = "tapis" /\ r[2] = "loginHost"
      BY <2>3
    <3> QED
      BY <3>1, TwoLeft
  <2>6. r \in Todos
    BY <2>3, Zenon DEF Todos
  <2>7. Left(Tail(t)) = Left(t) \ {Head(t)}
    <3>1. Left(Tail(t)) = {"tapis", "loginHost"}
      BY <2>4, <2>5
    <3>2. Left(t) \ {Head(t)} = {"tapis", "loginHost"}
      BY ONLY <2>1, <2>2
    <3> QED
      BY <3>1, <3>2
  <2>8. Tail(t) \in Todos
    BY <2>4, <2>6
  <2>9. Left(t) \subseteq StepNames /\ Head(t) \in Left(t)
    BY ONLY <2>1, <2>2 DEF StepNames
  <2> QED
    BY ONLY <2>1, <2>7, <2>8, <2>9 DEF StepsOn
<1>10. CASE t = <<"storageHost", "read", "add">>
  <2>1. Len(t) = 3 /\ Head(t) = "storageHost" /\ t # <<>>
    BY <1>10
  <2>2. Left(t) = {"storageHost", "read", "add"}
    <3>1. t[1] = "storageHost" /\ t[2] = "read" /\ t[3] = "add"
      BY <1>10
    <3> QED
      BY <2>1, <3>1, ThreeLeft
  <2>3. PICK r : r = <<"read", "add">>
    OBVIOUS
  <2>4. Tail(t) = r
    BY <1>10, <2>3
  <2>5. Left(r) = {"read", "add"}
    <3>1. Len(r) = 2 /\ r[1] = "read" /\ r[2] = "add"
      BY <2>3
    <3> QED
      BY <3>1, TwoLeft
  <2>6. r \in Todos
    BY <2>3, Zenon DEF Todos
  <2>7. Left(Tail(t)) = Left(t) \ {Head(t)}
    <3>1. Left(Tail(t)) = {"read", "add"}
      BY <2>4, <2>5
    <3>2. Left(t) \ {Head(t)} = {"read", "add"}
      BY ONLY <2>1, <2>2
    <3> QED
      BY <3>1, <3>2
  <2>8. Tail(t) \in Todos
    BY <2>4, <2>6
  <2>9. Left(t) \subseteq StepNames /\ Head(t) \in Left(t)
    BY ONLY <2>1, <2>2 DEF StepNames
  <2> QED
    BY ONLY <2>1, <2>7, <2>8, <2>9 DEF StepsOn
<1>11. CASE t = <<"tapis", "row", "storageHost">>
  <2>1. Len(t) = 3 /\ Head(t) = "tapis" /\ t # <<>>
    BY <1>11
  <2>2. Left(t) = {"tapis", "row", "storageHost"}
    <3>1. t[1] = "tapis" /\ t[2] = "row" /\ t[3] = "storageHost"
      BY <1>11
    <3> QED
      BY <2>1, <3>1, ThreeLeft
  <2>3. PICK r : r = <<"row", "storageHost">>
    OBVIOUS
  <2>4. Tail(t) = r
    BY <1>11, <2>3
  <2>5. Left(r) = {"row", "storageHost"}
    <3>1. Len(r) = 2 /\ r[1] = "row" /\ r[2] = "storageHost"
      BY <2>3
    <3> QED
      BY <3>1, TwoLeft
  <2>6. r \in Todos
    BY <2>3, Zenon DEF Todos
  <2>7. Left(Tail(t)) = Left(t) \ {Head(t)}
    <3>1. Left(Tail(t)) = {"row", "storageHost"}
      BY <2>4, <2>5
    <3>2. Left(t) \ {Head(t)} = {"row", "storageHost"}
      BY ONLY <2>1, <2>2
    <3> QED
      BY <3>1, <3>2
  <2>8. Tail(t) \in Todos
    BY <2>4, <2>6
  <2>9. Left(t) \subseteq StepNames /\ Head(t) \in Left(t)
    BY ONLY <2>1, <2>2 DEF StepNames
  <2> QED
    BY ONLY <2>1, <2>7, <2>8, <2>9 DEF StepsOn
<1>12. CASE t = <<"tapis", "storageHost", "row">>
  <2>1. Len(t) = 3 /\ Head(t) = "tapis" /\ t # <<>>
    BY <1>12
  <2>2. Left(t) = {"tapis", "storageHost", "row"}
    <3>1. t[1] = "tapis" /\ t[2] = "storageHost" /\ t[3] = "row"
      BY <1>12
    <3> QED
      BY <2>1, <3>1, ThreeLeft
  <2>3. PICK r : r = <<"storageHost", "row">>
    OBVIOUS
  <2>4. Tail(t) = r
    BY <1>12, <2>3
  <2>5. Left(r) = {"storageHost", "row"}
    <3>1. Len(r) = 2 /\ r[1] = "storageHost" /\ r[2] = "row"
      BY <2>3
    <3> QED
      BY <3>1, TwoLeft
  <2>6. r \in Todos
    BY <2>3, Zenon DEF Todos
  <2>7. Left(Tail(t)) = Left(t) \ {Head(t)}
    <3>1. Left(Tail(t)) = {"storageHost", "row"}
      BY <2>4, <2>5
    <3>2. Left(t) \ {Head(t)} = {"storageHost", "row"}
      BY ONLY <2>1, <2>2
    <3> QED
      BY <3>1, <3>2
  <2>8. Tail(t) \in Todos
    BY <2>4, <2>6
  <2>9. Left(t) \subseteq StepNames /\ Head(t) \in Left(t)
    BY ONLY <2>1, <2>2 DEF StepNames
  <2> QED
    BY ONLY <2>1, <2>7, <2>8, <2>9 DEF StepsOn
<1>13. CASE t = <<"read", "add">>
  <2>1. Len(t) = 2 /\ Head(t) = "read" /\ t # <<>>
    BY <1>13
  <2>2. Left(t) = {"read", "add"}
    <3>1. t[1] = "read" /\ t[2] = "add"
      BY <1>13
    <3> QED
      BY <2>1, <3>1, TwoLeft
  <2>3. PICK r : r = <<"add">>
    OBVIOUS
  <2>4. Tail(t) = r
    BY <1>13, <2>3
  <2>5. Left(r) = {"add"}
    <3>1. Len(r) = 1 /\ r[1] = "add"
      BY <2>3
    <3> QED
      BY <3>1, OneLeft
  <2>6. r \in Todos
    BY <2>3, Zenon DEF Todos
  <2>7. Left(Tail(t)) = Left(t) \ {Head(t)}
    <3>1. Left(Tail(t)) = {"add"}
      BY <2>4, <2>5
    <3>2. Left(t) \ {Head(t)} = {"add"}
      BY ONLY <2>1, <2>2
    <3> QED
      BY <3>1, <3>2
  <2>8. Tail(t) \in Todos
    BY <2>4, <2>6
  <2>9. Left(t) \subseteq StepNames /\ Head(t) \in Left(t)
    BY ONLY <2>1, <2>2 DEF StepNames
  <2>10. Tail(t) = <<"add">>
    BY <2>3, <2>4
  <2> QED
    BY ONLY <2>1, <2>2, <2>7, <2>8, <2>9, <2>10 DEF StepsOn
<1>14. CASE t = <<"tapis", "loginHost">>
  <2>1. Len(t) = 2 /\ Head(t) = "tapis" /\ t # <<>>
    BY <1>14
  <2>2. Left(t) = {"tapis", "loginHost"}
    <3>1. t[1] = "tapis" /\ t[2] = "loginHost"
      BY <1>14
    <3> QED
      BY <2>1, <3>1, TwoLeft
  <2>3. PICK r : r = <<"loginHost">>
    OBVIOUS
  <2>4. Tail(t) = r
    BY <1>14, <2>3
  <2>5. Left(r) = {"loginHost"}
    <3>1. Len(r) = 1 /\ r[1] = "loginHost"
      BY <2>3
    <3> QED
      BY <3>1, OneLeft
  <2>6. r \in Todos
    BY <2>3, Zenon DEF Todos
  <2>7. Left(Tail(t)) = Left(t) \ {Head(t)}
    <3>1. Left(Tail(t)) = {"loginHost"}
      BY <2>4, <2>5
    <3>2. Left(t) \ {Head(t)} = {"loginHost"}
      BY ONLY <2>1, <2>2
    <3> QED
      BY <3>1, <3>2
  <2>8. Tail(t) \in Todos
    BY <2>4, <2>6
  <2>9. Left(t) \subseteq StepNames /\ Head(t) \in Left(t)
    BY ONLY <2>1, <2>2 DEF StepNames
  <2> QED
    BY ONLY <2>1, <2>7, <2>8, <2>9 DEF StepsOn
<1>15. CASE t = <<"row", "storageHost">>
  <2>1. Len(t) = 2 /\ Head(t) = "row" /\ t # <<>>
    BY <1>15
  <2>2. Left(t) = {"row", "storageHost"}
    <3>1. t[1] = "row" /\ t[2] = "storageHost"
      BY <1>15
    <3> QED
      BY <2>1, <3>1, TwoLeft
  <2>3. PICK r : r = <<"storageHost">>
    OBVIOUS
  <2>4. Tail(t) = r
    BY <1>15, <2>3
  <2>5. Left(r) = {"storageHost"}
    <3>1. Len(r) = 1 /\ r[1] = "storageHost"
      BY <2>3
    <3> QED
      BY <3>1, OneLeft
  <2>6. r \in Todos
    BY <2>3, Zenon DEF Todos
  <2>7. Left(Tail(t)) = Left(t) \ {Head(t)}
    <3>1. Left(Tail(t)) = {"storageHost"}
      BY <2>4, <2>5
    <3>2. Left(t) \ {Head(t)} = {"storageHost"}
      BY ONLY <2>1, <2>2
    <3> QED
      BY <3>1, <3>2
  <2>8. Tail(t) \in Todos
    BY <2>4, <2>6
  <2>9. Left(t) \subseteq StepNames /\ Head(t) \in Left(t)
    BY ONLY <2>1, <2>2 DEF StepNames
  <2> QED
    BY ONLY <2>1, <2>7, <2>8, <2>9 DEF StepsOn
<1>16. CASE t = <<"storageHost", "row">>
  <2>1. Len(t) = 2 /\ Head(t) = "storageHost" /\ t # <<>>
    BY <1>16
  <2>2. Left(t) = {"storageHost", "row"}
    <3>1. t[1] = "storageHost" /\ t[2] = "row"
      BY <1>16
    <3> QED
      BY <2>1, <3>1, TwoLeft
  <2>3. PICK r : r = <<"row">>
    OBVIOUS
  <2>4. Tail(t) = r
    BY <1>16, <2>3
  <2>5. Left(r) = {"row"}
    <3>1. Len(r) = 1 /\ r[1] = "row"
      BY <2>3
    <3> QED
      BY <3>1, OneLeft
  <2>6. r \in Todos
    BY <2>3, Zenon DEF Todos
  <2>7. Left(Tail(t)) = Left(t) \ {Head(t)}
    <3>1. Left(Tail(t)) = {"row"}
      BY <2>4, <2>5
    <3>2. Left(t) \ {Head(t)} = {"row"}
      BY ONLY <2>1, <2>2
    <3> QED
      BY <3>1, <3>2
  <2>8. Tail(t) \in Todos
    BY <2>4, <2>6
  <2>9. Left(t) \subseteq StepNames /\ Head(t) \in Left(t)
    BY ONLY <2>1, <2>2 DEF StepNames
  <2> QED
    BY ONLY <2>1, <2>7, <2>8, <2>9 DEF StepsOn
<1>17. CASE t = <<"add">>
  <2>1. Len(t) = 1 /\ Head(t) = "add" /\ t # <<>>
    BY <1>17
  <2>2. Left(t) = {"add"}
    <3>1. t[1] = "add"
      BY <1>17
    <3> QED
      BY <2>1, <3>1, OneLeft
  <2> QED
    BY <2>1, <2>2 DEF StepsOn, StepNames
<1>18. CASE t = <<"loginHost">>
  <2>1. Len(t) = 1 /\ Head(t) = "loginHost" /\ t # <<>>
    BY <1>18
  <2>2. Left(t) = {"loginHost"}
    <3>1. t[1] = "loginHost"
      BY <1>18
    <3> QED
      BY <2>1, <3>1, OneLeft
  <2> QED
    BY <2>1, <2>2 DEF StepsOn, StepNames
<1>19. CASE t = <<"storageHost">>
  <2>1. Len(t) = 1 /\ Head(t) = "storageHost" /\ t # <<>>
    BY <1>19
  <2>2. Left(t) = {"storageHost"}
    <3>1. t[1] = "storageHost"
      BY <1>19
    <3> QED
      BY <2>1, <3>1, OneLeft
  <2> QED
    BY <2>1, <2>2 DEF StepsOn, StepNames
<1>20. CASE t = <<"row">>
  <2>1. Len(t) = 1 /\ Head(t) = "row" /\ t # <<>>
    BY <1>20
  <2>2. Left(t) = {"row"}
    <3>1. t[1] = "row"
      BY <1>20
    <3> QED
      BY <2>1, <3>1, OneLeft
  <2> QED
    BY <2>1, <2>2 DEF StepsOn, StepNames
<1>21. CASE t = <<"tapis">>
  <2>1. Len(t) = 1 /\ Head(t) = "tapis" /\ t # <<>>
    BY <1>21
  <2>2. Left(t) = {"tapis"}
    <3>1. t[1] = "tapis"
      BY <1>21
    <3> QED
      BY <2>1, <3>1, OneLeft
  <2> QED
    BY <2>1, <2>2 DEF StepsOn, StepNames
<1> QED
  BY <1>1, <1>2, <1>3, <1>4, <1>5, <1>6, <1>7, <1>8, <1>9, <1>10, <1>11, <1>12, <1>13,
     <1>14, <1>15, <1>16, <1>17, <1>18, <1>19, <1>20, <1>21, Zenon DEF Todos

(* The two steps of a push come after the others.                          *)
LEMMA WithTwo ==
  ASSUME NEW S, NEW s \in Seq(S), NEW u \in Seq(S), NEW d \in S, NEW e \in S,
         Len(u) = Len(s) + 2, \A i \in 1..Len(s) : u[i] = s[i],
         u[Len(s) + 1] = d, u[Len(s) + 2] = e
  PROVE  s \o <<d, e>> = u
<1> DEFINE t == <<d, e>>
           w == s \o t
<1>1. t \in Seq(S) /\ Len(t) = 2 /\ t[1] = d /\ t[2] = e
  OBVIOUS
<1> HIDE DEF t
<1>2. w \in Seq(S) /\ Len(w) = Len(s) + Len(t)
  BY ONLY s \in Seq(S), <1>1, ConcatProperties
<1>3. \A i \in 1..Len(s) + Len(t) : w[i] = IF i <= Len(s) THEN s[i] ELSE t[i - Len(s)]
  BY ONLY s \in Seq(S), <1>1, ConcatProperties
<1>4. Len(s) \in Nat
  OBVIOUS
<1> HIDE DEF w
<1>5. ASSUME NEW i \in 1..Len(w) PROVE w[i] = u[i]
  <2>1. CASE i <= Len(s)
    <3>1. w[i] = s[i]
      BY ONLY i \in 1..Len(w), <1>1, <1>2, <1>3, <1>4, <2>1
    <3> QED
      BY <1>2, <1>4, <2>1, <3>1
  <2>2. CASE ~(i <= Len(s))
    <3>1. w[i] = t[i - Len(s)]
      BY ONLY i \in 1..Len(w), <1>1, <1>2, <1>3, <1>4, <2>2
    <3>2. i = Len(s) + 1 \/ i = Len(s) + 2
      BY <1>1, <1>2, <1>4, <2>2
    <3>3. CASE i = Len(s) + 1
      <4>1. i - Len(s) = 1
        BY <1>4, <3>3
      <4> QED
        BY ONLY <1>1, <3>1, <3>3, <4>1, u[Len(s) + 1] = d
    <3>4. CASE i = Len(s) + 2
      <4>1. i - Len(s) = 2
        BY <1>4, <3>4
      <4> QED
        BY ONLY <1>1, <3>1, <3>4, <4>1, u[Len(s) + 2] = e
    <3> QED
      BY <3>2, <3>3, <3>4
  <2> QED
    BY <2>1, <2>2
<1>6. w = u
  BY ONLY <1>1, <1>2, <1>5, u \in Seq(S), Len(u) = Len(s) + 2, SeqEqual
<1> QED
  BY <1>6 DEF w, t

\* Lists made of two parts.
LEMMA TodoLists ==
  /\ <<"row", "storageHost", "tapis", "loginHost">> \o <<"read", "add">>
       = <<"row", "storageHost", "tapis", "loginHost", "read", "add">>
  /\ <<"row", "storageHost", "tapis", "loginHost">> \o <<>>
     = <<"row", "storageHost", "tapis", "loginHost">>
  /\ <<"tapis", "row", "storageHost">> \o <<"read", "add">>
       = <<"tapis", "row", "storageHost", "read", "add">>
  /\ <<"tapis", "row", "storageHost">> \o <<>> = <<"tapis", "row", "storageHost">>
<1>1. <<"row", "storageHost", "tapis", "loginHost">> \o <<"read", "add">>
      = <<"row", "storageHost", "tapis", "loginHost", "read", "add">>
  <2> DEFINE s == <<"row", "storageHost", "tapis", "loginHost">>
             u == <<"row", "storageHost", "tapis", "loginHost", "read", "add">>
  <2>1. s \in Seq(StepNames) /\ u \in Seq(StepNames) /\ "read" \in StepNames
        /\ "add" \in StepNames
    BY DEF StepNames
  <2>2. Len(s) = 4 /\ Len(u) = 6
    OBVIOUS
  <2>3. s[1] = u[1] /\ s[2] = u[2] /\ s[3] = u[3] /\ s[4] = u[4]
    OBVIOUS
  <2>4. u[5] = "read" /\ u[6] = "add"
    OBVIOUS
  <2> HIDE DEF s, u
  <2>5. \A i \in 1..Len(s) : u[i] = s[i]
    BY <2>2, <2>3
  <2>6. Len(u) = Len(s) + 2 /\ u[Len(s) + 1] = "read" /\ u[Len(s) + 2] = "add"
    BY <2>2, <2>4
  <2>7. s \o <<"read", "add">> = u
    BY ONLY <2>1, <2>5, <2>6, WithTwo
  <2> QED
    BY <2>7 DEF s, u
<1>2. <<"row", "storageHost", "tapis", "loginHost">> \o <<>>
      = <<"row", "storageHost", "tapis", "loginHost">>
  OBVIOUS
<1>3. <<"tapis", "row", "storageHost">> \o <<"read", "add">>
      = <<"tapis", "row", "storageHost", "read", "add">>
  <2> DEFINE s == <<"tapis", "row", "storageHost">>
             u == <<"tapis", "row", "storageHost", "read", "add">>
  <2>1. s \in Seq(StepNames) /\ u \in Seq(StepNames) /\ "read" \in StepNames
        /\ "add" \in StepNames
    BY DEF StepNames
  <2>2. Len(s) = 3 /\ Len(u) = 5
    OBVIOUS
  <2>3. s[1] = u[1] /\ s[2] = u[2] /\ s[3] = u[3]
    OBVIOUS
  <2>4. u[4] = "read" /\ u[5] = "add"
    OBVIOUS
  <2> HIDE DEF s, u
  <2>5. \A i \in 1..Len(s) : u[i] = s[i]
    BY <2>2, <2>3
  <2>6. Len(u) = Len(s) + 2 /\ u[Len(s) + 1] = "read" /\ u[Len(s) + 2] = "add"
    BY <2>2, <2>4
  <2>7. s \o <<"read", "add">> = u
    BY ONLY <2>1, <2>5, <2>6, WithTwo
  <2> QED
    BY <2>7 DEF s, u
<1>4. <<"tapis", "row", "storageHost">> \o <<>> = <<"tapis", "row", "storageHost">>
  OBVIOUS
<1> QED
  BY <1>1, <1>2, <1>3, <1>4
(* What is kept, a set of pairs or of marks at a time.                     *)
KeysTapis == [Systems -> [storage : Keys!Pairs, login : Keys!Pairs]]
KeysStatus == [Systems -> {"absent", "disabled", "available"}]
KeysRow == [Systems -> Keys!Pairs]
KeysHost == [Keys!Hosts -> Keys!Pairs]
KeysAuthorized == [Keys!Hosts -> SUBSET (1..MaxKeys)]
KeysStore == [tapis : KeysTapis, status : KeysStatus, row : KeysRow, host : KeysHost,
              authorized : KeysAuthorized, made : Keys!Pairs]
KeysUi == [kept : SUBSET Systems, pushed : SUBSET Systems]
KeyOps == [todo : Todos, kind : {"reset", "push", "setup", "clone"}, s : Systems,
           key : Keys!Pairs, login : Keys!Pairs, alone : BOOLEAN]

(* Only a push reads the pair of the host and adds it, and it has one pair *)
(* until it has told Tapis.                                                *)
OpOK(op) ==
  /\ Left(op.todo) \cap {"read", "add"} # {} => op.kind = "push"
  /\ "loginHost" \in Left(op.todo) => op.s \in Keys!Execution
  /\ op.kind = "push" =>
       op.key >= 1 /\ ("tapis" \in Left(op.todo) => op.login = op.key)

(* Types, for a store st, open requests cs and marks u.                     *)
KeysTypes(st, cs, u) ==
  /\ st \in KeysStore /\ u \in KeysUi
  /\ cs \in [Callers -> {Keys!Idle} \cup KeyOps]
  /\ \A c \in Callers : cs[c] # Keys!Idle => OpOK(cs[c])

(* No pair is anywhere before it is made.                                  *)
OnlyMade(st, cs) ==
  /\ \A s \in Systems : st.row[s] <= st.made
  /\ \A h \in Keys!Hosts : st.host[h] <= st.made
  /\ \A c \in Callers : cs[c] # Keys!Idle => cs[c].key <= st.made

(* A request is alone when no other open one is about a related system.    *)
AloneAreAlone(cs) ==
  \A c, d \in Callers :
    (c # d /\ cs[c] # Keys!Idle /\ cs[d] # Keys!Idle /\ Keys!Related(cs[c].s, cs[d].s))
      => ~cs[c].alone /\ ~cs[d].alone

(* What a request changes is not said to be settled.                       *)
OpenUnsettled(cs, u) ==
  \A c \in Callers : cs[c] # Keys!Idle => cs[c].s \notin u.kept \cup u.pushed

(* Where Tapis has the pair it logs in with, and the step that gives it to *)
(* the row of the host it logs in to.                                      *)
LoginPair(st, s) == IF s \in Keys!Execution THEN st.tapis[s].login ELSE st.tapis[s].storage
PushStep(s) == IF s \in Keys!Execution THEN "loginHost" ELSE "storageHost"

(* How far a request that is alone has brought its pair.                   *)
Agrees(st, op, left) ==
  op.kind # "clone" =>
    /\ ("row" \notin left /\ "tapis" \notin left) => st.row[op.s] = st.tapis[op.s].storage
    /\ ("row" \notin left /\ "tapis" \in left) => st.row[op.s] = op.key
    /\ ("tapis" \notin left /\ "row" \in left) => st.tapis[op.s].storage = op.key
    /\ (op.kind = "push" /\ "tapis" \notin left) => LoginPair(st, op.s) = op.key
    /\ (op.kind = "push" /\ PushStep(op.s) \notin left /\ "read" \in left)
          => st.host[Keys!PushHost(op.s)] = op.key

\* So it is with every request that is alone.
AloneAgree(st, cs) ==
  \A c \in Callers :
    (cs[c] # Keys!Idle /\ cs[c].alone) => Agrees(st, cs[c], Left(cs[c].todo))

(* What is marked as kept and as pushed: Keys!KeysAgree, of a state in     *)
(* parts, and also while a request is open.                                *)
Settled(st, u) ==
  /\ \A s \in u.kept : st.row[s] = st.tapis[s].storage
  /\ \A s \in u.pushed : LoginPair(st, s) \in st.authorized[Keys!PushHost(s)]

KeysInv(st, cs, u) ==
  /\ KeysTypes(st, cs, u) /\ OnlyMade(st, cs) /\ AloneAreAlone(cs)
  /\ OpenUnsettled(cs, u) /\ AloneAgree(st, cs) /\ Settled(st, u)

KeysNow == KeysInv(store, calls, ui)

\* What the assumption on systems and hosts says.
LEMMA KeysKnown ==
  /\ MaxKeys \in Nat /\ Keys!Execution \subseteq Systems
  /\ \A s \in Systems :
       /\ StorageHost[s] \in Keys!HostsOf(s) /\ Keys!PushHost(s) \in Keys!HostsOf(s)
       /\ s \in Keys!Execution => LoginHost[s] \in Keys!HostsOf(s)
       /\ Keys!HostsOf(s) \subseteq Keys!Hosts /\ Keys!Related(s, s)
  /\ Keys!Pairs \subseteq Nat /\ 0 \in Keys!Pairs
BY WorkbenchAssumption
DEF Keys!KeysAssumption, Keys!HostsOf, Keys!Hosts, Keys!PushHost, Keys!Related, Keys!Pairs

\* What the types say of each part of the store and of an open request.
LEMMA KeysTyped ==
  ASSUME NEW st, NEW cs, NEW u, KeysTypes(st, cs, u)
  PROVE  /\ st.tapis \in KeysTapis /\ st.status \in KeysStatus /\ st.row \in KeysRow
         /\ st.host \in KeysHost /\ st.authorized \in KeysAuthorized
         /\ st.made \in Keys!Pairs
         /\ \A c \in Callers : cs[c] # Keys!Idle => cs[c] \in KeyOps /\ OpOK(cs[c])
         /\ Keys!Idle.todo = <<>>
BY DEF KeysTypes, KeysStore, Keys!Idle

\* Systems without key pairs are in the invariant.
LEMMA KeysStart == ASSUME Keys!Init PROVE KeysNow
<1>1. store \in KeysStore /\ ui \in KeysUi
  <2>1. /\ [s \in Systems |-> Keys!None] \in KeysTapis
        /\ [s \in Systems |-> "absent"] \in KeysStatus
        /\ [s \in Systems |-> 0] \in KeysRow /\ [h \in Keys!Hosts |-> 0] \in KeysHost
        /\ [h \in Keys!Hosts |-> {}] \in KeysAuthorized
    BY KeysKnown DEF KeysTapis, KeysStatus, KeysRow, KeysHost, KeysAuthorized, Keys!None
  <2> QED
    BY <2>1, KeysKnown DEF Keys!Init, KeysStore, KeysUi
<1>2. calls \in [Callers -> {Keys!Idle}] /\ \A c \in Callers : calls[c] = Keys!Idle
  BY DEF Keys!Init
<1>3. /\ \A s \in Systems : store.row[s] = 0
      /\ \A h \in Keys!Hosts : store.host[h] = 0
      /\ store.made = 0 /\ ui.kept = {} /\ ui.pushed = {}
  BY DEF Keys!Init
<1> QED
  BY <1>1, <1>2, <1>3
  DEF KeysNow, KeysInv, KeysTypes, OnlyMade, AloneAreAlone, OpenUnsettled, AloneAgree,
      Settled

(* A change of the store that a request about s may make leaves what the   *)
(* requests about other systems and hosts have brought about.              *)
Apart(st, r, s) ==
  /\ \A t \in Systems \ {s} : r.row[t] = st.row[t] /\ r.tapis[t] = st.tapis[t]
  /\ \A h \in Keys!Hosts \ Keys!HostsOf(s) : r.host[h] = st.host[h]
  /\ \A h \in Keys!Hosts : st.authorized[h] \subseteq r.authorized[h]

\* What a request has still to do agrees with the store after a change about a
\* system that has no host in common with its own.
LEMMA ApartAgrees ==
  ASSUME NEW st, NEW r, NEW s \in Systems, Apart(st, r, s),
         NEW op \in KeyOps, NEW left, ~Keys!Related(s, op.s), Agrees(st, op, left)
  PROVE  Agrees(r, op, left)
<1>1. op.s \in Systems \ {s}
  BY KeysKnown DEF KeyOps
<1>2. Keys!PushHost(op.s) \in Keys!Hosts \ Keys!HostsOf(s)
  BY <1>1, KeysKnown DEF Keys!Related
<1>3. /\ r.row[op.s] = st.row[op.s] /\ r.tapis[op.s] = st.tapis[op.s]
      /\ r.host[Keys!PushHost(op.s)] = st.host[Keys!PushHost(op.s)]
  BY <1>1, <1>2 DEF Apart
<1> QED
  BY <1>3 DEF Agrees, LoginPair

\* So does what is marked as kept and as pushed.
LEMMA ApartSettled ==
  ASSUME NEW st, NEW r, NEW s \in Systems, Apart(st, r, s), NEW u \in KeysUi,
    Settled(st, u),
         s \notin u.kept \cup u.pushed
  PROVE  Settled(r, u)
<1>1. u.kept \subseteq Systems \ {s} /\ u.pushed \subseteq Systems \ {s}
  BY DEF KeysUi
<1>2. \A t \in u.pushed : Keys!PushHost(t) \in Keys!Hosts
  BY <1>1, KeysKnown
<1> QED
  BY <1>1, <1>2 DEF Settled, Apart, LoginPair

(* One caller ends.                                                        *)
LEMMA KeysFinish ==
  ASSUME NEW st, NEW cs, NEW u, NEW c \in Callers, KeysInv(st, cs, u)
  PROVE  KeysInv(st, [cs EXCEPT ![c] = Keys!Idle], u)
<1> DEFINE ds == [cs EXCEPT ![c] = Keys!Idle]
<1>1. KeysTypes(st, cs, u)
  BY DEF KeysInv
<1>2. /\ ds \in [Callers -> {Keys!Idle} \cup KeyOps]
      /\ \A d \in Callers : ds[d] = IF d = c THEN Keys!Idle ELSE cs[d]
  BY <1>1 DEF KeysTypes
<1> HIDE DEF ds
<1>3. KeysTypes(st, ds, u) /\ OnlyMade(st, ds)
  BY <1>1, <1>2 DEF KeysInv, KeysTypes, OnlyMade
<1>4. AloneAreAlone(ds) /\ OpenUnsettled(ds, u) /\ AloneAgree(st, ds) /\ Settled(st, u)
  BY <1>2 DEF KeysInv, AloneAreAlone, OpenUnsettled, AloneAgree
<1>5. KeysInv(st, ds, u)
  BY <1>3, <1>4 DEF KeysInv
<1> QED
  BY <1>5 DEF ds

(* One caller goes on to op, on what its step made of the store.           *)
LEMMA KeysGo ==
  ASSUME NEW st, NEW cs, NEW u, KeysInv(st, cs, u), NEW r \in KeysStore,
         NEW c \in Callers, cs[c] # Keys!Idle, Apart(st, r, cs[c].s), r.made = st.made,
         \A s \in Systems : r.row[s] <= r.made,
         \A h \in Keys!Hosts : r.host[h] <= r.made,
         NEW op \in KeyOps, OpOK(op), op.s = cs[c].s, op.alone = cs[c].alone,
         op.key <= r.made, op.alone => Agrees(r, op, Left(op.todo))
  PROVE  KeysInv(r, [cs EXCEPT ![c] = op], u)
<1> DEFINE ds == [cs EXCEPT ![c] = op]
<1>0. op # Keys!Idle
  BY KeysTyped, TodoSteps DEF KeysInv, KeyOps, StepsOn
<1>1. KeysTypes(st, cs, u) /\ cs[c].s \in Systems
  BY KeysTyped DEF KeysInv, KeyOps
<1>2. /\ ds \in [Callers -> {Keys!Idle} \cup KeyOps]
      /\ \A d \in Callers : ds[d] = IF d = c THEN op ELSE cs[d]
  BY <1>1 DEF KeysTypes
<1> HIDE DEF ds
<1>3. KeysTypes(r, ds, u)
  BY <1>1, <1>2 DEF KeysTypes
<1>4. OnlyMade(r, ds)
  BY <1>2 DEF KeysInv, OnlyMade
<1>5. AloneAreAlone(ds)
  BY <1>0, <1>2 DEF KeysInv, AloneAreAlone
<1>6. OpenUnsettled(ds, u)
  BY <1>0, <1>2 DEF KeysInv, OpenUnsettled
<1>7. AloneAgree(r, ds)
  <2>1. ASSUME NEW d \in Callers, d # c, cs[d] # Keys!Idle, cs[d].alone
        PROVE  Agrees(r, cs[d], Left(cs[d].todo))
    <3>1. cs[d] \in KeyOps
      BY <1>1, <2>1, KeysTyped
    <3>2. ~Keys!Related(cs[c].s, cs[d].s)
      BY <2>1 DEF KeysInv, AloneAreAlone
    <3>3. Agrees(st, cs[d], Left(cs[d].todo))
      BY <2>1 DEF KeysInv, AloneAgree
    <3> QED
      BY <1>1, <3>1, <3>2, <3>3, ApartAgrees
  <2> QED
    BY <1>2, <2>1 DEF AloneAgree
<1>8. Settled(r, u)
  <2>1. cs[c].s \notin u.kept \cup u.pushed /\ Settled(st, u) /\ u \in KeysUi
    BY <1>1 DEF KeysInv, OpenUnsettled, KeysTypes
  <2> QED
    BY <1>1, <2>1, ApartSettled
<1>9. KeysInv(r, ds, u)
  BY <1>3, <1>4, <1>5, <1>6, <1>7, <1>8 DEF KeysInv
<1> QED
  BY <1>9 DEF ds

(* One caller has made its last step; alone, it settles its system.        *)
LEMMA KeysLast ==
  ASSUME NEW st, NEW cs, NEW u, KeysInv(st, cs, u), NEW r \in KeysStore,
         NEW c \in Callers, cs[c] # Keys!Idle, Apart(st, r, cs[c].s), r.made = st.made,
         \A s \in Systems : r.row[s] <= r.made,
         \A h \in Keys!Hosts : r.host[h] <= r.made,
         NEW v \in KeysUi,
         \/ v = u
         \/ /\ cs[c].alone /\ r.row[cs[c].s] = r.tapis[cs[c].s].storage
            /\ v.kept = u.kept \cup {cs[c].s}
            /\ \/ v.pushed = u.pushed
               \/ /\ v.pushed = u.pushed \cup {cs[c].s}
                  /\ LoginPair(r, cs[c].s) \in r.authorized[Keys!PushHost(cs[c].s)]
  PROVE  KeysInv(r, [cs EXCEPT ![c] = Keys!Idle], v)
<1> DEFINE ds == [cs EXCEPT ![c] = Keys!Idle]
<1>1. KeysTypes(st, cs, u) /\ cs[c].s \in Systems
  BY KeysTyped DEF KeysInv, KeyOps
<1>2. /\ ds \in [Callers -> {Keys!Idle} \cup KeyOps]
      /\ \A d \in Callers : ds[d] = IF d = c THEN Keys!Idle ELSE cs[d]
  BY <1>1 DEF KeysTypes
<1> HIDE DEF ds
<1>3. KeysTypes(r, ds, v) /\ OnlyMade(r, ds) /\ AloneAreAlone(ds)
  BY <1>1, <1>2 DEF KeysInv, KeysTypes, OnlyMade, AloneAreAlone
<1>4. OpenUnsettled(ds, v)
  <2>1. CASE v = u
    BY <1>2, <2>1 DEF KeysInv, OpenUnsettled
  <2>2. CASE cs[c].alone /\ v.kept \cup v.pushed \subseteq u.kept \cup u.pushed \cup {cs[c].s}
    <3>1. ASSUME NEW d \in Callers, d # c, cs[d] # Keys!Idle
          PROVE  cs[d].s # cs[c].s /\ cs[d].s \notin u.kept \cup u.pushed
      <4>1. ~Keys!Related(cs[c].s, cs[d].s)
        BY <2>2, <3>1 DEF KeysInv, AloneAreAlone
      <4> QED
        BY <1>1, <3>1, <4>1, KeysKnown DEF KeysInv, OpenUnsettled
    <3> QED
      BY <1>2, <2>2, <3>1 DEF OpenUnsettled
  <2> QED
    BY <2>1, <2>2
<1>5. AloneAgree(r, ds)
  <2>1. ASSUME NEW d \in Callers, d # c, cs[d] # Keys!Idle, cs[d].alone
        PROVE  Agrees(r, cs[d], Left(cs[d].todo))
    <3>1. cs[d] \in KeyOps
      BY <1>1, <2>1, KeysTyped
    <3>2. ~Keys!Related(cs[c].s, cs[d].s)
      BY <2>1 DEF KeysInv, AloneAreAlone
    <3>3. Agrees(st, cs[d], Left(cs[d].todo))
      BY <2>1 DEF KeysInv, AloneAgree
    <3> QED
      BY <1>1, <3>1, <3>2, <3>3, ApartAgrees
  <2> QED
    BY <1>2, <2>1 DEF AloneAgree
<1>6. Settled(r, v)
  <2>1. cs[c].s \notin u.kept \cup u.pushed /\ Settled(st, u) /\ u \in KeysUi
    BY <1>1 DEF KeysInv, OpenUnsettled, KeysTypes
  <2>2. Settled(r, u)
    BY <1>1, <2>1, ApartSettled
  <2> QED
    BY <2>2 DEF Settled
<1>7. KeysInv(r, ds, v)
  BY <1>3, <1>4, <1>5, <1>6 DEF KeysInv
<1> QED
  BY <1>7 DEF ds

(* A step that is not one of the push, and brings its request further.     *)
LEMMA KeysProceed ==
  ASSUME KeysNow, NEW c \in Callers, calls[c].todo # <<>>, store' \in KeysStore,
         Apart(store, store', calls[c].s), store'.made = store.made,
         \A s \in Systems : store'.row[s] <= store'.made,
         \A h \in Keys!Hosts : store'.host[h] <= store'.made,
         calls[c].alone =>
           Agrees(store', calls[c], Left(calls[c].todo) \ {Head(calls[c].todo)}),
         Keys!Proceed(c)
  PROVE  KeysNow'
<1>1. PICK op : op = calls[c]
  OBVIOUS
<1>2. /\ KeysInv(store, calls, ui) /\ KeysTypes(store, calls, ui) /\ op # Keys!Idle
      /\ op \in KeyOps /\ OpOK(op) /\ op.todo \in Todos /\ ui \in KeysUi /\ op.s \in Systems
      /\ op.key <= store.made
  <2>1. KeysInv(store, calls, ui) /\ KeysTypes(store, calls, ui) /\ op # Keys!Idle
    BY <1>1, KeysTyped DEF KeysNow, KeysInv, Keys!Idle
  <2>2. op \in KeyOps /\ OpOK(op) /\ op.key <= store.made
    BY <1>1, <2>1, KeysTyped DEF KeysInv, OnlyMade
  <2> QED
    BY <2>1, <2>2 DEF KeyOps, KeysTypes
<1>3. StepsOn(op.todo)
  BY <1>2, TodoSteps
<1>4. CASE Len(op.todo) > 1
  <2> DEFINE on == [op EXCEPT !.todo = Tail(op.todo)]
  <2>1. Tail(op.todo) \in Todos /\ Left(Tail(op.todo)) = Left(op.todo) \ {Head(op.todo)}
    BY <1>3, <1>4 DEF StepsOn
  <2>2. /\ on \in KeyOps /\ on.todo = Tail(op.todo) /\ on.s = op.s /\ on.kind = op.kind
        /\ on.key = op.key /\ on.login = op.login /\ on.alone = op.alone
    BY <1>2, <2>1 DEF KeyOps
  <2>3. calls' = [calls EXCEPT ![c] = on] /\ ui' = ui
    BY <1>1, <1>2, <1>4 DEF Keys!Proceed, KeysTypes
  <2> HIDE DEF on
  <2>4. OpOK(on)
    BY <1>2, <2>1, <2>2 DEF OpOK
  <2>5. on.alone => Agrees(store', on, Left(on.todo))
    BY <1>1, <2>1, <2>2 DEF Agrees
  <2>6. KeysInv(store', [calls EXCEPT ![c] = on], ui)
    BY <1>1, <1>2, <2>2, <2>4, <2>5, KeysGo
  <2> QED
    BY <2>3, <2>6 DEF KeysNow
<1>5. CASE ~(Len(op.todo) > 1)
  <2>1. Left(op.todo) \ {Head(op.todo)} = {}
    BY <1>3, <1>5 DEF StepsOn
  <2>2. /\ calls' = [calls EXCEPT ![c] = Keys!Idle]
        /\ ui' = [ui EXCEPT !.kept =
                    IF op.alone /\ op.kind # "clone" THEN @ \cup {op.s} ELSE @]
    BY <1>1, <1>5 DEF Keys!Proceed, Keys!Finish
  <2>3. CASE op.alone /\ op.kind # "clone"
    <3>1. ui' \in KeysUi /\ ui'.kept = ui.kept \cup {op.s} /\ ui'.pushed = ui.pushed
      BY <1>2, <2>2, <2>3 DEF KeysUi
    <3>2. store'.row[op.s] = store'.tapis[op.s].storage
      BY <1>1, <2>1, <2>3 DEF Agrees
    <3>3. KeysInv(store', [calls EXCEPT ![c] = Keys!Idle], ui')
      BY <1>1, <1>2, <2>3, <3>1, <3>2, KeysLast
    <3> QED
      BY <2>2, <3>3 DEF KeysNow
  <2>4. CASE ~(op.alone /\ op.kind # "clone")
    <3>1. ui' = ui
      BY <1>2, <2>2, <2>4 DEF KeysUi
    <3>3. KeysInv(store', [calls EXCEPT ![c] = Keys!Idle], ui)
      BY <1>1, <1>2, KeysLast
    <3> QED
      BY <2>2, <3>1, <3>3 DEF KeysNow
  <2> QED
    BY <2>3, <2>4
<1> QED
  BY <1>4, <1>5

(* The four of them.                                                       *)
LEMMA KeysAtStep ==
  ASSUME KeysNow, NEW c \in Callers, NEW step, Keys!At(c, step)
  PROVE  /\ calls[c] # Keys!Idle /\ calls[c] \in KeyOps /\ OpOK(calls[c])
         /\ calls[c].todo # <<>> /\ Head(calls[c].todo) = step
         /\ StepsOn(calls[c].todo) /\ step \in Left(calls[c].todo)
         /\ calls[c].s \in Systems /\ calls[c].key \in Keys!Pairs
         /\ calls[c].login \in Keys!Pairs /\ calls[c].key <= store.made
         /\ calls[c].alone => Agrees(store, calls[c], Left(calls[c].todo))
         /\ store \in KeysStore /\ ui \in KeysUi
         /\ store.tapis \in KeysTapis /\ store.status \in KeysStatus
         /\ store.row \in KeysRow /\ store.host \in KeysHost
         /\ store.authorized \in KeysAuthorized /\ store.made \in Keys!Pairs
         /\ \A s \in Systems : store.row[s] <= store.made
         /\ \A h \in Keys!Hosts : store.host[h] <= store.made
<1>1. KeysTypes(store, calls, ui)
  BY DEF KeysNow, KeysInv
<1>2. calls[c].todo # <<>> /\ Head(calls[c].todo) = step /\ calls[c] # Keys!Idle
  BY DEF Keys!At, Keys!Idle
<1>3. calls[c] \in KeyOps /\ OpOK(calls[c]) /\ calls[c].key <= store.made
  BY <1>1, <1>2, KeysTyped DEF KeysNow, KeysInv, OnlyMade
<1>4. calls[c].todo \in Todos
  BY <1>3 DEF KeyOps
<1>5. StepsOn(calls[c].todo)
  BY <1>4, TodoSteps
<1>6. step \in Left(calls[c].todo)
  BY <1>2, <1>5 DEF StepsOn
<1>7. /\ calls[c].s \in Systems /\ calls[c].key \in Keys!Pairs
      /\ calls[c].login \in Keys!Pairs
  BY <1>3 DEF KeyOps
<1>8. store \in KeysStore /\ ui \in KeysUi
  BY <1>1 DEF KeysTypes
<1> QED
  BY <1>1, <1>2, <1>3, <1>5, <1>6, <1>7, <1>8, KeysTyped
  DEF KeysNow, KeysInv, OnlyMade, AloneAgree

\* Tapis is given the pair of a request.
LEMMA KeysTold == ASSUME KeysNow, Keys!set_keys PROVE KeysNow'
<1>1. PICK c \in Callers :
        /\ Keys!At(c, "tapis") /\ Keys!Proceed(c)
        /\ store' = [store EXCEPT
             !.status[calls[c].s] = IF @ = "absent" THEN "available" ELSE @,
             !.tapis[calls[c].s] = [storage |-> calls[c].key, login |-> calls[c].login]]
  BY DEF Keys!set_keys
<1>2. PICK op : op = calls[c]
  OBVIOUS
<1>3. /\ op \in KeyOps /\ OpOK(op) /\ op.todo # <<>> /\ Head(op.todo) = "tapis"
      /\ "tapis" \in Left(op.todo) /\ op.s \in Systems /\ op.key \in Keys!Pairs
      /\ op.login \in Keys!Pairs /\ (op.alone => Agrees(store, op, Left(op.todo)))
      /\ store \in KeysStore /\ store.tapis \in KeysTapis /\ store.status \in KeysStatus
      /\ \A s \in Systems : store.row[s] <= store.made
      /\ \A h \in Keys!Hosts : store.host[h] <= store.made
  BY <1>1, <1>2, KeysAtStep
<1> DEFINE tapis == [store.tapis EXCEPT ![op.s] = [storage |-> op.key, login |-> op.login]]
           status == [store.status EXCEPT ![op.s] = IF @ = "absent" THEN "available" ELSE @]
<1>4. store' = [store EXCEPT !.status = status, !.tapis = tapis]
  BY <1>1, <1>2
<1>5. tapis \in KeysTapis /\ status \in KeysStatus
  BY <1>3 DEF KeysTapis, KeysStatus
<1>6. /\ tapis[op.s] = [storage |-> op.key, login |-> op.login]
      /\ \A t \in Systems \ {op.s} : tapis[t] = store.tapis[t]
  BY <1>3 DEF KeysTapis
<1> HIDE DEF tapis, status
<1>7. /\ store' \in KeysStore /\ store'.tapis = tapis /\ store'.row = store.row
      /\ store'.host = store.host /\ store'.authorized = store.authorized
      /\ store'.made = store.made
  BY <1>3, <1>4, <1>5 DEF KeysStore
<1>8. Apart(store, store', op.s)
  BY <1>6, <1>7 DEF Apart
<1>9. op.alone => Agrees(store', op, Left(op.todo) \ {"tapis"})
  BY <1>3, <1>6, <1>7 DEF Agrees, LoginPair, PushStep, OpOK
<1> QED
  BY <1>1, <1>2, <1>3, <1>7, <1>8, <1>9, KeysProceed

\* The row of a system is given the pair of a request.
LEMMA KeysRowed == ASSUME KeysNow, Keys!update_keys PROVE KeysNow'
<1>1. PICK c \in Callers :
        /\ Keys!At(c, "row") /\ Keys!Proceed(c)
        /\ store' = [store EXCEPT !.row[calls[c].s] = calls[c].key]
  BY DEF Keys!update_keys
<1>2. PICK op : op = calls[c]
  OBVIOUS
<1>3. /\ op \in KeyOps /\ op.todo # <<>> /\ Head(op.todo) = "row"
      /\ "row" \in Left(op.todo) /\ op.s \in Systems /\ op.key \in Keys!Pairs
      /\ op.key <= store.made /\ (op.alone => Agrees(store, op, Left(op.todo)))
      /\ store \in KeysStore /\ store.row \in KeysRow
      /\ \A s \in Systems : store.row[s] <= store.made
      /\ \A h \in Keys!Hosts : store.host[h] <= store.made
  BY <1>1, <1>2, KeysAtStep
<1> DEFINE row == [store.row EXCEPT ![op.s] = op.key]
<1>4. store' = [store EXCEPT !.row = row]
  BY <1>1, <1>2
<1>5. row \in KeysRow /\ row[op.s] = op.key
      /\ \A t \in Systems \ {op.s} : row[t] = store.row[t]
  BY <1>3 DEF KeysRow
<1> HIDE DEF row
<1>7. /\ store' \in KeysStore /\ store'.tapis = store.tapis /\ store'.row = row
      /\ store'.host = store.host /\ store'.authorized = store.authorized
      /\ store'.made = store.made
  BY <1>3, <1>4, <1>5 DEF KeysStore
<1>8. Apart(store, store', op.s) /\ \A s \in Systems : store'.row[s] <= store'.made
  BY <1>3, <1>5, <1>7 DEF Apart
<1>9. op.alone => Agrees(store', op, Left(op.todo) \ {"row"})
  BY <1>3, <1>5, <1>7 DEF Agrees, LoginPair, PushStep
<1> QED
  BY <1>1, <1>2, <1>3, <1>7, <1>8, <1>9, KeysProceed

\* The row of a host is given the pair of a request.
LEMMA KeysHosted ==
  ASSUME KeysNow, NEW c \in Callers, NEW step \in {"storageHost", "loginHost"}, NEW h,
         Keys!At(c, step), Keys!Proceed(c),
         h = IF step = "storageHost" THEN StorageHost[calls[c].s]
           ELSE LoginHost[calls[c].s],
         store' = [store EXCEPT !.host = Keys!HostRow(h, calls[c].key)]
  PROVE  KeysNow'
<1>2. PICK op : op = calls[c]
  OBVIOUS
<1>3. /\ op \in KeyOps /\ OpOK(op) /\ op.todo # <<>> /\ Head(op.todo) = step
      /\ step \in Left(op.todo) /\ op.s \in Systems /\ op.key \in Keys!Pairs
      /\ op.key <= store.made /\ (op.alone => Agrees(store, op, Left(op.todo)))
      /\ store \in KeysStore /\ store.host \in KeysHost
      /\ \A s \in Systems : store.row[s] <= store.made
      /\ \A g \in Keys!Hosts : store.host[g] <= store.made
  BY <1>2, KeysAtStep
<1>4. step = "loginHost" => op.s \in Keys!Execution
  BY <1>3 DEF OpOK
<1>5. h \in Keys!HostsOf(op.s) /\ h \in Keys!Hosts
  BY <1>2, <1>3, <1>4, KeysKnown
<1> DEFINE host == [store.host EXCEPT ![h] = op.key]
<1>6. store' = [store EXCEPT !.host = host]
  BY <1>2 DEF Keys!HostRow
<1>7. /\ host \in KeysHost /\ host[h] = op.key
      /\ \A g \in Keys!Hosts \ {h} : host[g] = store.host[g]
  BY <1>3, <1>5 DEF KeysHost
<1> HIDE DEF host
<1>8. /\ store' \in KeysStore /\ store'.tapis = store.tapis /\ store'.row = store.row
      /\ store'.host = host /\ store'.authorized = store.authorized
      /\ store'.made = store.made
  BY <1>3, <1>6, <1>7 DEF KeysStore
<1>9. Apart(store, store', op.s) /\ \A g \in Keys!Hosts : store'.host[g] <= store'.made
  BY <1>3, <1>5, <1>7, <1>8 DEF Apart
<1>10. Keys!PushHost(op.s) \in Keys!Hosts
  BY <1>3, KeysKnown
<1>11. PushStep(op.s) = step => Keys!PushHost(op.s) = h
  BY <1>2, <1>4 DEF PushStep, Keys!PushHost
<1>12. ASSUME op.alone PROVE Agrees(store', op, Left(op.todo) \ {step})
  <2>1. Agrees(store, op, Left(op.todo))
    BY <1>3, <1>12
  <2>2. step # "row" /\ step # "tapis" /\ step # "read"
    OBVIOUS
  <2>3. (op.kind # "clone" /\ op.kind = "push"
        /\ PushStep(op.s) \notin Left(op.todo) \ {step}
           /\ "read" \in Left(op.todo)) => store'.host[Keys!PushHost(op.s)] = op.key
    BY <1>7, <1>8, <1>10, <1>11, <2>1 DEF Agrees
  <2> QED
    BY <1>8, <2>1, <2>2, <2>3 DEF Agrees, LoginPair
<1> QED
  BY <1>2, <1>3, <1>8, <1>9, <1>12, KeysProceed

\* A system is enabled.
LEMMA KeysEnabled == ASSUME KeysNow, Keys!enable PROVE KeysNow'
<1>1. PICK c \in Callers :
        /\ Keys!At(c, "enable") /\ Keys!Proceed(c)
        /\ store' = [store EXCEPT !.status[calls[c].s] =
                       IF @ = "disabled" THEN "available" ELSE @]
  BY DEF Keys!enable
<1>2. PICK op : op = calls[c]
  OBVIOUS
<1>3. /\ op \in KeyOps /\ op.todo # <<>> /\ Head(op.todo) = "enable" /\ op.s \in Systems
      /\ (op.alone => Agrees(store, op, Left(op.todo)))
      /\ store \in KeysStore /\ store.status \in KeysStatus
      /\ \A s \in Systems : store.row[s] <= store.made
      /\ \A h \in Keys!Hosts : store.host[h] <= store.made
  BY <1>1, <1>2, KeysAtStep
<1> DEFINE status == [store.status EXCEPT ![op.s] = IF @ = "disabled" THEN "available"
  ELSE @]
<1>4. store' = [store EXCEPT !.status = status] /\ status \in KeysStatus
  BY <1>1, <1>2, <1>3 DEF KeysStatus
<1> HIDE DEF status
<1>7. /\ store' \in KeysStore /\ store'.tapis = store.tapis /\ store'.row = store.row
      /\ store'.host = store.host /\ store'.authorized = store.authorized
      /\ store'.made = store.made
  BY <1>3, <1>4 DEF KeysStore
<1>8. Apart(store, store', op.s)
  BY <1>7 DEF Apart
<1>9. op.alone => Agrees(store', op, Left(op.todo) \ {"enable"})
  BY <1>3, <1>7 DEF Agrees, LoginPair, PushStep
<1> QED
  BY <1>1, <1>2, <1>3, <1>7, <1>8, <1>9, KeysProceed

(* The push. Read alone, the pair of the host is the one just made.        *)
LEMMA KeysRead == ASSUME KeysNow, Keys!for_hostname PROVE KeysNow'
<1>1. PICK c \in Callers :
        /\ Keys!At(c, "read")
        /\ store.host[Keys!PushHost(calls[c].s)] # 0 \/ store.row[calls[c].s] # 0
        /\ calls' = [calls EXCEPT ![c].todo = Tail(@),
             ![c].key = IF store.host[Keys!PushHost(calls[c].s)] # 0
                        THEN store.host[Keys!PushHost(calls[c].s)]
                        ELSE store.row[calls[c].s]]
        /\ store' = store /\ ui' = ui
  BY DEF Keys!for_hostname
<1>2. PICK op : op = calls[c]
  OBVIOUS
<1>3. /\ op \in KeyOps /\ OpOK(op) /\ op # Keys!Idle /\ Head(op.todo) = "read"
      /\ "read" \in Left(op.todo) /\ op.s \in Systems /\ StepsOn(op.todo)
      /\ (op.alone => Agrees(store, op, Left(op.todo)))
      /\ store \in KeysStore /\ store.host \in KeysHost /\ store.row \in KeysRow
      /\ \A s \in Systems : store.row[s] <= store.made
      /\ \A h \in Keys!Hosts : store.host[h] <= store.made
  BY <1>1, <1>2, KeysAtStep
<1> DEFINE h == Keys!PushHost(op.s)
           k == IF store.host[h] # 0 THEN store.host[h] ELSE store.row[op.s]
           on == [op EXCEPT !.todo = <<"add">>, !.key = k]
<1>4. h \in Keys!Hosts
  BY <1>3, KeysKnown
<1>5. k \in Keys!Pairs /\ k >= 1 /\ k <= store.made
  <2>1. store.host[h] \in Keys!Pairs /\ store.row[op.s] \in Keys!Pairs
    BY <1>3, <1>4 DEF KeysHost, KeysRow
  <2>2. store.host[h] # 0 \/ store.row[op.s] # 0
    BY <1>1, <1>2
  <2>3. PICK x, y : x = store.host[h] /\ y = store.row[op.s]
    OBVIOUS
  <2>4. x \in Keys!Pairs /\ y \in Keys!Pairs /\ x <= store.made /\ y <= store.made
    BY <1>3, <1>4, <2>1, <2>3
  <2>5. x \in Nat /\ y \in Nat /\ (x # 0 \/ y # 0)
    BY <2>2, <2>3, <2>4, KeysKnown
  <2>6. k = IF x # 0 THEN x ELSE y
    BY <2>3
  <2> HIDE DEF k
  <2> QED
    BY <2>4, <2>5, <2>6
<1>6. Left(op.todo) = {"read", "add"} /\ Tail(op.todo) = <<"add">> /\ <<"add">> \in Todos
  BY <1>3 DEF StepsOn
<1>7. Left(<<"add">>) = {"add"}
  <2>1. StepsOn(<<"add">>) /\ Head(<<"add">>) = "add"
    BY <1>6, TodoSteps
  <2> QED
    BY <2>1 DEF StepsOn
<1>8. calls' = [calls EXCEPT ![c] = on]
  <2>1. calls \in [Callers -> {Keys!Idle} \cup KeyOps]
    BY DEF KeysNow, KeysInv, KeysTypes
  <2>2. calls' = [calls EXCEPT ![c] =
                    [calls[c] EXCEPT !.todo = Tail(calls[c].todo), !.key = k]]
    BY <1>1, <1>2, <2>1
  <2> QED
    BY <1>2, <1>6, <2>2
<1> HIDE DEF k
<1>9. /\ on \in KeyOps /\ on.todo = <<"add">> /\ on.s = op.s /\ on.kind = op.kind
      /\ on.key = k /\ on.alone = op.alone
  BY <1>3, <1>5, <1>6 DEF KeyOps
<1> HIDE DEF on
<1>10. op.kind = "push"
  BY <1>3 DEF OpOK
<1>11. OpOK(on)
  BY <1>5, <1>7, <1>9, <1>10 DEF OpOK
<1>12. ASSUME op.alone PROVE Agrees(store, on, Left(on.todo))
  <2>1. Agrees(store, op, {"read", "add"})
    BY <1>3, <1>6, <1>12
  <2>2. store.host[h] = op.key /\ op.key >= 1 /\ op.key \in Nat
    BY <1>3, <1>10, <2>1, KeysKnown DEF Agrees, PushStep, OpOK, KeyOps
  <2>3. k = op.key
    BY <2>2 DEF k
  <2> QED
    BY <1>7, <1>9, <1>10, <2>1, <2>3 DEF Agrees
<1>13. Apart(store, store, op.s)
  BY DEF Apart
<1>14. KeysInv(store, [calls EXCEPT ![c] = on], ui)
  BY <1>2, <1>3, <1>5, <1>9, <1>11, <1>12, <1>13, KeysGo DEF KeysNow
<1> QED
  BY <1>1, <1>8, <1>14 DEF KeysNow

\* A host is given the public key of the pair that Tapis logs in with.
LEMMA KeysAdded == ASSUME KeysNow, Keys!add_public_key PROVE KeysNow'
<1>1. PICK c \in Callers :
        /\ Keys!At(c, "add") /\ Keys!Finish(c)
        /\ store' = [store EXCEPT !.authorized[Keys!PushHost(calls[c].s)] =
                       @ \cup {calls[c].key}]
        /\ ui' = IF calls[c].alone
                 THEN [ui EXCEPT !.pushed = @ \cup {calls[c].s},
                   !.kept = @ \cup {calls[c].s}]
                 ELSE ui
  BY DEF Keys!add_public_key
<1>2. PICK op : op = calls[c]
  OBVIOUS
<1>3. /\ op \in KeyOps /\ OpOK(op) /\ op # Keys!Idle /\ Head(op.todo) = "add"
      /\ "add" \in Left(op.todo) /\ op.s \in Systems /\ StepsOn(op.todo)
      /\ op.key \in Keys!Pairs
      /\ (op.alone => Agrees(store, op, Left(op.todo)))
      /\ store \in KeysStore /\ store.authorized \in KeysAuthorized /\ ui \in KeysUi
      /\ \A s \in Systems : store.row[s] <= store.made
      /\ \A h \in Keys!Hosts : store.host[h] <= store.made
  BY <1>1, <1>2, KeysAtStep
<1>4. op.kind = "push" /\ op.key \in 1..MaxKeys /\ Left(op.todo) = {"add"}
  <2>1. op.kind = "push" /\ op.key >= 1
    BY <1>3 DEF OpOK
  <2>2. op.key \in 1..MaxKeys
    BY <1>3, <2>1, KeysKnown DEF Keys!Pairs
  <2>3. Left(op.todo) = {"add"}
    BY <1>3 DEF StepsOn
  <2> QED
    BY <2>1, <2>2, <2>3
<1>5. PICK h \in Keys!Hosts : h = Keys!PushHost(op.s)
  BY <1>3, KeysKnown
<1> DEFINE authorized == [store.authorized EXCEPT ![h] = @ \cup {op.key}]
<1>6. store' = [store EXCEPT !.authorized = authorized]
  BY <1>1, <1>2, <1>5
<1>7. /\ authorized \in KeysAuthorized /\ op.key \in authorized[h]
      /\ \A g \in Keys!Hosts : store.authorized[g] \subseteq authorized[g]
  BY <1>3, <1>4 DEF KeysAuthorized
<1> HIDE DEF authorized
<1>8. /\ store' \in KeysStore /\ store'.tapis = store.tapis /\ store'.row = store.row
      /\ store'.host = store.host /\ store'.authorized = authorized
      /\ store'.made = store.made
  BY <1>3, <1>6, <1>7 DEF KeysStore
<1>9. Apart(store, store', op.s)
  BY <1>7, <1>8 DEF Apart
<1>10. calls' = [calls EXCEPT ![c] = Keys!Idle]
  BY <1>1 DEF Keys!Finish
<1>11. CASE op.alone
  <2>1. /\ ui' \in KeysUi /\ ui'.kept = ui.kept \cup {op.s}
        /\ ui'.pushed = ui.pushed \cup {op.s}
    BY <1>1, <1>2, <1>3, <1>11 DEF KeysUi
  <2>2. /\ store.row[op.s] = store.tapis[op.s].storage
        /\ LoginPair(store, op.s) = op.key
    BY <1>3, <1>4, <1>11 DEF Agrees
  <2>3. /\ store'.row[op.s] = store'.tapis[op.s].storage
        /\ LoginPair(store', op.s) \in store'.authorized[Keys!PushHost(op.s)]
    BY <1>5, <1>7, <1>8, <2>2 DEF LoginPair
  <2>4. KeysInv(store', [calls EXCEPT ![c] = Keys!Idle], ui')
    BY <1>2, <1>3, <1>8, <1>9, <1>11, <2>1, <2>3, KeysLast DEF KeysNow
  <2> QED
    BY <1>10, <2>4 DEF KeysNow
<1>12. CASE ~op.alone
  <2>1. ui' = ui
    BY <1>1, <1>2, <1>12
  <2>2. KeysInv(store', [calls EXCEPT ![c] = Keys!Idle], ui)
    BY <1>2, <1>3, <1>8, <1>9, KeysLast DEF KeysNow
  <2> QED
    BY <1>10, <2>1, <2>2 DEF KeysNow
<1> QED
  BY <1>11, <1>12

(* A request begins: those near it are not alone any more.                 *)
LEMMA KeysBegin ==
  ASSUME KeysNow, NEW c \in Callers, NEW op \in KeyOps, OpOK(op), Keys!Begin(c, op),
         store' \in KeysStore, store'.tapis = store.tapis, store'.row = store.row,
         store'.host = store.host, store'.authorized = store.authorized,
         store.made <= store'.made, op.key <= store'.made,
         Agrees(store', op, Left(op.todo))
  PROVE  KeysNow'
<1> DEFINE near == {d \in Keys!Open : Keys!Related(calls[d].s, op.s)}
           on == [op EXCEPT !.alone = near = {}]
<1>1. /\ KeysTypes(store, calls, ui) /\ KeysInv(store, calls, ui)
      /\ calls \in [Callers -> {Keys!Idle} \cup KeyOps]
  BY DEF KeysNow, KeysInv, KeysTypes
<1>2. /\ calls[c] = Keys!Idle
      /\ calls' = [d \in Callers |->
            IF d = c THEN on
            ELSE IF d \in near THEN [calls[d] EXCEPT !.alone = FALSE] ELSE calls[d]]
      /\ ui' = [ui EXCEPT !.kept = @ \ {op.s}, !.pushed = @ \ {op.s}]
  BY DEF Keys!Begin
<1>3. /\ on \in KeyOps /\ on.todo = op.todo /\ on.kind = op.kind /\ on.s = op.s
      /\ on.key = op.key /\ on.login = op.login /\ (on.alone <=> near = {})
  BY DEF KeyOps
<1>4. on # Keys!Idle /\ OpOK(on) /\ Agrees(store', on, Left(on.todo))
  <2>1. on.todo # <<>>
    BY <1>3, TodoSteps DEF KeyOps, StepsOn
  <2> QED
    BY <1>3, <2>1 DEF OpOK, Agrees, Keys!Idle
<1>5. \A d \in Callers :
        d \in near <=> calls[d] # Keys!Idle /\ Keys!Related(calls[d].s, op.s)
  BY DEF Keys!Open
<1> HIDE DEF on, near
<1>6. ASSUME NEW d \in Callers, d # c
      PROVE  /\ calls'[d] = Keys!Idle <=> calls[d] = Keys!Idle
             /\ calls[d] # Keys!Idle =>
                  /\ calls'[d] \in KeyOps /\ OpOK(calls'[d])
                  /\ calls'[d].todo = calls[d].todo /\ calls'[d].kind = calls[d].kind
                  /\ calls'[d].s = calls[d].s /\ calls'[d].key = calls[d].key
                  /\ calls'[d].login = calls[d].login
                  /\ calls'[d].alone => calls[d].alone /\ d \notin near
  <2>1. CASE calls[d] = Keys!Idle
    BY <1>2, <1>5, <1>6, <2>1
  <2>2. CASE calls[d] # Keys!Idle
    <3>1. calls[d] \in KeyOps /\ OpOK(calls[d])
      BY <1>1, <2>2, KeysTyped
    <3>2. CASE d \notin near
      <4>1. calls'[d] = calls[d]
        BY <1>2, <1>6, <3>2
      <4> QED
        BY <2>2, <3>1, <3>2, <4>1
    <3>3. CASE d \in near
      <4>1. calls'[d] = [calls[d] EXCEPT !.alone = FALSE]
        BY <1>2, <1>6, <3>3
      <4>2. /\ calls'[d] \in KeyOps
            /\ calls'[d].todo = calls[d].todo /\ calls'[d].kind = calls[d].kind
            /\ calls'[d].s = calls[d].s /\ calls'[d].key = calls[d].key
            /\ calls'[d].login = calls[d].login /\ ~calls'[d].alone
        BY <3>1, <4>1 DEF KeyOps
      <4>3. calls'[d] # Keys!Idle
        <5>1. calls'[d].todo \in Todos
          BY <4>2 DEF KeyOps
        <5>2. calls'[d].todo # <<>>
          BY <5>1, TodoSteps DEF StepsOn
        <5> QED
          BY <5>2 DEF Keys!Idle
      <4>4. OpOK(calls'[d])
        BY <3>1, <4>2 DEF OpOK
      <4> QED
        BY <2>2, <4>2, <4>3, <4>4
    <3> QED
      BY <3>2, <3>3
  <2> QED
    BY <2>1, <2>2
<1>7. /\ ui' \in KeysUi /\ ui'.kept = ui.kept \ {op.s} /\ ui'.pushed = ui.pushed \ {op.s}
  BY <1>1, <1>2 DEF KeysTypes, KeysUi
<1>8. calls'[c] = on
  BY <1>2
<1>9. KeysTypes(store', calls', ui')
  <2>1. ASSUME NEW d \in Callers PROVE calls'[d] \in {Keys!Idle} \cup KeyOps
    BY <1>3, <1>6, <1>8
  <2>2. calls' \in [Callers -> {Keys!Idle} \cup KeyOps]
    BY <1>2, <2>1
  <2> QED
    BY <1>4, <1>6, <1>7, <1>8, <2>2 DEF KeysTypes
<1>10. OnlyMade(store', calls')
  <2>0. store.made \in Nat /\ store'.made \in Nat
    BY <1>1, KeysTyped, KeysKnown DEF KeysStore
  <2>1. /\ \A s \in Systems : store.row[s] <= store.made /\ store.row[s] \in Nat
        /\ \A h \in Keys!Hosts : store.host[h] <= store.made /\ store.host[h] \in Nat
    BY <1>1, KeysTyped, KeysKnown DEF KeysInv, OnlyMade, KeysRow, KeysHost
  <2>2. ASSUME NEW d \in Callers, d # c, calls'[d] # Keys!Idle
        PROVE  calls'[d].key <= store'.made
    <3>1. calls[d] \in KeyOps /\ calls[d].key <= store.made /\ calls'[d].key = calls[d].key
      BY <1>1, <1>6, <2>2, KeysTyped DEF KeysInv, OnlyMade
    <3>2. calls[d].key \in Nat
      BY <3>1, KeysKnown DEF KeyOps
    <3> QED
      BY <2>0, <3>1, <3>2
  <2> QED
    BY <1>3, <1>8, <2>0, <2>1, <2>2 DEF OnlyMade
<1>11. AloneAreAlone(calls')
  <2>1. ASSUME NEW d \in Callers, d # c, calls'[d] # Keys!Idle,
               Keys!Related(calls'[d].s, on.s) \/ Keys!Related(on.s, calls'[d].s)
        PROVE  ~calls'[d].alone /\ ~on.alone
    <3>1. d \in near
      BY <1>3, <1>5, <1>6, <2>1 DEF Keys!Related
    <3> QED
      BY <1>3, <1>6, <2>1, <3>1
  <2>2. ASSUME NEW d \in Callers, NEW e \in Callers, d # c, e # c, d # e,
               calls'[d] # Keys!Idle, calls'[e] # Keys!Idle,
               Keys!Related(calls'[d].s, calls'[e].s)
        PROVE  ~calls'[d].alone /\ ~calls'[e].alone
    BY <1>1, <1>6, <2>2 DEF KeysInv, AloneAreAlone
  <2> QED
    BY <1>8, <2>1, <2>2 DEF AloneAreAlone
<1>12. OpenUnsettled(calls', ui')
  BY <1>1, <1>3, <1>6, <1>7, <1>8 DEF KeysInv, OpenUnsettled
<1>13. AloneAgree(store', calls')
  <2>1. ASSUME NEW d \in Callers, d # c, calls'[d] # Keys!Idle, calls'[d].alone
        PROVE  Agrees(store', calls'[d], Left(calls'[d].todo))
    <3>1. Agrees(store, calls[d], Left(calls[d].todo))
      BY <1>1, <1>6, <2>1 DEF KeysInv, AloneAgree
    <3> QED
      BY <1>6, <2>1, <3>1 DEF Agrees, LoginPair
  <2> QED
    BY <1>4, <1>8, <2>1 DEF AloneAgree
<1>14. Settled(store', ui')
  BY <1>1, <1>7 DEF KeysInv, Settled, LoginPair
<1> QED
  BY <1>9, <1>10, <1>11, <1>12, <1>13, <1>14 DEF KeysNow, KeysInv

(* The four requests that begin.                                           *)
LEMMA KeysOpened ==
  ASSUME KeysNow, NEW c \in Callers, NEW s \in Systems,
         NEW kind \in {"reset", "push", "setup", "clone"}, NEW k \in Keys!Pairs,
         NEW login \in Keys!Pairs, NEW todo \in Todos,
         Left(todo) \cap {"read", "add"} # {} => kind = "push",
         "loginHost" \in Left(todo) => s \in Keys!Execution,
         kind = "push" => k >= 1 /\ login = k /\ PushStep(s) \in Left(todo),
         kind # "clone" => "row" \in Left(todo) /\ "tapis" \in Left(todo),
         Keys!Begin(c, Keys!Op(kind, s, k, login, todo)),
         store' \in KeysStore, store'.tapis = store.tapis, store'.row = store.row,
         store'.host = store.host, store'.authorized = store.authorized,
         store.made <= store'.made, k <= store'.made
  PROVE  KeysNow'
<1>1. PICK op : op = Keys!Op(kind, s, k, login, todo)
  OBVIOUS
<1>2. /\ op \in KeyOps /\ op.kind = kind /\ op.s = s /\ op.key = k /\ op.login = login
      /\ op.todo = todo
  BY <1>1 DEF Keys!Op, KeyOps
<1>3. OpOK(op) /\ Agrees(store', op, Left(op.todo))
  BY <1>2 DEF OpOK, Agrees
<1> QED
  BY <1>1, <1>2, <1>3, KeysBegin

\* A request to make a new pair for a system begins.
LEMMA KeysReset == ASSUME KeysNow, Keys!reset_system_keys PROVE KeysNow'
<1> DEFINE todo(s, kind) ==
      (IF s \in Keys!Execution THEN <<"row", "storageHost", "tapis", "loginHost">>
                               ELSE <<"tapis", "row", "storageHost">>)
      \o (IF kind = "push" THEN <<"read", "add">> ELSE <<>>)
<1>1. PICK c \in Callers, s \in Systems, kind \in {"reset", "push"} :
        /\ store.made < MaxKeys /\ store' = [store EXCEPT !.made = Keys!FreshKey]
        /\ Keys!Begin(c, Keys!Op(kind, s, Keys!FreshKey, Keys!FreshKey, todo(s, kind)))
  BY DEF Keys!reset_system_keys
<1>2. store \in KeysStore /\ store.made \in Keys!Pairs
  BY KeysTyped DEF KeysNow, KeysInv, KeysTypes
<1>3. PICK k : k = Keys!FreshKey
  OBVIOUS
<1>4. k \in Keys!Pairs /\ k >= 1 /\ store.made <= k /\ k <= k
  BY <1>1, <1>2, <1>3, KeysKnown DEF Keys!FreshKey, Keys!Pairs
<1>5. /\ store' \in KeysStore /\ store'.tapis = store.tapis /\ store'.row = store.row
      /\ store'.host = store.host /\ store'.authorized = store.authorized
      /\ store'.made = k
  BY <1>1, <1>2, <1>3, <1>4 DEF KeysStore
<1>6. PICK t : t = todo(s, kind)
  OBVIOUS
<1>7. \/ /\ s \in Keys!Execution /\ kind = "push"
         /\ t = <<"row", "storageHost", "tapis", "loginHost", "read", "add">>
      \/ /\ s \in Keys!Execution /\ kind = "reset"
         /\ t = <<"row", "storageHost", "tapis", "loginHost">>
      \/ /\ s \notin Keys!Execution /\ kind = "push"
         /\ t = <<"tapis", "row", "storageHost", "read", "add">>
      \/ /\ s \notin Keys!Execution /\ kind = "reset"
         /\ t = <<"tapis", "row", "storageHost">>
  <2>1. CASE s \in Keys!Execution /\ kind = "push"
    BY <1>6, <2>1, TodoLists
  <2>2. CASE s \in Keys!Execution /\ kind = "reset"
    BY <1>6, <2>2, TodoLists
  <2>3. CASE s \notin Keys!Execution /\ kind = "push"
    BY <1>6, <2>3, TodoLists
  <2>4. CASE s \notin Keys!Execution /\ kind = "reset"
    BY <1>6, <2>4, TodoLists
  <2> QED
    BY <2>1, <2>2, <2>3, <2>4
<1>8. Keys!Begin(c, Keys!Op(kind, s, k, k, t))
  BY <1>1, <1>3, <1>6
<1> HIDE DEF todo
<1>9. CASE /\ s \in Keys!Execution /\ kind = "push"
           /\ t = <<"row", "storageHost", "tapis", "loginHost", "read", "add">>
  <2>1. t \in Todos
    BY <1>9, Zenon DEF Todos
  <2>2. Left(t) = {"row", "storageHost", "tapis", "loginHost", "read", "add"}
    <3>1. /\ Len(t) = 6 /\ t[1] = "row" /\ t[2] = "storageHost" /\ t[3] = "tapis"
          /\ t[4] = "loginHost" /\ t[5] = "read" /\ t[6] = "add"
      BY <1>9
    <3> QED
      BY <3>1, SixLeft
  <2>3. /\ PushStep(s) \in Left(t) /\ "row" \in Left(t) /\ "tapis" \in Left(t)
    BY <1>9, <2>2 DEF PushStep
  <2> QED
    BY <1>4, <1>5, <1>8, <1>9, <2>1, <2>3, KeysOpened
<1>10. CASE /\ s \in Keys!Execution /\ kind = "reset"
            /\ t = <<"row", "storageHost", "tapis", "loginHost">>
  <2>1. t \in Todos
    BY <1>10, Zenon DEF Todos
  <2>2. Left(t) = {"row", "storageHost", "tapis", "loginHost"}
    <3>1. /\ Len(t) = 4 /\ t[1] = "row" /\ t[2] = "storageHost" /\ t[3] = "tapis"
          /\ t[4] = "loginHost"
      BY <1>10
    <3> QED
      BY <3>1, FourLeft
  <2>3. /\ Left(t) \cap {"read", "add"} = {} /\ "row" \in Left(t) /\ "tapis" \in Left(t)
    BY <2>2
  <2> QED
    BY <1>4, <1>5, <1>8, <1>10, <2>1, <2>3, KeysOpened
<1>11. CASE /\ s \notin Keys!Execution /\ kind = "push"
            /\ t = <<"tapis", "row", "storageHost", "read", "add">>
  <2>1. t \in Todos
    BY <1>11, Zenon DEF Todos
  <2>2. Left(t) = {"tapis", "row", "storageHost", "read", "add"}
    <3>1. /\ Len(t) = 5 /\ t[1] = "tapis" /\ t[2] = "row" /\ t[3] = "storageHost"
          /\ t[4] = "read" /\ t[5] = "add"
      BY <1>11
    <3> QED
      BY <3>1, FiveLeft
  <2>3. /\ PushStep(s) \in Left(t) /\ "row" \in Left(t) /\ "tapis" \in Left(t)
        /\ "loginHost" \notin Left(t)
    BY <1>11, <2>2 DEF PushStep
  <2> QED
    BY <1>4, <1>5, <1>8, <1>11, <2>1, <2>3, KeysOpened
<1>12. CASE /\ s \notin Keys!Execution /\ kind = "reset"
            /\ t = <<"tapis", "row", "storageHost">>
  <2>1. t \in Todos
    BY <1>12, Zenon DEF Todos
  <2>2. Left(t) = {"tapis", "row", "storageHost"}
    <3>1. /\ Len(t) = 3 /\ t[1] = "tapis" /\ t[2] = "row" /\ t[3] = "storageHost"
      BY <1>12
    <3> QED
      BY <3>1, ThreeLeft
  <2>3. /\ Left(t) \cap {"read", "add"} = {} /\ "row" \in Left(t) /\ "tapis" \in Left(t)
        /\ "loginHost" \notin Left(t)
    BY <2>2
  <2> QED
    BY <1>4, <1>5, <1>8, <1>12, <2>1, <2>3, KeysOpened
<1> QED
  BY <1>7, <1>9, <1>10, <1>11, <1>12

\* A request to set up a storage system begins.
LEMMA KeysSetUp == ASSUME KeysNow, Keys!validate_storage_system PROVE KeysNow'
<1>1a. PICK c \in Callers, s \in Systems \ Keys!Execution :
          LET known == store.host[StorageHost[s]] # 0
              k == IF known THEN store.host[StorageHost[s]] ELSE Keys!FreshKey
          IN /\ known \/ store.made < MaxKeys
             /\ store' = IF known THEN store ELSE [store EXCEPT !.made = Keys!FreshKey]
             /\ Keys!Begin(c, Keys!Op("setup", s, k, k,
                                      <<"enable", "tapis", "storageHost", "row">>))
  BY DEF Keys!validate_storage_system
<1>1b. PICK known \in BOOLEAN : known <=> store.host[StorageHost[s]] # 0
  OBVIOUS
<1>1c. PICK k : k = IF known THEN store.host[StorageHost[s]] ELSE Keys!FreshKey
  OBVIOUS
<1>1. /\ known <=> store.host[StorageHost[s]] # 0
      /\ k = IF known THEN store.host[StorageHost[s]] ELSE Keys!FreshKey
      /\ known \/ store.made < MaxKeys
      /\ store' = IF known THEN store ELSE [store EXCEPT !.made = Keys!FreshKey]
      /\ Keys!Begin(c, Keys!Op("setup", s, k, k,
                               <<"enable", "tapis", "storageHost", "row">>))
  BY <1>1a, <1>1b, <1>1c
<1>2. /\ store \in KeysStore /\ store.made \in Keys!Pairs /\ store.host \in KeysHost
      /\ \A h \in Keys!Hosts : store.host[h] <= store.made
  BY KeysTyped DEF KeysNow, KeysInv, KeysTypes, OnlyMade
<1>3. StorageHost[s] \in Keys!Hosts
  BY KeysKnown
<1>4. PICK x \in Keys!Pairs : x = store.host[StorageHost[s]] /\ x <= store.made
  BY <1>2, <1>3 DEF KeysHost
<1>5. /\ k \in Keys!Pairs
      /\ store' \in KeysStore /\ store'.tapis = store.tapis /\ store'.row = store.row
      /\ store'.host = store.host /\ store'.authorized = store.authorized
      /\ store.made <= store'.made /\ k <= store'.made
  <2>1. CASE known
    BY <1>1, <1>2, <1>4, <2>1, KeysKnown
  <2>2. CASE ~known
    <3>1. PICK f : f = Keys!FreshKey
      OBVIOUS
    <3>2. f \in Keys!Pairs /\ store.made <= f /\ f <= f
      BY <1>1, <1>2, <2>2, <3>1, KeysKnown DEF Keys!FreshKey, Keys!Pairs
    <3>3. store' = [store EXCEPT !.made = f] /\ k = f
      BY <1>1, <2>2, <3>1
    <3> QED
      BY <1>2, <3>2, <3>3 DEF KeysStore
  <2> QED
    BY <2>1, <2>2
<1>6. PICK t : t = <<"enable", "tapis", "storageHost", "row">>
  OBVIOUS
<1>7. t \in Todos
  BY <1>6, Zenon DEF Todos
<1>8. Left(t) = {"enable", "tapis", "storageHost", "row"}
  <2>1. /\ Len(t) = 4 /\ t[1] = "enable" /\ t[2] = "tapis" /\ t[3] = "storageHost"
        /\ t[4] = "row"
    BY <1>6
  <2> QED
    BY <2>1, FourLeft
<1>9. /\ Left(t) \cap {"read", "add"} = {} /\ "row" \in Left(t) /\ "tapis" \in Left(t)
      /\ "loginHost" \notin Left(t)
  BY <1>8
<1>10. Keys!Begin(c, Keys!Op("setup", s, k, k, t))
  BY <1>1, <1>6
<1> QED
  BY <1>5, <1>7, <1>9, <1>10, KeysOpened

\* A request to set up an execution system begins.
LEMMA KeysCloned == ASSUME KeysNow, Keys!validate_exec_system PROVE KeysNow'
<1>1. PICK c \in Callers, s \in Keys!Execution :
        /\ store' = [store EXCEPT !.status[s] = "available"]
        /\ Keys!Begin(c, Keys!Op("clone", s, store.host[StorageHost[s]],
                                 store.host[LoginHost[s]], <<"tapis">>))
  BY DEF Keys!validate_exec_system
<1>2. /\ store \in KeysStore /\ store.made \in Keys!Pairs /\ store.host \in KeysHost
      /\ store.status \in KeysStatus
      /\ \A h \in Keys!Hosts : store.host[h] <= store.made
  BY KeysTyped DEF KeysNow, KeysInv, KeysTypes, OnlyMade
<1>3. s \in Systems /\ StorageHost[s] \in Keys!Hosts /\ LoginHost[s] \in Keys!Hosts
  BY KeysKnown
<1>4. PICK k \in Keys!Pairs : k = store.host[StorageHost[s]] /\ k <= store.made
  BY <1>2, <1>3 DEF KeysHost
<1>5. PICK login \in Keys!Pairs : login = store.host[LoginHost[s]]
  BY <1>2, <1>3 DEF KeysHost
<1>6. PICK t : t = <<"tapis">>
  OBVIOUS
<1>7. t \in Todos
  BY <1>6, Zenon DEF Todos
<1>8. Left(t) = {"tapis"}
  <2>1. Len(t) = 1 /\ t[1] = "tapis"
    BY <1>6
  <2> QED
    BY <2>1, OneLeft
<1> DEFINE status == [store.status EXCEPT ![s] = "available"]
<1>9. store' = [store EXCEPT !.status = status] /\ status \in KeysStatus
  BY <1>1, <1>2 DEF KeysStatus
<1> HIDE DEF status
<1>10. /\ store' \in KeysStore /\ store'.tapis = store.tapis /\ store'.row = store.row
       /\ store'.host = store.host /\ store'.authorized = store.authorized
       /\ store'.made = store.made
  BY <1>2, <1>9 DEF KeysStore
<1>11. store.made <= store'.made /\ k <= store'.made
  <2>1. store.made \in Nat
    BY <1>2, KeysKnown
  <2>2. store.made <= store.made
    BY <2>1
  <2> QED
    BY <1>4, <1>10, <2>2
<1>12. Keys!Begin(c, Keys!Op("clone", s, k, login, t))
  BY <1>1, <1>4, <1>5, <1>6
<1>13. Left(t) \cap {"read", "add"} = {} /\ "loginHost" \notin Left(t)
  BY <1>8
<1> QED
  BY <1>3, <1>7, <1>10, <1>11, <1>12, <1>13, KeysOpened

\* Every step of a request keeps the invariant.
LEMMA KeysStep ==
  ASSUME KeysNow, [Keys!Next]_<<store, calls, ui, alive>>
  PROVE  KeysNow'
<1>1. CASE Keys!update_hostname_keys
  <2>1. PICK c \in Callers :
          /\ \/ /\ Keys!At(c, "storageHost")
                /\ store' = [store EXCEPT
                     !.host = Keys!HostRow(StorageHost[calls[c].s], calls[c].key)]
             \/ /\ Keys!At(c, "loginHost")
                /\ store' = [store EXCEPT
                     !.host = Keys!HostRow(LoginHost[calls[c].s], calls[c].key)]
          /\ Keys!Proceed(c)
    BY <1>1 DEF Keys!update_hostname_keys
  <2>2. CASE /\ Keys!At(c, "storageHost")
             /\ store' = [store EXCEPT
                  !.host = Keys!HostRow(StorageHost[calls[c].s], calls[c].key)]
    BY <2>1, <2>2, KeysHosted
  <2>3. CASE /\ Keys!At(c, "loginHost")
             /\ store' = [store EXCEPT
                  !.host = Keys!HostRow(LoginHost[calls[c].s], calls[c].key)]
    BY <2>1, <2>3, KeysHosted
  <2> QED
    BY <2>1, <2>2, <2>3
<1>2. CASE Keys!NoResponse \/ Keys!fail
  <2>1. PICK c \in Callers :
          calls' = [calls EXCEPT ![c] = Keys!Idle] /\ store' = store /\ ui' = ui
    BY <1>2 DEF Keys!NoResponse, Keys!fail, Keys!Finish, Keys!Open
  <2>2. KeysInv(store, [calls EXCEPT ![c] = Keys!Idle], ui)
    BY KeysFinish DEF KeysNow
  <2> QED
    BY <2>1, <2>2 DEF KeysNow
<1>3. CASE Keys!disable
  <2>1. PICK s \in Systems : /\ store' = [store EXCEPT !.status[s] = "disabled"]
                             /\ calls' = calls /\ ui' = ui
    BY <1>3 DEF Keys!disable
  <2>2. store \in KeysStore /\ store.status \in KeysStatus
    BY KeysTyped DEF KeysNow, KeysInv, KeysTypes
  <2> DEFINE status == [store.status EXCEPT ![s] = "disabled"]
  <2>3. store' = [store EXCEPT !.status = status] /\ status \in KeysStatus
    BY <2>1, <2>2 DEF KeysStatus
  <2> HIDE DEF status
  <2>4. /\ store' \in KeysStore /\ store'.tapis = store.tapis /\ store'.row = store.row
        /\ store'.host = store.host /\ store'.authorized = store.authorized
        /\ store'.made = store.made
    BY <2>2, <2>3 DEF KeysStore
  <2> QED
    BY <2>1, <2>4
    DEF KeysNow, KeysInv, KeysTypes, OnlyMade, OpenUnsettled, AloneAgree, Settled,
        Agrees, LoginPair
<1>4. CASE UNCHANGED <<store, calls, ui, alive>>
  BY <1>4 DEF KeysNow
<1> QED
  BY <1>1, <1>2, <1>3, <1>4, KeysReset, KeysTold, KeysRowed, KeysRead, KeysAdded,
     KeysSetUp, KeysEnabled, KeysCloned
  DEF Keys!Next

\* What it says of types and of the three places a pair is kept in.
LEMMA KeysHold == ASSUME KeysNow PROVE Keys!TypeOK /\ Keys!KeysAgree
<1>1. KeysTypes(store, calls, ui)
  BY DEF KeysNow, KeysInv
<1>2. Keys!TypeOK
  BY <1>1
  DEF KeysNow, KeysInv, KeysTypes, OnlyMade, KeysStore, KeysUi, KeysTapis, KeysStatus,
      KeysRow, KeysHost, KeysAuthorized, Keys!TypeOK, Keys!Open
<1>3. Keys!KeysAgree
  BY DEF KeysNow, KeysInv, Settled, LoginPair, Keys!KeysAgree
<1> QED
  BY <1>2, <1>3
-----------------------------------------------------------------------------
(* The token.  While nothing has crossed, the request that renews it holds *)
(* the last one, and so does whoever has one to save without the lock.     *)

TokenStore == [row : 0..MaxTokens, last : 0..MaxTokens, expired : BOOLEAN]
TokenUi == [crossed : BOOLEAN, refused : BOOLEAN]
Carried ==
  {k \in [at : {"refresh", "save"}, kind : {"request", "task", "login"},
          token : 0..MaxTokens] : k.at = "refresh" => k.kind # "login"}

TokenTypes ==
  /\ store \in TokenStore /\ store.row <= store.last /\ ui \in TokenUi
  /\ calls \in [Renewers -> {Token!Free} \cup Carried]
  /\ \A c \in Renewers : calls[c] # Token!Free => calls[c].token <= store.last

(* Who renews with the lock, and who carries a token got without it.       *)
IsRequest(k) == k # Token!Free /\ k.kind = "request"
IsPending(k) == k.at = "save" /\ k.kind # "request"

(* The lock is held by one request.                                        *)
OneRequest ==
  \A c, d \in Renewers : (IsRequest(calls[c]) /\ IsRequest(calls[d])) => c = d

(* While nothing has crossed: a request about to renew has the last token, *)
(* and nobody has a newer one to save;                                     *)
RequestHasLast ==
  \A c \in Renewers : (IsRequest(calls[c]) /\ calls[c].at = "refresh") =>
    calls[c].token = store.last /\ \A d \in Renewers : ~IsPending(calls[d])

(* who has one to save has the last one, and is the only one;              *)
PendingHasLast ==
  \A c \in Renewers : IsPending(calls[c]) =>
    calls[c].token = store.last /\ \A d \in Renewers : IsPending(calls[d]) => c = d

(* and with nobody of that kind, the last one is in the row, or a request  *)
(* is about to save it.                                                    *)
SavedIsLast ==
  (\A d \in Renewers : ~IsPending(calls[d])) =>
    /\ \A c \in Renewers : calls[c].at = "save" => calls[c].token = store.last
    /\ (\A c \in Renewers : calls[c].at # "save") => store.row = store.last

TokenAgrees ==
  ~ui.crossed => ~ui.refused /\ RequestHasLast /\ PendingHasLast /\ SavedIsLast

TokenInv == TokenTypes /\ OneRequest /\ TokenAgrees

\* What each kind of caller is, told by its record alone.
LEMMA TokenKinds ==
  ASSUME TokenTypes
  PROVE  /\ Token!Free.at = "idle" /\ Token!Free \notin Carried
         /\ \A c \in Renewers : calls[c] # Token!Free => calls[c] \in Carried
         /\ \A c \in Renewers :
              calls[c].at \in {"refresh", "save"} => calls[c] \in Carried
         /\ Token!Pending = \E d \in Renewers : IsPending(calls[d])
         /\ Token!Locked = \E d \in Renewers : IsRequest(calls[d])
BY DEF TokenTypes, Carried, Token!Free, Token!Pending, Token!Locked, Token!Open,
       IsPending, IsRequest

\* The parts of the store.
LEMMA TokenFields ==
  ASSUME TokenTypes
  PROVE  /\ store \in TokenStore /\ ui \in TokenUi
         /\ store.row \in Nat /\ store.last \in Nat
         /\ store.row <= store.last /\ store.last <= store.last
BY DEF TokenTypes, TokenStore

\* A user who has just logged in is in the invariant.
LEMMA TokenStart == ASSUME Token!Init PROVE TokenInv
<1>1. MaxTokens \in Nat
  BY WorkbenchAssumption DEF Token!TokenAssumption
<1>2. TokenTypes /\ \A c \in Renewers : calls[c] = Token!Free
  BY <1>1 DEF Token!Init, TokenTypes, TokenStore, TokenUi
<1>3. store.row = store.last /\ ~ui.refused
  BY DEF Token!Init
<1> QED
  BY <1>2, <1>3, TokenKinds DEF TokenInv, OneRequest, TokenAgrees, RequestHasLast,
     PendingHasLast, SavedIsLast, IsRequest, IsPending

(* One of them goes on with k, the others as they were.                    *)
Goes(c, k) == \A d \in Renewers : calls'[d] = IF d = c THEN k ELSE calls[d]

\* One caller goes on while the others stay.
LEMMA TokenGoes ==
  ASSUME TokenTypes, NEW c \in Renewers, NEW k \in {Token!Free} \cup Carried,
         calls' = [calls EXCEPT ![c] = k], store' \in TokenStore, ui' \in TokenUi,
         store'.row <= store'.last, store.last <= store'.last,
         k # Token!Free => k.token <= store'.last
  PROVE  TokenTypes' /\ Goes(c, k)
<1>1. calls' \in [Renewers -> {Token!Free} \cup Carried] /\ Goes(c, k)
  BY DEF TokenTypes, Goes
<1>2. \A d \in Renewers \ {c} : calls[d] # Token!Free =>
         calls[d].token <= store.last /\ calls[d].token \in Int
  BY TokenKinds DEF TokenTypes, Carried
<1>3. store.last \in Int /\ store'.last \in Int
  BY DEF TokenTypes, TokenStore
<1>4. \A d \in Renewers : calls'[d] # Token!Free => calls'[d].token <= store'.last
  BY <1>1, <1>2, <1>3 DEF Goes
<1> QED
  BY <1>1, <1>4 DEF TokenTypes

\* Time passes.
LEMMA TokenExpired == ASSUME TokenInv, Token!expire PROVE TokenInv'
<1>1. /\ store' \in TokenStore /\ store'.row = store.row /\ store'.last = store.last
      /\ UNCHANGED <<calls, ui>>
  BY DEF TokenInv, TokenTypes, TokenStore, Token!expire
<1> QED
  BY <1>1 DEF TokenInv, TokenTypes, OneRequest, TokenAgrees, RequestHasLast,
     PendingHasLast, SavedIsLast, IsRequest, IsPending

\* A request finds the token expired and takes the lock.
LEMMA TokenLocked ==
  ASSUME TokenInv, Token!AgaveTokenRefreshMiddleware
  PROVE  TokenInv'
<1>0. TokenTypes
  BY DEF TokenInv
<1>1. PICK c \in Renewers :
        /\ calls[c] = Token!Free /\ ~Token!Locked
        /\ calls' = [calls EXCEPT ![c] = Token!At("refresh", "request", store.row)]
        /\ ui' = [ui EXCEPT !.crossed = @ \/ Token!Pending, !.refused = FALSE]
        /\ store' = store
  BY DEF Token!AgaveTokenRefreshMiddleware, Token!select_for_update
<1> DEFINE k == Token!At("refresh", "request", store.row)
<1>2. /\ k \in Carried /\ k.token = store.row /\ k.kind = "request" /\ k.at = "refresh"
      /\ k # Token!Free
  BY <1>0 DEF TokenTypes, TokenStore, Carried, Token!At, Token!Free
<1>3. /\ ui' \in TokenUi /\ ~ui'.refused
      /\ ~ui'.crossed => ~ui.crossed /\ ~Token!Pending
  <2>1. (ui.crossed \/ Token!Pending) \in BOOLEAN
    OBVIOUS
  <2> QED
    BY <1>0, <1>1, <2>1 DEF TokenTypes, TokenUi
<1> HIDE DEF k
<1>4. TokenTypes' /\ Goes(c, k)
  <2>1. /\ store' \in TokenStore /\ store'.row <= store'.last /\ store.last <= store'.last
        /\ k.token <= store'.last /\ calls' = [calls EXCEPT ![c] = k]
    BY <1>0, <1>1, <1>2, TokenFields DEF k
  <2> QED
    BY <1>0, <1>2, <1>3, <2>1, TokenGoes
<1>5. \A d \in Renewers : ~IsRequest(calls[d])
  BY <1>0, <1>1, TokenKinds
<1>6. OneRequest'
  BY <1>4, <1>5 DEF OneRequest, Goes, IsRequest
<1>7. ASSUME ~ui'.crossed PROVE (RequestHasLast /\ PendingHasLast /\ SavedIsLast)'
  <2>1. /\ \A d \in Renewers : ~IsPending(calls[d])
        /\ SavedIsLast
    BY <1>0, <1>3, <1>7, TokenKinds DEF TokenInv, TokenAgrees
  <2>2. \A d \in Renewers : calls[d].at # "save"
    BY <1>0, <1>5, <2>1, TokenKinds DEF IsPending, IsRequest
  <2>3. store.row = store.last
    BY <2>1, <2>2 DEF SavedIsLast
  <2>4. \A d \in Renewers : calls'[d].at # "save"
    BY <1>2, <1>4, <2>2 DEF Goes
  <2> QED
    BY <1>1, <1>2, <1>4, <1>5, <2>3, <2>4
    DEF RequestHasLast, PendingHasLast, SavedIsLast, Goes, IsPending, IsRequest
<1> QED
  BY <1>3, <1>4, <1>6, <1>7 DEF TokenInv, TokenAgrees

\* A task or a login takes the token as it is, without the lock.
LEMMA TokenTaken == ASSUME TokenInv, Token!client PROVE TokenInv'
<1>0. TokenTypes
  BY DEF TokenInv
<1>1. PICK c \in Renewers :
        /\ calls[c] = Token!Free
        /\ calls' = [calls EXCEPT ![c] = Token!At("refresh", "task", store.row)]
        /\ store' = store /\ ui' = ui
  BY DEF Token!client
<1> DEFINE k == Token!At("refresh", "task", store.row)
<1>2. /\ k \in Carried /\ k.token = store.row /\ k.kind = "task" /\ k.at = "refresh"
      /\ k # Token!Free
  BY <1>0 DEF TokenTypes, TokenStore, Carried, Token!At, Token!Free
<1> HIDE DEF k
<1>3. TokenTypes' /\ Goes(c, k)
  <2>1. /\ store' \in TokenStore /\ store'.row <= store'.last /\ store.last <= store'.last
        /\ k.token <= store'.last /\ calls' = [calls EXCEPT ![c] = k] /\ ui' \in TokenUi
    BY <1>0, <1>1, <1>2, TokenFields DEF k
  <2> QED
    BY <1>0, <1>2, <2>1, TokenGoes
<1>4. \A d \in Renewers :
        /\ IsRequest(calls'[d]) <=> IsRequest(calls[d])
        /\ IsPending(calls'[d]) <=> IsPending(calls[d])
        /\ calls'[d].at = "save" <=> calls[d].at = "save"
        /\ IsRequest(calls[d]) \/ calls[d].at = "save" => calls'[d] = calls[d]
  BY <1>0, <1>1, <1>2, <1>3, TokenKinds DEF Goes, IsRequest, IsPending
<1>5. OneRequest'
  BY <1>4 DEF TokenInv, OneRequest
<1>6. TokenAgrees'
  BY <1>1, <1>4
  DEF TokenInv, TokenAgrees, RequestHasLast, PendingHasLast, SavedIsLast, IsPending
<1> QED
  BY <1>3, <1>5, <1>6 DEF TokenInv

\* Tapis gives a new token for the one a caller has.
LEMMA TokenRenewed == ASSUME TokenInv, Token!refresh PROVE TokenInv'
<1>0. TokenTypes
  BY DEF TokenInv
<1>1. PICK c \in Renewers :
        /\ calls[c].at = "refresh" /\ calls[c].token = store.last
        /\ store.last < MaxTokens
        /\ store' = [store EXCEPT !.last = @ + 1]
        /\ calls' = [calls EXCEPT ![c] = Token!At("save", calls[c].kind, store.last + 1)]
        /\ ui' = [ui EXCEPT !.crossed = @ \/ (calls[c].kind = "task" /\ Token!Crossing)]
  BY DEF Token!refresh
<1> DEFINE k == Token!At("save", calls[c].kind, store.last + 1)
<1>2. MaxTokens \in Nat /\ calls[c] \in Carried /\ calls[c] # Token!Free
  BY <1>0, <1>1, TokenKinds, WorkbenchAssumption DEF Token!TokenAssumption
<1>3. /\ store' \in TokenStore /\ store'.row = store.row /\ store'.last = store.last + 1
      /\ store.row \in Int /\ store.last \in Int /\ store.row <= store.last
  BY <1>0, <1>1, <1>2 DEF TokenTypes, TokenStore
<1>4. /\ k \in Carried /\ k.token = store.last + 1 /\ k.kind = calls[c].kind
      /\ k.at = "save" /\ k # Token!Free
  BY <1>1, <1>2, <1>3 DEF Carried, Token!At, Token!Free, TokenStore
<1>5. /\ ui' \in TokenUi /\ ui'.refused = ui.refused
      /\ ~ui'.crossed => ~ui.crossed /\ (calls[c].kind = "task" => ~Token!Crossing)
  <2>1. (ui.crossed \/ (calls[c].kind = "task" /\ Token!Crossing)) \in BOOLEAN
    OBVIOUS
  <2> QED
    BY <1>0, <1>1, <2>1 DEF TokenTypes, TokenUi
<1> HIDE DEF k
<1>6. TokenTypes' /\ Goes(c, k)
  <2>1. /\ store'.row <= store'.last /\ store.last <= store'.last
        /\ k.token <= store'.last /\ calls' = [calls EXCEPT ![c] = k]
    BY <1>1, <1>3, <1>4 DEF k
  <2> QED
    BY <1>0, <1>3, <1>4, <1>5, <2>1, TokenGoes
<1>7. OneRequest'
  BY <1>0, <1>2, <1>4, <1>6 DEF TokenInv, OneRequest, Goes, IsRequest
<1>8. ASSUME ~ui'.crossed, ~ui.crossed
      PROVE (RequestHasLast /\ PendingHasLast /\ SavedIsLast)'
  <2>0. RequestHasLast /\ PendingHasLast /\ SavedIsLast
    BY <1>8 DEF TokenInv, TokenAgrees
  <2>1. \A d \in Renewers : ~IsPending(calls[d])
    <3>1. CASE calls[c].kind = "request"
      BY <1>1, <1>2, <2>0, <3>1 DEF RequestHasLast, IsRequest
    <3>2. CASE calls[c].kind = "task"
      BY <1>0, <1>5, <1>8, <3>2, TokenKinds DEF Token!Crossing
    <3> QED
      BY <1>1, <1>2, <3>1, <3>2 DEF Carried
  <2>2. \A d \in Renewers \ {c} : ~(IsRequest(calls[d]) /\ calls[d].at = "refresh")
    <3>1. CASE calls[c].kind = "request"
      BY <1>2, <3>1 DEF TokenInv, OneRequest, IsRequest
    <3>2. CASE calls[c].kind = "task"
      <4>1. ~Token!Crossing
        BY <1>5, <1>8, <3>2
      <4> QED
        BY <4>1 DEF Token!Crossing, Token!Open, IsRequest
    <3> QED
      BY <1>1, <1>2, <3>1, <3>2 DEF Carried
  <2>3. \A d \in Renewers \ {c} :
           calls'[d] = calls[d] /\ (calls[d].at = "save" => IsRequest(calls[d]))
    BY <1>0, <1>6, <2>1, TokenKinds DEF Goes, IsPending, IsRequest
  <2>4. /\ calls'[c] = k
        /\ IsRequest(k) <=> IsRequest(calls[c])
        /\ IsPending(k) <=> ~IsRequest(calls[c])
    BY <1>2, <1>4, <1>6 DEF Goes, IsPending, IsRequest
  <2>5. \A d \in Renewers \ {c} : ~IsPending(calls'[d])
    BY <2>1, <2>3
  <2>6. RequestHasLast'
    BY <1>3, <1>4, <2>2, <2>3, <2>4 DEF RequestHasLast
  <2>7. PendingHasLast'
    BY <1>3, <1>4, <2>4, <2>5 DEF PendingHasLast
  <2>8. SavedIsLast'
    <3>1. CASE IsRequest(calls[c])
      <4>1. \A d \in Renewers \ {c} : calls'[d].at # "save"
        BY <2>3, <3>1 DEF TokenInv, OneRequest
      <4> QED
        BY <1>3, <1>4, <2>4, <4>1 DEF SavedIsLast
    <3>2. CASE ~IsRequest(calls[c])
      BY <2>4, <3>2 DEF SavedIsLast
    <3> QED
      BY <3>1, <3>2
  <2> QED
    BY <2>6, <2>7, <2>8
<1> QED
  BY <1>5, <1>6, <1>7, <1>8 DEF TokenInv, TokenAgrees

(* Those that end without a token to keep; a request that the service      *)
(* refuses did not have the last one.                                      *)
LEMMA TokenDropped ==
  ASSUME TokenInv, NEW c \in Renewers, calls[c].at = "refresh",
         calls' = [calls EXCEPT ![c] = Token!Free], store' = store, ui' \in TokenUi,
         ~ui'.crossed => ~ui.crossed,
         ui'.refused => ui.refused \/ (IsRequest(calls[c]) /\ calls[c].token # store.last)
  PROVE  TokenInv'
<1>0. TokenTypes
  BY DEF TokenInv
<1>1. TokenTypes' /\ Goes(c, Token!Free)
  <2>1. store' \in TokenStore /\ store'.row <= store'.last /\ store.last <= store'.last
    BY <1>0, TokenFields
  <2> QED
    BY <1>0, <2>1, TokenGoes
<1>2. \A d \in Renewers :
        /\ IsRequest(calls'[d]) => IsRequest(calls[d]) /\ calls'[d] = calls[d]
        /\ IsPending(calls'[d]) <=> IsPending(calls[d])
        /\ calls'[d].at = "save" <=> calls[d].at = "save"
        /\ calls[d].at = "save" => calls'[d] = calls[d]
  BY <1>1, TokenKinds, <1>0 DEF Goes, IsRequest, IsPending
<1>3. OneRequest'
  BY <1>2 DEF TokenInv, OneRequest
<1>4. ASSUME ~ui'.crossed
      PROVE  ~ui'.refused /\ (RequestHasLast /\ PendingHasLast /\ SavedIsLast)'
  <2>1. ~ui.refused /\ RequestHasLast /\ PendingHasLast /\ SavedIsLast
    BY <1>4 DEF TokenInv, TokenAgrees
  <2>2. ~ui'.refused
    BY <2>1 DEF RequestHasLast
  <2>3. RequestHasLast' /\ PendingHasLast' /\ SavedIsLast'
    BY <1>2, <2>1 DEF RequestHasLast, PendingHasLast, SavedIsLast, IsPending
  <2> QED
    BY <2>2, <2>3
<1> QED
  BY <1>1, <1>3, <1>4 DEF TokenInv, TokenAgrees

\* The user logs in again.
LEMMA TokenBack == ASSUME TokenInv, Token!agave_oauth_callback PROVE TokenInv'
<1>0. TokenTypes
  BY DEF TokenInv
<1>1. PICK c \in Renewers :
        /\ calls[c] = Token!Free /\ store.last < MaxTokens
        /\ store' = [store EXCEPT !.last = @ + 1]
        /\ calls' = [calls EXCEPT ![c] = Token!At("save", "login", store.last + 1)]
        /\ ui' = [ui EXCEPT !.crossed = Token!Crossing, !.refused = FALSE]
  BY DEF Token!agave_oauth_callback
<1> DEFINE k == Token!At("save", "login", store.last + 1)
<1>2. MaxTokens \in Nat
  BY WorkbenchAssumption DEF Token!TokenAssumption
<1>3. /\ store' \in TokenStore /\ store'.row = store.row /\ store'.last = store.last + 1
      /\ store.row \in Int /\ store.last \in Int /\ store.row <= store.last
  BY <1>0, <1>1, <1>2 DEF TokenTypes, TokenStore
<1>4. /\ k \in Carried /\ k.token = store.last + 1 /\ k.kind = "login"
      /\ k.at = "save" /\ k # Token!Free
  BY <1>1, <1>2, <1>3 DEF Carried, Token!At, Token!Free, TokenStore
<1>5. ui' \in TokenUi /\ ~ui'.refused /\ ui'.crossed = Token!Crossing
  <2>1. Token!Crossing \in BOOLEAN
    BY DEF Token!Crossing, Token!Pending
  <2> QED
    BY <1>0, <1>1, <2>1 DEF TokenTypes, TokenUi
<1> HIDE DEF k
<1>6. TokenTypes' /\ Goes(c, k)
  <2>1. /\ store'.row <= store'.last /\ store.last <= store'.last
        /\ k.token <= store'.last /\ calls' = [calls EXCEPT ![c] = k]
    BY <1>1, <1>3, <1>4 DEF k
  <2> QED
    BY <1>0, <1>3, <1>4, <1>5, <2>1, TokenGoes
<1>7. /\ ~IsRequest(k) /\ IsPending(k) /\ calls'[c] = k
      /\ \A d \in Renewers \ {c} : calls'[d] = calls[d]
  BY <1>4, <1>6 DEF IsRequest, IsPending, Goes
<1>8. OneRequest'
  BY <1>7 DEF TokenInv, OneRequest
<1>9. ASSUME ~ui'.crossed PROVE (RequestHasLast /\ PendingHasLast /\ SavedIsLast)'
  <2>1. /\ \A d \in Renewers : ~IsPending(calls[d])
        /\ \A d \in Renewers : ~(IsRequest(calls[d]) /\ calls[d].at = "refresh")
    <3>1. ~Token!Crossing
      BY <1>5, <1>9
    <3> QED
      BY <1>0, <3>1, TokenKinds DEF Token!Crossing, Token!Open, IsRequest
  <2> QED
    BY <1>3, <1>4, <1>7, <2>1 DEF RequestHasLast, PendingHasLast, SavedIsLast
<1> QED
  BY <1>5, <1>6, <1>8, <1>9 DEF TokenInv, TokenAgrees

\* A caller saves the token it was given.
LEMMA TokenSaved == ASSUME TokenInv, Token!update PROVE TokenInv'
<1>0. TokenTypes
  BY DEF TokenInv
<1>1. PICK c \in Renewers :
        /\ calls[c].at = "save" /\ (calls[c].kind = "request" \/ ~Token!Locked)
        /\ store' = [store EXCEPT !.row = calls[c].token, !.expired = FALSE]
        /\ calls' = [calls EXCEPT ![c] = Token!Free] /\ ui' = ui
  BY DEF Token!update
<1>2. /\ calls[c] \in Carried /\ calls[c] # Token!Free
      /\ calls[c].token \in 0..MaxTokens /\ calls[c].token <= store.last
      /\ IsRequest(calls[c]) <=> ~IsPending(calls[c])
  BY <1>0, <1>1, TokenKinds DEF TokenTypes, Carried, IsRequest, IsPending
<1>3. /\ store' \in TokenStore /\ store'.row = calls[c].token /\ store'.last = store.last
      /\ store.last \in Int
  <2>1. store \in TokenStore /\ calls[c].token \in 0..MaxTokens
    BY <1>0, <1>2, TokenFields
  <2>2. PICK t \in 0..MaxTokens : t = calls[c].token
    BY <2>1
  <2>3. store' = [store EXCEPT !.row = t, !.expired = FALSE]
    BY <1>1, <2>2
  <2>4. store' \in TokenStore /\ store'.row = t /\ store'.last = store.last
    BY ONLY <2>1, <2>3 DEF TokenStore
  <2> QED
    BY <1>0, <2>2, <2>4, TokenFields
<1>4. TokenTypes' /\ Goes(c, Token!Free)
  <2>1. /\ store'.row <= store'.last /\ store.last <= store'.last /\ ui' \in TokenUi
    BY <1>0, <1>1, <1>2, <1>3, TokenFields
  <2> QED
    BY <1>0, <1>1, <1>3, <2>1, TokenGoes
<1>5. /\ \A d \in Renewers \ {c} : calls'[d] = calls[d]
      /\ calls'[c] = Token!Free /\ ~IsRequest(calls'[c]) /\ ~IsPending(calls'[c])
      /\ calls'[c].at = "idle"
  BY <1>0, <1>4, TokenKinds DEF Goes, IsRequest, IsPending
<1>6. OneRequest'
  BY <1>5 DEF TokenInv, OneRequest
<1>7. ASSUME ~ui.crossed PROVE (RequestHasLast /\ PendingHasLast /\ SavedIsLast)'
  <2>0. RequestHasLast /\ PendingHasLast /\ SavedIsLast
    BY <1>7 DEF TokenInv, TokenAgrees
  <2>1. RequestHasLast' /\ PendingHasLast'
    BY <1>3, <1>5, <2>0 DEF RequestHasLast, PendingHasLast
  <2>2. SavedIsLast'
    <3>1. SUFFICES ASSUME \A d \in Renewers : ~IsPending(calls'[d])
                   PROVE  /\ \A d \in Renewers : calls'[d].at # "save"
                          /\ calls[c].token = store.last
      BY <1>3 DEF SavedIsLast
    <3>2. \A d \in Renewers \ {c} : ~IsPending(calls[d])
      BY <1>5, <3>1
    <3>3. \A d \in Renewers \ {c} : ~(IsRequest(calls[d]) /\ calls[d].at = "save")
      <4>1. CASE IsRequest(calls[c])
        BY <4>1 DEF TokenInv, OneRequest
      <4>2. CASE IsPending(calls[c])
        BY <1>0, <1>1, <4>2, TokenKinds DEF IsPending
      <4> QED
        BY <1>2, <4>1, <4>2
    <3>4. \A d \in Renewers : calls'[d].at # "save"
      BY <1>0, <1>5, <3>2, <3>3, TokenKinds DEF IsPending, IsRequest
    <3>5. calls[c].token = store.last
      <4>1. CASE IsRequest(calls[c])
        BY <1>1, <1>2, <2>0, <3>2, <4>1 DEF SavedIsLast
      <4>2. CASE IsPending(calls[c])
        BY <2>0, <4>2 DEF PendingHasLast
      <4> QED
        BY <1>2, <4>1, <4>2
    <3> QED
      BY <3>4, <3>5
  <2> QED
    BY <2>1, <2>2
<1> QED
  BY <1>1, <1>4, <1>6, <1>7 DEF TokenInv, TokenAgrees

\* An answer or a worker is lost.
LEMMA TokenLost == ASSUME TokenInv, Token!lost PROVE TokenInv'
<1>0. TokenTypes
  BY DEF TokenInv
<1>1. PICK c \in Renewers :
        /\ calls' = [calls EXCEPT ![c] = Token!Free]
        /\ ui' = [ui EXCEPT !.crossed = TRUE] /\ store' = store
  BY DEF Token!lost, Token!Open
<1>2. ui' \in TokenUi /\ ui'.crossed
  BY <1>0, <1>1 DEF TokenTypes, TokenUi
<1>3. TokenTypes' /\ Goes(c, Token!Free)
  <2>1. store' \in TokenStore /\ store'.row <= store'.last /\ store.last <= store'.last
    BY <1>0, <1>1, TokenFields
  <2> QED
    BY <1>0, <1>1, <1>2, <2>1, TokenGoes
<1>4. OneRequest'
  BY <1>0, <1>3, TokenKinds DEF TokenInv, OneRequest, Goes, IsRequest
<1> QED
  BY <1>2, <1>3, <1>4 DEF TokenInv, TokenAgrees

\* Every step of a caller and of the user keeps the invariant.
LEMMA TokenStep ==
  ASSUME TokenInv, [Token!Next]_<<store, calls, ui, alive>>
  PROVE  TokenInv'
<1>0. TokenTypes
  BY DEF TokenInv
<1>1. CASE Token!refused
  <2>1. PICK c \in Renewers :
          /\ calls[c].at = "refresh" /\ calls[c].token # store.last
          /\ calls' = [calls EXCEPT ![c] = Token!Free] /\ store' = store
          /\ ui' = [ui EXCEPT !.refused = @ \/ calls[c].kind = "request"]
    BY <1>1 DEF Token!refused
  <2>2. IsRequest(calls[c]) <=> calls[c].kind = "request"
    BY <1>0, <2>1, TokenKinds DEF IsRequest
  <2>3. /\ ui' \in TokenUi /\ ui'.crossed = ui.crossed
        /\ ui'.refused => ui.refused \/ calls[c].kind = "request"
    BY <1>0, <2>1 DEF TokenTypes, TokenUi
  <2> QED
    BY <2>1, <2>2, <2>3, TokenDropped
<1>2. CASE Token!unreached
  <2>1. PICK c \in Renewers :
          /\ calls[c].at = "refresh"
          /\ calls' = [calls EXCEPT ![c] = Token!Free] /\ store' = store /\ ui' = ui
    BY <1>2 DEF Token!unreached, Token!Open
  <2>2. ui \in TokenUi
    BY <1>0 DEF TokenTypes
  <2>3. /\ ui' \in TokenUi /\ (~ui'.crossed => ~ui.crossed)
        /\ ui'.refused => ui.refused \/ (IsRequest(calls[c]) /\ calls[c].token # store.last)
    BY <2>1, <2>2
  <2> QED
    BY <2>1, <2>3, TokenDropped
<1>3. CASE UNCHANGED <<store, calls, ui, alive>>
  BY <1>3 DEF TokenInv, TokenTypes, OneRequest, TokenAgrees, RequestHasLast,
     PendingHasLast, SavedIsLast, IsRequest, IsPending
<1> QED
  BY <1>1, <1>2, <1>3, TokenExpired, TokenLocked, TokenTaken, TokenRenewed, TokenBack,
     TokenSaved, TokenLost
  DEF Token!Next

\* What it says of types and of the token that is kept.
LEMMA TokenHolds == ASSUME TokenInv PROVE Token!TypeOK /\ Token!TokenIsLast
<1>0. TokenTypes
  BY DEF TokenInv
<1>1. Token!TypeOK
  BY <1>0 DEF TokenTypes, TokenStore, TokenUi, Token!TypeOK, Token!Open
<1>2. ASSUME ~ui.crossed, Token!Open = {} PROVE store.row = store.last
  <2>1. SavedIsLast /\ \A c \in Renewers : calls[c] = Token!Free
    BY <1>2 DEF TokenInv, TokenAgrees, Token!Open
  <2>2. \A c \in Renewers : calls[c].at # "save" /\ ~IsPending(calls[c])
    BY <1>0, <2>1, TokenKinds DEF IsPending
  <2> QED
    BY <2>1, <2>2 DEF SavedIsLast
<1> QED
  BY <1>1, <1>2 DEF TokenInv, TokenAgrees, Token!TokenIsLast
=============================================================================
