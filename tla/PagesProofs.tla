----------------------------- MODULE PagesProofs ----------------------------
(***************************************************************************)
(* Proofs about the pages in the browser: what a reader's page shows and   *)
(* tells (Reader), the page that edits an item (EditPage), the PDF         *)
(* resources and the pages that make and edit one (Resources,              *)
(* ResourcePages) and the pages that list things (AdminLists).             *)
(***************************************************************************)
EXTENDS MCPages,
        SequenceTheorems, FiniteSetTheorems, TLAPS

-----------------------------------------------------------------------------
(* The visit. *)

Beacons == {NoBeacon} \cup [of: Pieces, time: Nat, depth: Nat, shown: Nat, deepest: Nat]
VisitRecords ==
  [piece: Pieces, here: BOOLEAN, hidden: BOOLEAN, now: Nat, last: Nat, total: Nat, seen: BOOLEAN,
   sent: BOOLEAN, depth: 0 .. Bottom, at: 0 .. Bottom, bar: 0 .. Bottom, ticking: BOOLEAN,
   late: BOOLEAN, shown: Nat, deepest: 0 .. Bottom, told: Nat, parted: BOOLEAN, missed: BOOLEAN,
   beacon: Beacons]

\* The time on the screen is what is counted and what is running, and a beacon told it.
Measured(v) ==
  /\ v \in VisitRecords
  /\ v.total <= v.last /\ v.last <= v.now /\ v.now <= MaxHalves
  /\ v.seen <=> ~v.hidden
  /\ v.shown = IF v.seen THEN v.total + (v.now - v.last) ELSE v.total
  /\ v.at <= v.deepest /\ v.depth <= v.deepest
  /\ v.beacon = NoBeacon \/ (v.beacon.time = v.beacon.shown /\ v.beacon.depth <= v.beacon.deepest)
  /\ ~v.missed

\* A page on the screen has its beacon still to send, unless an unload took it.
VisitInv ==
  /\ Measured(visit)
  /\ visit.here /\ ~visit.hidden /\ ~visit.parted => ~visit.sent
  /\ visit.hidden \/ ~visit.here => ~Untold(visit)
  /\ visit.here /\ ~visit.ticking /\ ~visit.late => visit.bar = visit.at

LEMMA ReaderConstants == MaxHalves \in Nat /\ Bottom \in Nat /\ MaxClicks \in Nat
BY ReaderAssumption

LEMMA SecondsNat == \A h \in Nat : Seconds(h) \in Nat
BY DEF Seconds

LEMMA SendTells ==
  ASSUME NEW v, Measured(v), v.sent => ~Untold(v)
  PROVE  LET w == SendEngagementData(v) IN
         /\ Measured(w) /\ ~Untold(w)
         /\ w.piece = v.piece /\ w.here = v.here /\ w.hidden = v.hidden /\ w.now = v.now
         /\ w.at = v.at /\ w.bar = v.bar /\ w.ticking = v.ticking /\ w.late = v.late
         /\ w.parted = v.parted
<1> DEFINE w == SendEngagementData(v)
           c == Counted(v)
<1>1. /\ Measured(c) /\ c.total = c.shown /\ c.shown = v.shown
      /\ c.piece = v.piece /\ c.here = v.here /\ c.hidden = v.hidden /\ c.now = v.now
      /\ c.at = v.at /\ c.bar = v.bar /\ c.ticking = v.ticking /\ c.late = v.late
      /\ c.parted = v.parted
  <2>1. CASE v.seen
    <3>1. c = [v EXCEPT !.total = v.total + v.now - v.last, !.last = v.now]
      BY <2>1 DEF Counted
    <3>2. v.total + v.now - v.last \in Nat /\ v.total + v.now - v.last = v.shown
      BY <2>1 DEF Measured, VisitRecords
    <3>3. v.shown <= v.now
      BY <2>1 DEF Measured, VisitRecords
    <3> HIDE DEF c
    <3>4. c \in VisitRecords /\ c.total = v.shown /\ c.last = v.now
      BY <3>1, <3>2 DEF Measured, VisitRecords
    <3>5. /\ c.shown = v.shown /\ c.now = v.now /\ c.seen = v.seen /\ c.hidden = v.hidden
          /\ c.at = v.at /\ c.depth = v.depth /\ c.deepest = v.deepest /\ c.beacon = v.beacon
          /\ c.missed = v.missed /\ c.piece = v.piece /\ c.here = v.here /\ c.bar = v.bar
          /\ c.ticking = v.ticking /\ c.late = v.late /\ c.parted = v.parted
      BY <3>1 DEF Measured, VisitRecords
    <3>6. v.now - v.now = 0 /\ v.shown \in Nat /\ v.now \in Nat
      BY DEF Measured, VisitRecords
    <3>7. Measured(c)
      BY <2>1, <3>3, <3>4, <3>5, <3>6 DEF Measured
    <3> QED
      BY <3>4, <3>5, <3>7
  <2>2. CASE ~v.seen
    BY <2>2 DEF Counted, Measured
  <2> QED
    BY <2>1, <2>2
<1> HIDE DEF c
<1>2. CASE v.sent
  BY <1>2 DEF SendEngagementData
<1>3. CASE ~v.sent /\ Seconds(c.total) < 1
  <2>1. w = c
    BY <1>3 DEF SendEngagementData, c
  <2>2. ~Untold(c)
    BY <1>1, <1>3, SecondsNat DEF Untold, Measured, VisitRecords
  <2> QED
    BY <2>1, <2>2, <1>1
<1>4. CASE ~v.sent /\ ~(Seconds(c.total) < 1)
  <2> DEFINE b == [of |-> c.piece, time |-> Seconds(c.total), depth |-> c.depth,
                   shown |-> Seconds(c.shown), deepest |-> c.deepest]
  <2>1. w = [c EXCEPT !.sent = TRUE, !.told = Seconds(c.total), !.beacon = b]
    BY <1>4 DEF SendEngagementData, c
  <2>2. Seconds(c.total) \in Nat /\ Seconds(c.total) = Seconds(c.shown)
    BY <1>1, SecondsNat DEF Measured, VisitRecords
  <2>3. b \in Beacons /\ b.time = b.shown /\ b.depth <= b.deepest
    BY <1>1, <2>2, ReaderConstants DEF Beacons, Measured, VisitRecords
  <2> HIDE DEF b, w
  <2>4. Measured(w)
    BY <1>1, <2>1, <2>2, <2>3 DEF Measured, VisitRecords
  <2>5. ~Untold(w)
    BY <1>1, <2>1, <2>2 DEF Untold, Measured, VisitRecords
  <2>6. /\ w.piece = v.piece /\ w.here = v.here /\ w.hidden = v.hidden /\ w.now = v.now
        /\ w.at = v.at /\ w.bar = v.bar /\ w.ticking = v.ticking /\ w.late = v.late
        /\ w.parted = v.parted
    BY <1>1, <2>1 DEF Measured, VisitRecords
  <2> QED
    BY <2>4, <2>5, <2>6 DEF w
<1> QED
  BY <1>2, <1>3, <1>4

\* What is sent and not kept from an unload is all told.
LEMMA SentTold == VisitInv => (visit.sent => ~Untold(visit))
BY DEF VisitInv, Untold, Measured, VisitRecords

LEMMA MountedFresh ==
  ASSUME NEW v, Measured(v), NEW piece \in Pieces, NEW at \in 0 .. Bottom
  PROVE  LET m == Mounted(v, piece, at) IN
         /\ Measured(m) /\ ~Untold(m) /\ ~m.sent /\ m.bar = m.at
<1> DEFINE m == Mounted(v, piece, at)
<1>1. m = [piece |-> piece, here |-> TRUE, hidden |-> v.hidden, now |-> v.now, last |-> v.now,
           total |-> 0, seen |-> ~v.hidden, sent |-> FALSE, depth |-> at, at |-> at, bar |-> at,
           ticking |-> FALSE, late |-> v.late \/ v.ticking, shown |-> 0, deepest |-> at,
           told |-> 0, parted |-> FALSE, missed |-> v.missed, beacon |-> v.beacon]
  BY DEF Mounted
<1>2. /\ (v.late \/ v.ticking) \in BOOLEAN /\ (~v.hidden) \in BOOLEAN
      /\ v.hidden \in BOOLEAN /\ v.now \in Nat /\ v.missed \in BOOLEAN /\ v.beacon \in Beacons
  BY DEF Measured, VisitRecords
<1> HIDE DEF m
<1>3. m \in VisitRecords
  BY <1>1, <1>2 DEF VisitRecords
<1>4. /\ m.total = 0 /\ m.shown = 0 /\ m.last = v.now /\ m.now = v.now /\ m.hidden = v.hidden
      /\ (m.seen <=> ~m.hidden) /\ m.at = at /\ m.bar = at /\ m.depth = at /\ m.deepest = at
      /\ m.beacon = v.beacon /\ m.missed = v.missed /\ m.sent = FALSE /\ m.told = 0
  BY <1>1 DEF Measured, VisitRecords
<1>5. Measured(m)
  BY <1>3, <1>4, ReaderConstants DEF Measured, VisitRecords
<1>6. Seconds(0) = 0
  BY DEF Seconds
<1>7. ~Untold(m)
  BY <1>4, <1>6 DEF Untold
<1> QED
  BY <1>4, <1>5, <1>7 DEF m

LEMMA VisitStep == VisitInv /\ [VisitNext]_visit => VisitInv'
<1> SUFFICES ASSUME VisitInv, [VisitNext]_visit PROVE VisitInv'
  OBVIOUS
<1> USE ReaderConstants
<1>0. Measured(visit) /\ visit \in VisitRecords /\ (visit.sent => ~Untold(visit))
  BY SentTold DEF VisitInv, Measured
<1>1. CASE PassHalf
  <2>1. visit' = [visit EXCEPT !.now = visit.now + 1,
                    !.shown = IF visit.hidden THEN visit.shown ELSE visit.shown + 1]
    BY <1>1 DEF PassHalf
  <2>a. visit.now + 1 \in Nat /\ (IF visit.hidden THEN visit.shown ELSE visit.shown + 1) \in Nat
    BY <1>0 DEF VisitRecords
  <2>2. visit'.now = visit.now + 1 /\ visit'.shown = IF visit.hidden THEN visit.shown ELSE visit.shown + 1
    BY <2>1, <1>0 DEF VisitRecords
  <2>3. /\ visit' \in VisitRecords
        /\ visit'.total = visit.total /\ visit'.last = visit.last /\ visit'.seen = visit.seen
        /\ visit'.hidden = visit.hidden /\ visit'.at = visit.at /\ visit'.depth = visit.depth
        /\ visit'.deepest = visit.deepest /\ visit'.beacon = visit.beacon /\ visit'.missed = visit.missed
        /\ visit'.here = visit.here /\ visit'.parted = visit.parted /\ visit'.sent = visit.sent
        /\ visit'.told = visit.told /\ visit'.bar = visit.bar /\ visit'.ticking = visit.ticking
        /\ visit'.late = visit.late
    BY <2>1, <2>a, <1>0 DEF VisitRecords
  <2>4. visit.now < MaxHalves /\ visit.here
    BY <1>1 DEF PassHalf
  <2>5. Measured(visit)'
    BY <2>2, <2>3, <2>4, <1>0 DEF Measured, VisitRecords
  <2>6. (visit.hidden \/ ~visit.here => ~Untold(visit))'
    BY <2>2, <2>3, <2>4 DEF VisitInv, Untold
  <2> QED
    BY <2>3, <2>5, <2>6 DEF VisitInv
<1>2. ASSUME NEW at \in 0 .. Bottom, ScrollTo(at) PROVE VisitInv'
  <2>1. visit' = [visit EXCEPT !.at = at, !.ticking = TRUE,
                    !.deepest = IF visit.deepest > at THEN visit.deepest ELSE at]
    BY <1>2 DEF ScrollTo, Higher
  <2>2. /\ visit' \in VisitRecords /\ visit'.at = at /\ visit'.ticking = TRUE
        /\ visit'.deepest = IF visit.deepest > at THEN visit.deepest ELSE at
        /\ visit'.total = visit.total /\ visit'.last = visit.last /\ visit'.seen = visit.seen
        /\ visit'.hidden = visit.hidden /\ visit'.depth = visit.depth /\ visit'.now = visit.now
        /\ visit'.shown = visit.shown
        /\ visit'.beacon = visit.beacon /\ visit'.missed = visit.missed
        /\ visit'.here = visit.here /\ visit'.parted = visit.parted /\ visit'.sent = visit.sent
        /\ visit'.told = visit.told
    BY <2>1, <1>0 DEF VisitRecords
  <2>3. Measured(visit)'
    BY <2>2, <1>0 DEF Measured, VisitRecords
  <2> QED
    BY <2>2, <2>3 DEF VisitInv, Untold
<1>3. ASSUME NEW old \in BOOLEAN, Frame(old) PROVE VisitInv'
  <2>1. visit' = [visit EXCEPT !.depth = IF visit.depth > visit.at THEN visit.depth ELSE visit.at,
                    !.bar = visit.at, !.ticking = visit.ticking /\ old, !.late = visit.late /\ ~old]
    BY <1>3 DEF Frame, Higher
  <2>2. /\ (visit.ticking /\ old) \in BOOLEAN /\ (visit.late /\ ~old) \in BOOLEAN
        /\ (IF visit.depth > visit.at THEN visit.depth ELSE visit.at) \in 0 .. Bottom
    BY <1>0 DEF VisitRecords
  <2> DEFINE far == IF visit.depth > visit.at THEN visit.depth ELSE visit.at
             soon == visit.ticking /\ old
             later == visit.late /\ ~old
  <2>a. visit' = [visit EXCEPT !.depth = far, !.bar = visit.at, !.ticking = soon, !.late = later]
        /\ far \in 0 .. Bottom /\ soon \in BOOLEAN /\ later \in BOOLEAN /\ visit.at \in 0 .. Bottom
    BY <2>1, <2>2, <1>0 DEF VisitRecords
  <2> HIDE DEF far, soon, later
  <2>b. /\ visit' \in VisitRecords /\ visit'.at = visit.at /\ visit'.bar = visit.at
        /\ visit'.depth = far
        /\ visit'.deepest = visit.deepest
        /\ visit'.total = visit.total /\ visit'.last = visit.last /\ visit'.seen = visit.seen
        /\ visit'.hidden = visit.hidden /\ visit'.now = visit.now
        /\ visit'.shown = visit.shown
        /\ visit'.beacon = visit.beacon /\ visit'.missed = visit.missed
        /\ visit'.here = visit.here /\ visit'.parted = visit.parted /\ visit'.sent = visit.sent
        /\ visit'.told = visit.told
    BY <2>a, <1>0 DEF VisitRecords
  <2>3. far <= visit.deepest
    BY <1>0 DEF far, Measured, VisitRecords
  <2>4. Measured(visit)'
    BY <2>3, <2>b, <1>0 DEF Measured, VisitRecords
  <2> QED
    BY <2>b, <2>4 DEF VisitInv, Untold
<1>4. CASE Hide
  <2> DEFINE v == [Counted(visit) EXCEPT !.seen = FALSE, !.hidden = TRUE]
  <2>1. visit.here /\ ~visit.hidden /\ visit' = SendEngagementData(v)
    BY <1>4 DEF Hide
  <2>2. Counted(visit) = [visit EXCEPT !.total = visit.total + visit.now - visit.last, !.last = visit.now]
    BY <2>1, <1>0 DEF Counted, Measured, VisitRecords
  <2>3. visit.total + visit.now - visit.last \in Nat /\ visit.total + visit.now - visit.last = visit.shown
        /\ visit.shown <= visit.now
    BY <2>1, <1>0 DEF Measured, VisitRecords
  <2>4. v = [visit EXCEPT !.total = visit.total + visit.now - visit.last, !.last = visit.now,
                          !.seen = FALSE, !.hidden = TRUE]
    BY <2>2, <1>0 DEF VisitRecords
  <2> HIDE DEF v
  <2>5. /\ v \in VisitRecords /\ v.total = visit.shown /\ v.last = visit.now /\ v.now = visit.now
        /\ v.seen = FALSE /\ v.hidden = TRUE /\ v.shown = visit.shown /\ v.sent = visit.sent
        /\ v.parted = visit.parted /\ v.at = visit.at /\ v.bar = visit.bar /\ v.depth = visit.depth
        /\ v.deepest = visit.deepest /\ v.beacon = visit.beacon /\ v.missed = visit.missed
        /\ v.here = visit.here /\ v.ticking = visit.ticking /\ v.late = visit.late
    BY <2>3, <2>4, <1>0 DEF VisitRecords
  <2>6. visit.now \in Nat /\ visit.now <= MaxHalves
    BY <1>0 DEF Measured, VisitRecords
  <2>7. Measured(v)
    BY <2>3, <2>5, <2>6, <1>0 DEF Measured
  <2>8. v.sent => ~Untold(v)
    BY <2>1, <2>5 DEF VisitInv, Untold
  <2>9. /\ Measured(visit') /\ ~Untold(visit') /\ visit'.hidden = TRUE
        /\ visit'.here = visit.here /\ visit'.ticking = visit.ticking /\ visit'.late = visit.late
        /\ visit'.bar = visit.bar /\ visit'.at = visit.at
    BY <2>1, <2>5, <2>7, <2>8, SendTells
  <2>10. Measured(visit)' /\ ~Untold(visit)'
    BY <2>9 DEF Measured, Untold, VisitRecords, Seconds, Beacons
  <2> QED
    BY <2>9, <2>10 DEF VisitInv
<1>5. CASE Show
  <2>1. visit' = [visit EXCEPT !.last = visit.now, !.seen = TRUE, !.sent = FALSE,
                 !.hidden = FALSE, !.parted = FALSE] /\ visit.here /\ visit.hidden
    BY <1>5 DEF Show
  <2>2. /\ visit' \in VisitRecords /\ visit'.at = visit.at /\ visit'.bar = visit.bar
        /\ visit'.ticking = visit.ticking /\ visit'.late = visit.late
        /\ visit'.deepest = visit.deepest /\ visit'.depth = visit.depth
        /\ visit'.total = visit.total /\ visit'.last = visit.now /\ visit'.seen = TRUE
        /\ visit'.hidden = FALSE /\ visit'.now = visit.now
        /\ visit'.shown = visit.shown
        /\ visit'.beacon = visit.beacon /\ visit'.missed = visit.missed
        /\ visit'.here = visit.here /\ visit'.sent = FALSE
    BY <2>1, <1>0 DEF VisitRecords
  <2>3. Measured(visit)'
    BY <2>1, <2>2, <1>0 DEF Measured, VisitRecords
  <2> QED
    BY <2>1, <2>2, <2>3 DEF VisitInv
<1>6. ASSUME NEW stays \in BOOLEAN, BeforeUnload(stays) PROVE VisitInv'
  <2> DEFINE w == SendEngagementData(visit)
  <2>1. /\ Measured(w) /\ ~Untold(w) /\ w.here = visit.here /\ w.hidden = visit.hidden
        /\ w.at = visit.at /\ w.bar = visit.bar /\ w.ticking = visit.ticking /\ w.late = visit.late
        /\ w.parted = visit.parted
    BY <1>0, SendTells
  <2>2. visit' = [w EXCEPT !.here = stays, !.parted = w.parted \/ stays] /\ visit.here
    BY <1>6 DEF BeforeUnload
  <2> HIDE DEF w
  <2>3. (w.parted \/ stays) \in BOOLEAN /\ w \in VisitRecords
    BY <2>1 DEF Measured
  <2>4. /\ visit' \in VisitRecords /\ visit'.at = w.at /\ visit'.bar = w.bar
        /\ visit'.ticking = w.ticking /\ visit'.late = w.late
        /\ visit'.deepest = w.deepest /\ visit'.depth = w.depth
        /\ visit'.total = w.total /\ visit'.last = w.last /\ visit'.seen = w.seen
        /\ visit'.hidden = w.hidden /\ visit'.now = w.now
        /\ visit'.shown = w.shown /\ visit'.told = w.told
        /\ visit'.beacon = w.beacon /\ visit'.missed = w.missed
        /\ visit'.here = stays /\ visit'.sent = w.sent /\ visit'.parted = (w.parted \/ stays)
    BY <2>2, <2>3 DEF VisitRecords
  <2>5. Measured(visit)'
    BY <2>1, <2>4 DEF Measured
  <2>6. (visit.hidden \/ ~visit.here => ~Untold(visit))'
    BY <2>1, <2>4 DEF Untold
  <2>7. (visit.here /\ ~visit.hidden /\ ~visit.parted => ~visit.sent)'
    BY <2>4
  <2>8. (visit.here /\ ~visit.ticking /\ ~visit.late => visit.bar = visit.at)'
    BY <2>1, <2>2, <2>4 DEF VisitInv
  <2> QED
    BY <2>5, <2>6, <2>7, <2>8 DEF VisitInv
<1>7. ASSUME NEW piece \in Pieces, NEW at \in 0 .. Bottom, Navigate(piece, at) PROVE VisitInv'
  <2> DEFINE w == SendEngagementData(visit)
             n == Mounted(w, piece, at)
  <2>1. Measured(w) /\ ~Untold(w)
    BY <1>0, SendTells
  <2>2. /\ Measured(n) /\ ~Untold(n) /\ ~n.sent /\ n.bar = n.at
    BY <2>1, MountedFresh
  <2>3. visit' = [n EXCEPT !.missed = n.missed \/ Untold(w)]
    BY <1>7 DEF Navigate
  <2> HIDE DEF w, n
  <2>4. n \in VisitRecords /\ (n.missed \/ Untold(w)) = FALSE /\ n.missed = FALSE
    BY <2>1, <2>2 DEF Measured, VisitRecords
  <2>5. visit' = n
    BY <2>3, <2>4 DEF VisitRecords
  <2>6. Measured(visit)' /\ ~Untold(visit)' /\ ~visit'.sent /\ visit'.bar = visit'.at
    BY <2>2, <2>5 DEF Measured, Untold
  <2> QED
    BY <2>6 DEF VisitInv
<1>8. CASE Unmount
  <2> DEFINE w == SendEngagementData(visit)
  <2>1. Measured(w) /\ ~Untold(w)
    BY <1>0, SendTells
  <2>2. visit' = [w EXCEPT !.here = FALSE]
    BY <1>8 DEF Unmount
  <2> HIDE DEF w
  <2>3. /\ visit' \in VisitRecords /\ visit'.at = w.at
        /\ visit'.deepest = w.deepest /\ visit'.depth = w.depth
        /\ visit'.total = w.total /\ visit'.last = w.last /\ visit'.seen = w.seen
        /\ visit'.hidden = w.hidden /\ visit'.now = w.now
        /\ visit'.shown = w.shown /\ visit'.told = w.told
        /\ visit'.beacon = w.beacon /\ visit'.missed = w.missed
        /\ visit'.here = FALSE /\ visit'.parted = w.parted
    BY <2>1, <2>2 DEF Measured, VisitRecords
  <2>4. Measured(visit)'
    BY <2>1, <2>3 DEF Measured
  <2>5. ~Untold(visit)'
    BY <2>1, <2>3 DEF Untold
  <2> QED
    BY <2>3, <2>4, <2>5 DEF VisitInv
<1>9. CASE visit' = visit
  BY <1>9 DEF VisitInv, Measured, Untold
<1> QED
  BY <1>1, <1>2, <1>3, <1>4, <1>5, <1>6, <1>7, <1>8, <1>9 DEF VisitNext

\* A visit that begins, of a page that is hidden or not.
Begun(hidden, seen, at) ==
  [piece |-> "this post", here |-> TRUE, hidden |-> hidden, now |-> 0, last |-> 0,
   total |-> 0, seen |-> seen, sent |-> FALSE, depth |-> at, at |-> at, bar |-> at,
   ticking |-> FALSE, late |-> FALSE, shown |-> 0, deepest |-> at,
   told |-> 0, parted |-> FALSE, missed |-> FALSE, beacon |-> NoBeacon]

LEMMA VisitBegan ==
  ASSUME VisitInit
  PROVE  \E at \in 0 .. Bottom : visit \in {Begun(TRUE, FALSE, at), Begun(FALSE, TRUE, at)}
<1> DEFINE Blank(hidden) == [hidden |-> hidden, now |-> 0, ticking |-> FALSE, late |-> FALSE,
                             missed |-> FALSE, beacon |-> NoBeacon]
<1>1. \A at : /\ Mounted(Blank(TRUE), "this post", at) = Begun(TRUE, FALSE, at)
              /\ Mounted(Blank(FALSE), "this post", at) = Begun(FALSE, TRUE, at)
  BY DEF Mounted, Begun
<1>2. \E hidden \in BOOLEAN, at \in 0 .. Bottom : visit = Mounted(Blank(hidden), "this post", at)
  BY DEF VisitInit
<1> HIDE DEF Blank
<1>3. \E at \in 0 .. Bottom : \/ visit = Mounted(Blank(TRUE), "this post", at)
                              \/ visit = Mounted(Blank(FALSE), "this post", at)
  BY <1>2, Zenon
<1> QED
  BY <1>1, <1>3

LEMMA VisitBegins == VisitInit => VisitInv
<1> SUFFICES ASSUME VisitInit PROVE VisitInv
  OBVIOUS
<1>1. PICK at \in 0 .. Bottom : visit \in {Begun(TRUE, FALSE, at), Begun(FALSE, TRUE, at)}
  BY VisitBegan
<1>2. PICK hidden \in BOOLEAN, seen \in BOOLEAN : visit = Begun(hidden, seen, at) /\ (seen <=> ~hidden)
  BY <1>1
<1>3. visit \in VisitRecords /\ (visit.seen <=> ~visit.hidden)
  <2>1. NoBeacon \in Beacons /\ "this post" \in Pieces
    BY DEF Beacons, Pieces
  <2> HIDE DEF NoBeacon
  <2>2. visit.seen = seen /\ visit.hidden = hidden
    BY <1>2 DEF Begun
  <2>3. visit \in VisitRecords
    BY <1>2, <2>1, ReaderConstants DEF VisitRecords, Begun
  <2> QED
    BY <1>2, <2>2, <2>3
<1>a. /\ visit.here = TRUE /\ visit.now = 0 /\ visit.last = 0
      /\ visit.total = 0 /\ visit.sent = FALSE /\ visit.depth = at
      /\ visit.at = at /\ visit.bar = at /\ visit.shown = 0 /\ visit.deepest = at
      /\ visit.told = 0 /\ visit.missed = FALSE /\ visit.beacon = NoBeacon
  BY <1>2 DEF Begun
<1>4. Measured(visit)
  BY <1>a, <1>3, ReaderConstants DEF Measured
<1>5. Seconds(0) = 0
  BY DEF Seconds
<1>6. ~Untold(visit)
  BY <1>a, <1>5 DEF Untold
<1> QED
  BY <1>a, <1>4, <1>6 DEF VisitInv

(* Reading aloud: SpeechShown is inductive once the engine's events are a sequence. *)

EventLists == Seq(0 .. MaxClicks)
SpeechRecords ==
  [here: BOOLEAN, ui: {"stopped", "playing", "paused"}, loaded: BOOLEAN,
   voice: {"", "one", "two"}, current: 0 .. MaxClicks, paused: BOOLEAN,
   events: EventLists, spoken: 0 .. MaxClicks, crossed: BOOLEAN, muffled: BOOLEAN]

SpeechInv ==
  /\ speech \in SpeechRecords
  /\ SpeechShown

LEMMA EventFacts ==
  /\ <<>> \in EventLists
  /\ \A s \in EventLists : /\ s # <<>> => Tail(s) \in EventLists
                           /\ \A e \in 0 .. MaxClicks : Append(s, e) \in EventLists /\ Append(s, e) # <<>>
<1>1. ASSUME NEW s \in EventLists, s # <<>> PROVE Tail(s) \in EventLists
  BY <1>1 DEF EventLists
<1>2. ASSUME NEW s \in EventLists, NEW e \in 0 .. MaxClicks
      PROVE  Append(s, e) \in EventLists /\ Append(s, e) # <<>>
  <2>1. Append(s, e) \in EventLists /\ Len(Append(s, e)) = Len(s) + 1 /\ Len(s) \in Nat
    BY DEF EventLists
  <2>2. Len(<<>>) = 0
    OBVIOUS
  <2> QED
    BY <2>1, <2>2
<1>3. <<>> \in EventLists
  BY DEF EventLists
<1> QED
  BY <1>1, <1>2, <1>3

\* What cancelling leaves: nothing is spoken, and the event of what was is to come.
LEMMA CancelQuiet ==
  ASSUME NEW s \in SpeechRecords
  PROVE  \E c \in SpeechRecords :
           /\ Cancelled(s) = c
           /\ c.here = s.here /\ c.ui = s.ui /\ c.paused = s.paused /\ c.spoken = s.spoken
           /\ c.crossed = s.crossed /\ c.current = 0
           /\ (s.current = 0 /\ c = s) \/ (s.current # 0 /\ c.events # <<>>)
<1>1. CASE s.current = 0
  BY <1>1 DEF Cancelled
<1>2. CASE s.current # 0
  <2> DEFINE e == Append(s.events, s.current)
             c == [s EXCEPT !.current = 0, !.events = e, !.muffled = FALSE]
  <2>1. e \in EventLists /\ e # <<>>
    BY EventFacts DEF SpeechRecords
  <2>2. Cancelled(s) = c
    BY <1>2 DEF Cancelled
  <2>3. 0 \in 0 .. MaxClicks
    BY ReaderConstants
  <2> HIDE DEF e
  <2>4. /\ c \in SpeechRecords /\ c.events = e /\ c.current = 0
        /\ c.here = s.here /\ c.ui = s.ui /\ c.paused = s.paused /\ c.spoken = s.spoken
        /\ c.crossed = s.crossed
    BY <2>1, <2>3 DEF SpeechRecords
  <2> HIDE DEF c
  <2> QED
    BY <1>2, <2>1, <2>2, <2>4
<1> QED
  BY <1>1, <1>2

LEMMA SpeechStep == SpeechInv /\ [SpeechNext]_speech => SpeechInv'
<1> SUFFICES ASSUME SpeechInv, [SpeechNext]_speech PROVE SpeechInv'
  OBVIOUS
<1> USE ReaderConstants
<1>0. PICK c \in SpeechRecords :
           /\ Cancelled(speech) = c
           /\ c.here = speech.here /\ c.ui = speech.ui /\ c.paused = speech.paused /\ c.spoken = speech.spoken
           /\ c.crossed = speech.crossed /\ c.current = 0
           /\ (speech.current = 0 /\ c = speech) \/ (speech.current # 0 /\ c.events # <<>>)
  BY CancelQuiet DEF SpeechInv
<1>z. 0 \in 0 .. MaxClicks
  OBVIOUS
<1>1. CASE VoicesChanged
  <2>1. CASE speech' = [speech EXCEPT !.loaded = TRUE]
    BY <2>1 DEF SpeechInv, SpeechShown, SpeechRecords
  <2>2. CASE speech' = [c EXCEPT !.loaded = TRUE, !.voice = "one"]
    <3>1. /\ speech' \in SpeechRecords /\ speech'.here = c.here /\ speech'.ui = c.ui
          /\ speech'.paused = c.paused /\ speech'.crossed = c.crossed /\ speech'.current = c.current
          /\ speech'.events = c.events /\ speech'.muffled = c.muffled
      BY <2>2 DEF SpeechRecords
    <3> QED
      BY <3>1, <1>0 DEF SpeechInv, SpeechShown
  <2> QED
    BY <2>1, <2>2, <1>0, <1>1 DEF VoicesChanged
<1>2. ASSUME NEW v \in {"one", "two"}, ChooseVoice(v) PROVE SpeechInv'
  <2>1. speech' = [c EXCEPT !.voice = v]
    BY <1>0, <1>2 DEF ChooseVoice
  <2>2. /\ speech' \in SpeechRecords /\ speech'.here = c.here /\ speech'.ui = c.ui
        /\ speech'.paused = c.paused /\ speech'.crossed = c.crossed /\ speech'.current = c.current
        /\ speech'.events = c.events /\ speech'.muffled = c.muffled
    BY <2>1 DEF SpeechRecords
  <2> QED
    BY <2>2, <1>0 DEF SpeechInv, SpeechShown
<1>3. CASE Play
  <2>1. CASE speech.ui = "paused"
    <3>1. /\ speech' = [speech EXCEPT !.ui = "playing", !.paused = FALSE, !.muffled = FALSE]
          /\ speech.here
      BY <2>1, <1>3 DEF Play
    <3>2. /\ speech' \in SpeechRecords /\ speech'.here = speech.here /\ speech'.ui = "playing"
          /\ speech'.paused = FALSE /\ speech'.crossed = speech.crossed
          /\ speech'.current = speech.current /\ speech'.events = speech.events
      BY <3>1 DEF SpeechInv, SpeechRecords
    <3> QED
      BY <3>1, <3>2, <2>1 DEF SpeechInv, SpeechShown
  <2>2. CASE speech.ui # "paused"
    <3>1. /\ speech.spoken < MaxClicks /\ speech.here /\ speech.ui = "stopped"
          /\ speech' = [Cancelled(speech) EXCEPT !.ui = "playing",
                          !.spoken = Cancelled(speech).spoken + 1,
                          !.current = speech.spoken + 1, !.crossed = FALSE, !.muffled = speech.paused]
      BY <2>2, <1>3 DEF Play, SpeechInv, SpeechRecords
    <3>2. speech.spoken + 1 \in 0 .. MaxClicks /\ speech.spoken + 1 # 0 /\ speech.paused \in BOOLEAN
      <4>1. speech.spoken \in 0 .. MaxClicks /\ speech.paused \in BOOLEAN
        BY DEF SpeechInv, SpeechRecords
      <4> QED
        BY <4>1, <3>1
    <3>3. speech' = [c EXCEPT !.ui = "playing", !.spoken = speech.spoken + 1,
                          !.current = speech.spoken + 1, !.crossed = FALSE, !.muffled = speech.paused]
      BY <3>1, <1>0
    <3>4. /\ speech' \in SpeechRecords
          /\ speech'.here = c.here /\ speech'.ui = "playing" /\ speech'.current = speech.spoken + 1
          /\ speech'.muffled = speech.paused /\ speech'.paused = c.paused
      BY <3>2, <3>3 DEF SpeechRecords
    <3> QED
      BY <3>1, <3>2, <3>4, <1>0 DEF SpeechInv, SpeechShown
  <2> QED
    BY <2>1, <2>2
<1>4. CASE Pause
  BY <1>4 DEF Pause, SpeechInv, SpeechShown, SpeechRecords
<1>5. CASE StopSpeech
  <2>1. speech' = [c EXCEPT !.ui = "stopped"]
    BY <1>0, <1>5 DEF StopSpeech
  <2>2. /\ speech' \in SpeechRecords /\ speech'.here = c.here /\ speech'.ui = "stopped"
        /\ speech'.paused = c.paused /\ speech'.crossed = c.crossed /\ speech'.current = c.current
        /\ speech'.events = c.events
    BY <2>1 DEF SpeechRecords
  <2> QED
    BY <2>2, <1>0 DEF SpeechInv, SpeechShown
<1>6. CASE FinishSpeaking
  <2>1. speech' = c /\ speech.current # 0
    BY <1>0, <1>6 DEF FinishSpeaking
  <2> QED
    BY <2>1, <1>0 DEF SpeechInv, SpeechShown
<1>7. CASE SpeechEvent
  <2> DEFINE e == Tail(speech.events)
             crossed == speech.current # 0
  <2>1. speech' = [speech EXCEPT !.events = e, !.ui = "stopped", !.crossed = crossed]
    BY <1>7 DEF SpeechEvent
  <2>2. e \in EventLists /\ crossed \in BOOLEAN
    BY <1>7, EventFacts DEF SpeechEvent, SpeechInv, SpeechRecords
  <2> HIDE DEF e, crossed
  <2>3. /\ speech' \in SpeechRecords /\ speech'.here = speech.here /\ speech'.ui = "stopped"
        /\ speech'.crossed = crossed /\ speech'.current = speech.current
    BY <2>1, <2>2 DEF SpeechInv, SpeechRecords
  <2> QED
    BY <2>3, <1>7 DEF SpeechEvent, SpeechInv, SpeechShown, crossed
<1>8. CASE LeaveSpeech
  <2>1. speech' = [c EXCEPT !.here = FALSE]
    BY <1>0, <1>8 DEF LeaveSpeech
  <2>2. speech' \in SpeechRecords /\ speech'.here = FALSE /\ speech'.current = c.current
    BY <2>1 DEF SpeechRecords
  <2> QED
    BY <2>2, <1>0 DEF SpeechInv, SpeechShown
<1>9. CASE speech' = speech
  BY <1>9 DEF SpeechInv, SpeechShown
<1> QED
  BY <1>1, <1>2, <1>3, <1>4, <1>5, <1>6, <1>7, <1>8, <1>9 DEF SpeechNext

(* The share menu: every timer and every copy under way goes back to a press. *)

ShareRecords ==
  [mobile: BOOLEAN, open: BOOLEAN, loading: Platforms \cup {"none"},
   answer: {"none", "awaited", "address", "failed"}, copied: BOOLEAN, timers: Nat,
   clicks: 0 .. MaxClicks, holds: BOOLEAN]

ShareInv ==
  /\ share \in ShareRecords
  /\ share.timers + (IF share.answer = "none" THEN 0 ELSE 1) <= share.clicks
  /\ ShareSettles

LEMMA ShareStep == ShareInv /\ [ShareNext]_share => ShareInv'
<1> SUFFICES ASSUME ShareInv, [ShareNext]_share PROVE ShareInv'
  OBVIOUS
<1> USE ReaderConstants
<1>0. /\ share \in ShareRecords /\ share.timers \in Nat /\ share.clicks \in Nat
      /\ (share.answer # "none" => share.timers + 1 <= share.clicks) /\ share.timers <= share.clicks
  BY DEF ShareInv, ShareRecords
<1>1. CASE ToggleMenu
  <2> DEFINE open == ~share.open
  <2>1. share' = [share EXCEPT !.open = open] /\ open \in BOOLEAN
    BY <1>1 DEF ToggleMenu
  <2> HIDE DEF open
  <2> QED
    BY <2>1 DEF ShareInv, ShareSettles, ShareRecords
<1>2. ASSUME NEW p \in Platforms, ChooseShare(p) PROVE ShareInv'
  <2>1. /\ share' = [share EXCEPT !.open = FALSE, !.loading = p, !.answer = "awaited",
                       !.clicks = share.clicks + 1]
        /\ share.loading = "none" /\ share.clicks < MaxClicks
    BY <1>2 DEF ChooseShare
  <2>2. share.clicks + 1 \in 0 .. MaxClicks /\ p # "none" /\ share.answer = "none"
    <3>1. p # "none"
      BY DEF Platforms
    <3>2. share.answer = "none"
      BY <2>1 DEF ShareInv, ShareSettles
    <3>3. share.clicks + 1 \in 0 .. MaxClicks
      BY <2>1 DEF ShareInv, ShareRecords
    <3> QED
      BY <3>1, <3>2, <3>3
  <2>3. /\ share' \in ShareRecords /\ share'.loading = p /\ share'.answer = "awaited"
        /\ share'.clicks = share.clicks + 1 /\ share'.timers = share.timers
        /\ share'.copied = share.copied /\ share'.holds = share.holds
    BY <2>1, <2>2 DEF ShareInv, ShareRecords
  <2>4. share.timers <= share.clicks /\ share.timers \in Nat /\ share.clicks \in Nat
    BY <2>2 DEF ShareInv, ShareRecords
  <2> QED
    BY <2>2, <2>3, <2>4 DEF ShareInv, ShareSettles
<1>3. CASE FetchShareUrl
  <2>1. PICK a \in {"address", "failed"} : share' = [share EXCEPT !.answer = a] /\ share.answer = "awaited"
    BY <1>3 DEF FetchShareUrl
  <2>2. /\ share' \in ShareRecords /\ share'.loading = share.loading /\ share'.answer = a
        /\ share'.clicks = share.clicks /\ share'.timers = share.timers
        /\ share'.copied = share.copied /\ share'.holds = share.holds
    BY <2>1, <1>0 DEF ShareRecords
  <2> QED
    BY <2>1, <2>2 DEF ShareInv, ShareSettles
<1>4. CASE FinishShare
  <2>0. share.answer \in {"address", "failed"}
    BY <1>4 DEF FinishShare
  <2>1. CASE share' = Ended(share)
    <3>1. share' = [share EXCEPT !.loading = "none", !.open = FALSE, !.answer = "none"]
      BY <2>1 DEF Ended
    <3>2. /\ share' \in ShareRecords /\ share'.loading = "none" /\ share'.answer = "none"
          /\ share'.clicks = share.clicks /\ share'.timers = share.timers
          /\ share'.copied = share.copied /\ share'.holds = share.holds
      BY <3>1, <1>0 DEF ShareRecords
    <3> QED
      BY <3>2, <1>0 DEF ShareInv, ShareSettles
  <2>2. CASE share' = [Ended(share) EXCEPT !.copied = TRUE, !.holds = TRUE, !.timers = @ + 1]
    <3>1. share' = [share EXCEPT !.loading = "none", !.open = FALSE, !.answer = "none",
                      !.copied = TRUE, !.holds = TRUE, !.timers = share.timers + 1]
      BY <2>2, <1>0 DEF Ended, ShareRecords
    <3>2. share.timers + 1 \in Nat /\ share.timers + 1 > 0
      BY <1>0
    <3>3. /\ share' \in ShareRecords /\ share'.loading = "none" /\ share'.answer = "none"
          /\ share'.clicks = share.clicks /\ share'.timers = share.timers + 1
          /\ share'.copied = TRUE /\ share'.holds = TRUE
      BY <3>1, <3>2, <1>0 DEF ShareRecords
    <3> QED
      BY <2>0, <3>2, <3>3, <1>0 DEF ShareInv, ShareSettles
  <2> QED
    BY <2>1, <2>2, <1>4 DEF FinishShare
<1>5. CASE CopiedTimer
  <2>1. share' = [share EXCEPT !.timers = share.timers - 1, !.copied = FALSE] /\ share.timers > 0
    BY <1>5 DEF CopiedTimer
  <2>2. share.timers - 1 \in Nat
    BY <2>1, <1>0
  <2>3. /\ share' \in ShareRecords /\ share'.loading = share.loading /\ share'.answer = share.answer
        /\ share'.clicks = share.clicks /\ share'.timers = share.timers - 1 /\ share'.copied = FALSE
    BY <2>1, <2>2, <1>0 DEF ShareRecords
  <2> QED
    BY <2>2, <2>3, <1>0 DEF ShareInv, ShareSettles
<1>6. CASE share' = share
  BY <1>6 DEF ShareInv, ShareSettles
<1> QED
  BY <1>1, <1>2, <1>3, <1>4, <1>5, <1>6 DEF ShareNext

(* The newsletter form, and the pages behind its links. *)

FormRecords ==
  [typed: Addresses, shows: {"idle", "loading", "success", "error"},
   answer: {"none", "awaited", "200", "400", "429", "500", "lost"}, accepted: BOOLEAN,
   sends: Nat, failed: BOOLEAN]

FormInv ==
  /\ form \in FormRecords
  /\ form.shows = "loading" <=> form.answer # "none"
  /\ form.answer = "200" => form.accepted
  /\ form.answer \in {"awaited", "400", "429"} => ~form.accepted
  /\ form.answer \in {"500", "lost"} => form.failed
  /\ form.shows = "success" => form.accepted
  /\ form.shows = "error" /\ form.accepted => form.failed

LEMMA FormStep == FormInv /\ [FormNext]_form => FormInv'
<1> SUFFICES ASSUME FormInv, [FormNext]_form PROVE FormInv'
  OBVIOUS
<1>1. ASSUME NEW a \in Addresses, TypeAddress(a) PROVE FormInv'
  BY <1>1 DEF TypeAddress, FormInv, FormRecords
<1>2. CASE Submit
  <2>1. CASE form' = [form EXCEPT !.shows = "error", !.accepted = FALSE]
    BY <2>1, <1>2 DEF Submit, FormInv, FormRecords
  <2>2. CASE form' = [form EXCEPT !.shows = "loading", !.answer = "awaited", !.sends = @ + 1,
                     !.accepted = FALSE, !.failed = FALSE]
    <3>1. form.sends + 1 \in Nat
      BY DEF FormInv, FormRecords
    <3>2. /\ form' \in FormRecords /\ form'.shows = "loading" /\ form'.answer = "awaited"
          /\ form'.accepted = FALSE
      BY <2>2, <3>1 DEF FormInv, FormRecords
    <3> QED
      BY <3>2 DEF FormInv
  <2> QED
    BY <2>1, <2>2, <1>2 DEF Submit
<1>3. CASE ServeSubscribe
  BY <1>3 DEF ServeSubscribe, FormInv, FormRecords
<1>4. CASE LoseSubscribe
  BY <1>4 DEF LoseSubscribe, FormInv, FormRecords
<1>5. CASE TakeSubscribe
  BY <1>5 DEF TakeSubscribe, FormInv, FormRecords, Addresses
<1>6. CASE Another
  BY <1>6 DEF Another, FormInv, FormRecords
<1>7. CASE form' = form
  BY <1>7 DEF FormInv
<1> QED
  BY <1>1, <1>2, <1>3, <1>4, <1>5, <1>6, <1>7 DEF FormNext

LetterRecords ==
  [kind: {"confirm", "unsubscribe"}, token: BOOLEAN,
   person: {"pending", "expired", "confirmed", "deleted", "unsubscribed"}, opened: Nat \ {0},
   failed: BOOLEAN, shows: {"loading", "success", "already", "error"},
   answer: {"none", "awaited", "done", "already", "refused"}]

LetterInv ==
  /\ letter \in LetterRecords
  /\ letter.answer # "none" => letter.shows = "loading"
  /\ letter.answer \in {"done", "already"} => letter.person = Goal(letter.kind)
  /\ letter.shows \in {"success", "already"} => letter.person = Goal(letter.kind)
  /\ letter.answer \in {"awaited", "refused"} \/ letter.shows = "error" =>
       letter.person # Goal(letter.kind) \/ letter.failed \/ letter.opened > 1

LEMMA LetterStep == LetterInv /\ [LetterNext]_letter => LetterInv'
<1> SUFFICES ASSUME LetterInv, [LetterNext]_letter PROVE LetterInv'
  OBVIOUS
<1> USE DEF Goal
<1>1. CASE ServeLetter
  <2>0. letter.answer = "awaited" /\ letter \in LetterRecords
    BY <1>1 DEF ServeLetter, LetterInv
  <2>1. CASE letter' = [letter EXCEPT !.person = Goal(letter.kind), !.answer = "done"]
    <3>1. /\ letter' \in LetterRecords /\ letter'.person = Goal(letter'.kind) /\ letter'.answer = "done"
          /\ letter'.shows = letter.shows /\ letter'.kind = letter.kind
          /\ letter'.failed = letter.failed /\ letter'.opened = letter.opened
      BY <2>0, <2>1 DEF LetterRecords
    <3> QED
      BY <3>1, <2>0 DEF LetterInv
  <2>3. CASE /\ letter' = [letter EXCEPT !.answer = "already"]
             /\ letter.kind = "unsubscribe" /\ letter.person = "unsubscribed"
    <3>1. /\ letter' \in LetterRecords /\ letter'.person = letter.person /\ letter'.answer = "already"
          /\ letter'.shows = letter.shows /\ letter'.kind = letter.kind
          /\ letter'.failed = letter.failed /\ letter'.opened = letter.opened
      BY <2>0, <2>3 DEF LetterRecords
    <3> QED
      BY <3>1, <2>0, <2>3 DEF LetterInv
  <2>4. CASE letter' = [letter EXCEPT !.answer = "refused"]
    <3>1. /\ letter' \in LetterRecords /\ letter'.person = letter.person /\ letter'.answer = "refused"
          /\ letter'.shows = letter.shows /\ letter'.kind = letter.kind
          /\ letter'.failed = letter.failed /\ letter'.opened = letter.opened
      BY <2>0, <2>4 DEF LetterRecords
    <3> QED
      BY <3>1, <2>0 DEF LetterInv
  <2> QED
    BY <2>1, <2>3, <2>4, <1>1 DEF ServeLetter
<1>2. CASE LoseLetter
  BY <1>2 DEF LoseLetter, LetterInv, LetterRecords
<1>3. CASE TakeLetter
  BY <1>3 DEF TakeLetter, LetterInv, LetterRecords
<1>4. CASE OpenAgain
  <2>1. letter.opened + 1 \in Nat \ {0} /\ letter.opened + 1 > 1
    BY DEF LetterInv, LetterRecords
  <2>2. /\ letter' \in LetterRecords /\ letter'.person = letter.person /\ letter'.answer = "awaited"
        /\ letter'.shows = "loading" /\ letter'.kind = letter.kind
        /\ letter'.opened = letter.opened + 1
    BY <2>1, <1>4 DEF OpenAgain, LetterInv, LetterRecords
  <2> QED
    BY <2>1, <2>2 DEF LetterInv
<1>5. CASE letter' = letter
  BY <1>5 DEF LetterInv
<1> QED
  BY <1>1, <1>2, <1>3, <1>4, <1>5 DEF LetterNext

(* The reader's browser. *)

ReaderInv ==
  /\ widget \in Widgets
  /\ VisitInv /\ SpeechInv /\ ShareInv /\ FormInv /\ LetterInv

LEMMA ReaderBegins == ReaderInit => ReaderInv
<1> SUFFICES ASSUME ReaderInit PROVE ReaderInv
  OBVIOUS
<1> USE ReaderConstants
<1>1. VisitInv
  BY VisitBegins DEF ReaderInit
<1>2. SpeechInv
  <2>1. PICK loaded \in BOOLEAN :
    speech = [here |-> TRUE, ui |-> "stopped", loaded |-> loaded, voice |-> IF loaded THEN "one" ELSE "",
              current |-> 0, paused |-> FALSE, events |-> <<>>, spoken |-> 0,
              crossed |-> FALSE, muffled |-> FALSE]
    BY DEF ReaderInit, SpeechInit
  <2> DEFINE voice == IF loaded THEN "one" ELSE ""
  <2>2. 0 \in 0 .. MaxClicks /\ voice \in {"", "one", "two"} /\ <<>> \in EventLists
    BY EventFacts
  <2>3. speech = [here |-> TRUE, ui |-> "stopped", loaded |-> loaded, voice |-> voice,
              current |-> 0, paused |-> FALSE, events |-> <<>>, spoken |-> 0,
              crossed |-> FALSE, muffled |-> FALSE]
    BY <2>1
  <2> HIDE DEF voice
  <2>4. /\ speech \in SpeechRecords /\ speech.here = TRUE /\ speech.ui = "stopped"
        /\ speech.current = 0
    BY <2>2, <2>3 DEF SpeechRecords
  <2> QED
    BY <2>4 DEF SpeechInv, SpeechShown
<1>3. ShareInv
  BY DEF ReaderInit, ShareInit, ShareInv, ShareSettles, ShareRecords
<1>4. FormInv
  BY DEF ReaderInit, FormInit, FormInv, FormRecords, Addresses
<1>5. LetterInv
  BY DEF ReaderInit, LetterInit, LetterInv, LetterRecords, Goal
<1> QED
  BY <1>1, <1>2, <1>3, <1>4, <1>5 DEF ReaderInit, ReaderInv

LEMMA ReaderStep == ReaderInv /\ [ReaderNext]_readerVars => ReaderInv'
<1> SUFFICES ASSUME ReaderInv, [ReaderNext]_readerVars PROVE ReaderInv'
  OBVIOUS
<1>1. /\ widget' = widget
      /\ [VisitNext]_visit /\ [SpeechNext]_speech /\ [ShareNext]_share /\ [FormNext]_form
      /\ [LetterNext]_letter
  BY DEF ReaderNext, readerVars
<1> QED
  BY <1>1, VisitStep, SpeechStep, ShareStep, FormStep, LetterStep DEF ReaderInv

LEMMA ReaderTold == ReaderInv => ReaderHonest
<1> SUFFICES ASSUME ReaderInv PROVE ReaderHonest
  OBVIOUS
<1>1. VisitTold
  BY DEF ReaderInv, VisitInv, Measured, VisitTold
<1>2. SpeechShown /\ ShareSettles
  BY DEF ReaderInv, SpeechInv, ShareInv
<1>3. AnswersTrue
  BY DEF ReaderInv, FormInv, LetterInv, AnswersTrue
<1>4. visit.total \in 0 .. MaxHalves /\ visit.depth \in 0 .. Bottom /\ visit.piece \in Pieces
  BY ReaderConstants DEF ReaderInv, VisitInv, Measured, VisitRecords
<1>5. share.timers \in 0 .. MaxClicks
  BY ReaderConstants DEF ReaderInv, ShareInv, ShareRecords
<1>6. ReaderTypeOK
  BY <1>4, <1>5 DEF ReaderInv, SpeechInv, SpeechRecords, ShareInv, ShareRecords, FormInv, FormRecords,
                    LetterInv, LetterRecords, ReaderTypeOK
<1> QED
  BY <1>1, <1>2, <1>3, <1>6 DEF ReaderHonest

(***************************************************************************)
(* What a reader's browser tells is true: a beacon the time its piece was   *)
(* on the screen, the buttons of the voice what is spoken, the share menu   *)
(* what is copied, the form and the newsletter's pages what happened at     *)
(* the server (hooks/useEngagementTracking.ts, components/reader,           *)
(* app/newsletter), for visits, pages and presses of any number.            *)
(***************************************************************************)
THEOREM ReaderTheorem == ReaderSpec => []ReaderHonest
BY ReaderBegins, ReaderStep, ReaderTold, PTL DEF ReaderSpec
-----------------------------------------------------------------------------
(* Lists that lose an entry or get one.                                   *)

\* A list without its i-th entry: the others, each once.
Skip(i, k) == IF k < i THEN k ELSE k + 1

LEMMA DroppedFacts ==
  ASSUME NEW S, NEW s \in Seq(S), NEW i \in DOMAIN s
  PROVE  LET w == Dropped(s, i) IN
         /\ w \in Seq(S)
         /\ \A k \in DOMAIN w : Skip(i, k) \in DOMAIN s /\ Skip(i, k) # i /\ w[k] = s[Skip(i, k)]
         /\ \A k, l \in DOMAIN w : Skip(i, k) = Skip(i, l) => k = l
         /\ \A m \in DOMAIN s : m # i => \E k \in DOMAIN w : Skip(i, k) = m
<1> DEFINE a == SubSeq(s, 1, i - 1)
           b == SubSeq(s, i + 1, Len(s))
           w == Dropped(s, i)
           n == Len(s)
<1>1. n \in Nat /\ DOMAIN s = 1 .. n /\ i \in 1 .. n /\ \A k \in 1 .. n : s[k] \in S
  OBVIOUS
<1>2. a \in Seq(S) /\ Len(a) = i - 1 /\ \A k \in 1 .. i - 1 : a[k] = s[k]
  BY <1>1, SubSeqProperties
<1>3. b \in Seq(S) /\ Len(b) = n - i /\ \A k \in 1 .. n - i : b[k] = s[i + k]
  <2>1. i + 1 \in Int /\ n \in Int /\ \A k \in i + 1 .. n : s[k] \in S
    BY <1>1
  <2>2. /\ b \in Seq(S) /\ Len(b) = (IF i + 1 <= n THEN n - (i + 1) + 1 ELSE 0)
        /\ \A k \in 1 .. n - (i + 1) + 1 : b[k] = s[(i + 1) + k - 1]
    BY <2>1, SubSeqProperties
  <2> HIDE DEF b, n
  <2>3. Len(b) = n - i /\ n - (i + 1) + 1 = n - i
    BY <1>1, <2>2
  <2>4. ASSUME NEW k \in 1 .. n - i PROVE b[k] = s[i + k]
    <3>1. (i + 1) + k - 1 = i + k
      BY <1>1
    <3> QED
      BY <2>2, <2>3, <3>1
  <2> QED
    BY <2>2, <2>3, <2>4
<1>4. w = a \o b
  BY DEF Dropped
<1> HIDE DEF a, b, w, n
<1>5. /\ w \in Seq(S) /\ DOMAIN w = 1 .. n - 1
      /\ \A k \in 1 .. n - 1 : w[k] = IF k < i THEN s[k] ELSE s[k + 1]
  <2>0. /\ w \in Seq(S) /\ Len(w) = Len(a) + Len(b)
        /\ \A k \in 1 .. Len(a) + Len(b) : w[k] = IF k <= Len(a) THEN a[k] ELSE b[k - Len(a)]
    BY <1>2, <1>3, <1>4, ConcatProperties
  <2>1. w \in Seq(S) /\ Len(w) = n - 1 /\ DOMAIN w = 1 .. Len(w)
    BY <1>1, <1>2, <1>3, <2>0
  <2>2. \A k \in 1 .. n - 1 : w[k] = IF k < i THEN a[k] ELSE b[k - (i - 1)]
    BY <1>1, <1>2, <1>3, <2>0, SMTT(30)
  <2>3. \A k \in 1 .. n - 1 : k < i => w[k] = s[k]
    BY <1>1, <1>2, <2>2
  <2>4. \A k \in 1 .. n - 1 : ~(k < i) => w[k] = s[k + 1]
    <3> SUFFICES ASSUME NEW k \in 1 .. n - 1, ~(k < i) PROVE w[k] = s[k + 1]
      OBVIOUS
    <3>1. k - (i - 1) \in 1 .. n - i /\ i + (k - (i - 1)) = k + 1
      BY <1>1
    <3> QED
      BY <1>3, <2>2, <3>1
  <2> QED
    BY <2>1, <2>3, <2>4
<1>6. \A k \in 1 .. n - 1 : Skip(i, k) \in 1 .. n /\ Skip(i, k) # i
  BY <1>1 DEF Skip
<1>7. \A k, l \in 1 .. n - 1 : Skip(i, k) = Skip(i, l) => k = l
  BY <1>1 DEF Skip
<1>8. \A m \in 1 .. n : m # i => \E k \in 1 .. n - 1 : Skip(i, k) = m
  <2> SUFFICES ASSUME NEW m \in 1 .. n, m # i PROVE \E k \in 1 .. n - 1 : Skip(i, k) = m
    OBVIOUS
  <2>1. CASE m < i
    <3>1. m \in 1 .. n - 1 /\ Skip(i, m) = m
      BY <1>1, <2>1 DEF Skip
    <3> QED
      BY <3>1
  <2>2. CASE ~(m < i)
    <3>1. m - 1 \in 1 .. n - 1 /\ Skip(i, m - 1) = m
      BY <1>1, <2>2 DEF Skip
    <3> QED
      BY <3>1
  <2> QED
    BY <2>1, <2>2
<1> QED
  BY <1>1, <1>5, <1>6, <1>7, <1>8 DEF w, Skip

\* One more entry at the end of a list.
LEMMA AppendedFacts ==
  ASSUME NEW S, NEW s \in Seq(S), NEW c \in S
  PROVE  LET w == Append(s, c)
             n == Len(s) + 1 IN
         /\ w \in Seq(S) /\ n \notin DOMAIN s /\ DOMAIN w = DOMAIN s \cup {n}
         /\ w[n] = c /\ (\A i \in DOMAIN s : w[i] = s[i]) /\ n \in Nat /\ \A i \in DOMAIN s : i \in Nat /\ i < n
<1> DEFINE w == Append(s, c)
           m == Len(s)
<1>1. /\ w \in Seq(S) /\ m \in Nat /\ DOMAIN s = 1 .. m /\ DOMAIN w = 1 .. m + 1
      /\ \A i \in 1 .. m + 1 : w[i] = IF i = m + 1 THEN c ELSE s[i]
  OBVIOUS
<1> HIDE DEF w, m
<1>2. 1 .. m + 1 = (1 .. m) \cup {m + 1} /\ m + 1 \notin 1 .. m /\ \A i \in 1 .. m : i \in Nat /\ i < m + 1
  BY <1>1
<1> QED
  BY <1>1, <1>2 DEF w, m

-----------------------------------------------------------------------------
(* EditPage: the page that edits an item.                                  *)

ItemStatus == {"draft", "scheduled", "published", "gone"}
Instants == 0 .. MaxClock
Jobs == [of: {"this", "other"}, at: Instants, state: {"queued", "over", "retry"}, next: Nat]
Rows == [status: ItemStatus, at: Instants, text: Nat]
Sheets == [shown: {"loading", "ready", "left"}, status: ItemStatus, at: Instants, text: Nat,
           saving: BOOLEAN]
\* What a handler has still to send.
Rests(h) ==
  CASE h = "load" -> {<<>>, <<"fetch">>}
    [] h \in {"save", "enter"} -> {<<>>, <<"save">>}
    [] h = "delete" -> {<<>>, <<"delete">>}
    [] h = "publish" -> {<<>>, <<"fetch">>, <<"now", "fetch">>, <<"save", "now", "fetch">>}
    [] h = "schedule" -> {<<>>, <<"fetch">>, <<"transition", "fetch">>,
                          <<"job", "transition", "fetch">>, <<"save", "job", "transition", "fetch">>}
    [] OTHER -> {<<>>, <<"fetch">>, <<"transition", "fetch">>}
RestLists == UNION {Rests(h) : h \in Handlers}
RunRecords == [left: RestLists, answer: {"waiting", "ok", "error"}, text: Nat, at: Instants,
               got: Rows]

EditTypes ==
  /\ time \in Instants /\ row \in Rows /\ queue \in Seq(Jobs) /\ page \in Sheets
  /\ runs \in [Handlers -> RunRecords] /\ \A h \in Handlers : runs[h].left \in Rests(h)
  /\ typed \in Nat /\ presses \in Nat /\ failures \in Nat
  /\ mingled \in BOOLEAN /\ behind \in BOOLEAN

\* A job for the item at that time, run or not.
JobAt(at) == \E i \in DOMAIN queue : queue[i].of = "this" /\ queue[i].at = at

\* The step a handler is at, and what it has been answered.
At(h, step) == Running(h) /\ Head(runs[h].left) = step

\* No job is run before its time; a schedule that comes to its transition has its job.
QueueInv ==
  /\ \A i \in DOMAIN queue : queue[i].state # "queued" => queue[i].at <= time
  /\ \A h \in Handlers :
       (h = "schedule" /\ (At(h, "transition") \/ (At(h, "job") /\ runs[h].answer = "ok")))
         => JobAt(runs[h].at)

Apart == ~mingled => \A g, h \in Handlers : Running(g) /\ Running(h) => g = h

Agrees(v) == v.status = row.status /\ v.at = row.at

\* Where nothing has changed the item since it was fetched.
Untouched(h) ==
  \/ At(h, "save") \/ At(h, "job")
  \/ \E step \in {"transition", "delete", "now"} : At(h, step) /\ runs[h].answer # "ok"

ShownInv ==
  ~mingled /\ ~behind /\ failures = 0 =>
    /\ (page.shown = "ready" /\ \A h \in Handlers : Idle(h) \/ Untouched(h)) => Agrees(page)
    /\ \A h \in Handlers : (At(h, "fetch") /\ runs[h].answer = "ok") => Agrees(runs[h].got)

\* The text a publication was pressed with is the item's when publish_now is sent.
TextInv ==
  ~mingled /\ (At("publish", "now") \/ (At("publish", "save") /\ runs["publish"].answer = "ok"))
    => row.text = runs["publish"].text

EditInv == EditTypes /\ QueueInv /\ ScheduledHasJob /\ Apart /\ ShownInv /\ TextInv

LEMMA EditConstants == MaxClock \in Nat /\ MaxTyped \in Nat /\ MaxPresses \in Nat /\ MaxFailures \in Nat
BY EditAssumption

\* Where the steps of a handler lead.
LEMMA Advance ==
  ASSUME NEW h \in Handlers, NEW left \in Rests(h), left # <<>>
  PROVE  /\ Tail(left) \in Rests(h)
         /\ Head(left) \in {"save", "job", "transition", "now", "fetch", "delete"}
         /\ Head(left) = "save" /\ Tail(left) # <<>> =>
              \/ h = "publish" /\ Head(Tail(left)) = "now"
              \/ h = "schedule" /\ Head(Tail(left)) = "job"
         /\ Head(left) = "job" => h = "schedule" /\ Tail(left) # <<>> /\ Head(Tail(left)) = "transition"
         /\ Head(left) = "transition" =>
              h \in {"schedule", "unschedule", "unpublish"} /\ Tail(left) # <<>> /\ Head(Tail(left)) = "fetch"
         /\ Head(left) = "now" => h = "publish" /\ Tail(left) # <<>> /\ Head(Tail(left)) = "fetch"
         /\ Head(left) \in {"fetch", "delete"} => Tail(left) = <<>>
         /\ Head(left) = "delete" => h = "delete"
<1>1. /\ Head(<<"fetch">>) = "fetch" /\ Tail(<<"fetch">>) = <<>>
      /\ Head(<<"save">>) = "save" /\ Tail(<<"save">>) = <<>>
      /\ Head(<<"delete">>) = "delete" /\ Tail(<<"delete">>) = <<>>
  OBVIOUS
<1>2. /\ Head(<<"now", "fetch">>) = "now" /\ Tail(<<"now", "fetch">>) = <<"fetch">>
      /\ Head(<<"transition", "fetch">>) = "transition" /\ Tail(<<"transition", "fetch">>) = <<"fetch">>
  OBVIOUS
<1>3. Head(<<"save", "now", "fetch">>) = "save" /\ Tail(<<"save", "now", "fetch">>) = <<"now", "fetch">>
  OBVIOUS
<1>4. /\ Head(<<"job", "transition", "fetch">>) = "job"
      /\ Tail(<<"job", "transition", "fetch">>) = <<"transition", "fetch">>
  OBVIOUS
<1>5. /\ Head(<<"save", "job", "transition", "fetch">>) = "save"
      /\ Tail(<<"save", "job", "transition", "fetch">>) = <<"job", "transition", "fetch">>
  OBVIOUS
<1>6. /\ <<"fetch">> # <<>> /\ <<"now", "fetch">> # <<>> /\ <<"transition", "fetch">> # <<>>
      /\ <<"job", "transition", "fetch">> # <<>>
  OBVIOUS
<1> QED
  BY <1>1, <1>2, <1>3, <1>4, <1>5, <1>6, Zenon DEF Rests, Handlers

LEMMA JustBegun ==
  ASSUME NEW h \in Handlers
  PROVE  /\ Steps(h) \in Rests(h) /\ Steps(h) # <<>> /\ <<>> \in Rests(h)
         /\ Head(Steps(h)) = IF h = "load" THEN "fetch" ELSE IF h = "delete" THEN "delete"
                             ELSE IF h \in {"unschedule", "unpublish"} THEN "transition" ELSE "save"
BY DEF Steps, Rests, Handlers

\* An answer leaves what a handler has to send.
LEMMA Replied ==
  ASSUME EditTypes, NEW h \in Handlers, NEW ok \in BOOLEAN, ReplyTo(h, ok)
  PROVE  /\ runs' \in [Handlers -> RunRecords]
         /\ \A g \in Handlers : /\ runs'[g].left = runs[g].left /\ runs'[g].text = runs[g].text
                                /\ runs'[g].at = runs[g].at /\ runs'[g].got = runs[g].got
                                /\ g # h => runs'[g] = runs[g]
         /\ runs'[h].answer = IF ok THEN "ok" ELSE "error"
<1> DEFINE a == IF ok THEN "ok" ELSE "error"
<1>1. a \in {"ok", "error"} /\ runs' = [runs EXCEPT ![h].answer = a] /\ runs \in [Handlers -> RunRecords]
  BY DEF ReplyTo, EditTypes
<1> HIDE DEF a
<1>2. runs' = [runs EXCEPT ![h] = [runs[h] EXCEPT !.answer = a]] /\ runs[h] \in RunRecords
  BY <1>1
<1> DEFINE r == [runs[h] EXCEPT !.answer = a]
<1>3. /\ r \in RunRecords /\ r.answer = a /\ r.left = runs[h].left /\ r.text = runs[h].text
      /\ r.at = runs[h].at /\ r.got = runs[h].got
  BY <1>1, <1>2 DEF RunRecords
<1> HIDE DEF r
<1>4. runs' = [runs EXCEPT ![h] = r]
  BY <1>2 DEF r
<1>5. \A g \in Handlers : runs'[g] = IF g = h THEN r ELSE runs[g]
  BY <1>1, <1>4
<1>6. runs' \in [Handlers -> RunRecords]
  BY <1>1, <1>3, <1>4
<1> QED
  BY <1>3, <1>5, <1>6 DEF a

\* The steps the handlers are at are the same.
LEMMA SameSteps ==
  ASSUME EditTypes, NEW h \in Handlers, NEW ok \in BOOLEAN, ReplyTo(h, ok)
  PROVE  \A g \in Handlers : /\ Running(g)' <=> Running(g)
                             /\ \A step : At(g, step)' <=> At(g, step)
BY Replied DEF Running, At

LEMMA RunTypes ==
  ASSUME EditTypes, NEW h \in Handlers
  PROVE  /\ runs[h] \in RunRecords /\ runs[h].left \in Rests(h)
         /\ runs[h].answer \in {"waiting", "ok", "error"} /\ runs[h].text \in Nat
         /\ runs[h].at \in Instants /\ runs[h].got \in Rows
BY DEF EditTypes, RunRecords

\* What a worker does to a table with queued jobs: at most one due job is run.
LEMMA WorkerActs ==
  ASSUME NEW q \in Seq(Jobs), time \in Instants, row \in Rows, ClaimAndExecute(q)
  PROVE  /\ queue' \in Seq(Jobs) /\ DOMAIN queue' = DOMAIN q /\ row' \in Rows
         /\ \A i \in DOMAIN q :
              /\ queue'[i].of = q[i].of /\ queue'[i].at = q[i].at
              /\ queue'[i].state # "queued" => q[i].state # "queued" \/ q[i].at <= time
              /\ queue'[i].state # "queued" /\ q[i].state = "queued" /\ q[i].of = "this"
                   => row'.status # "scheduled"
         /\ row'.at = row.at /\ row'.text = row.text
         /\ row'.status # row.status => row'.status = "published"
<1> DEFINE first == FirstDue(q)
<1>c. MaxClock \in Nat
  BY EditConstants
<1>1. CASE \A i \in first : q[i].state = "retry"
  BY <1>1 DEF ClaimAndExecute
<1>2. CASE ~(\A i \in first : q[i].state = "retry")
  <2> DEFINE i == CHOOSE k \in first : TRUE
  <2>1. i \in first
    BY <1>2
  <2>2. i \in DOMAIN q /\ IsDue(q[i]) /\ q[i] \in Jobs
    BY <2>1 DEF FirstDue
  <2>3. PICK ok \in (IF q[i].of = "this" THEN {row.status # "gone"} ELSE BOOLEAN) :
          /\ queue' = IF ok THEN [q EXCEPT ![i].state = "over"]
                      ELSE [q EXCEPT ![i].state = "retry", ![i].next = time + 1]
          /\ row' = IF ok /\ q[i].of = "this" THEN [row EXCEPT !.status = "published"] ELSE row
    BY <1>2 DEF ClaimAndExecute
  <2> HIDE DEF i
  <2>4. ok \in BOOLEAN /\ (q[i].of = "this" => (ok <=> row.status # "gone"))
    BY <2>3
  <2> DEFINE j == IF ok THEN [q[i] EXCEPT !.state = "over"]
                  ELSE [q[i] EXCEPT !.state = "retry", !.next = time + 1]
  <2>5. j \in Jobs /\ j.of = q[i].of /\ j.at = q[i].at
    <3>1. time + 1 \in Nat
      BY <1>c DEF Instants
    <3> QED
      BY <2>2, <3>1 DEF Jobs
  <2>6. queue' = [q EXCEPT ![i] = j]
    BY <2>3
  <2> HIDE DEF j
  <2>7. /\ queue' \in Seq(Jobs) /\ DOMAIN queue' = DOMAIN q
        /\ \A k \in DOMAIN q : queue'[k] = IF k = i THEN j ELSE q[k]
    BY <2>2, <2>5, <2>6
  <2>8. q[i].state = "queued" => q[i].at <= time
    BY <2>2 DEF IsDue
  <2>9. /\ row' \in Rows /\ row'.at = row.at /\ row'.text = row.text
        /\ row'.status = IF ok /\ q[i].of = "this" THEN "published" ELSE row.status
    BY <2>3 DEF Rows, ItemStatus
  <2>10. q[i].of = "this" => row'.status # "scheduled"
    BY <2>4, <2>9
  <2> QED
    BY <2>5, <2>7, <2>8, <2>9, <2>10
<1> QED
  BY <1>1, <1>2

\* What the invariant says of the handlers, when only their answers change.
LEMMA KeptApart ==
  ASSUME EditInv, UNCHANGED mingled, \A g \in Handlers : Running(g)' => Running(g)
  PROVE  Apart'
BY DEF EditInv, Apart

LEMMA Alone ==
  ASSUME EditInv, NEW h \in Handlers, Running(h), ~mingled
  PROVE  \A g \in Handlers : Running(g) => g = h
BY DEF EditInv, Apart

\* The page and its clock: no handler moves.
LEMMA QuietKeeps ==
  ASSUME EditInv, EditTypes', UNCHANGED <<row, queue, runs, mingled, behind>>, failures' = failures,
         time' >= time, page'.shown = "ready" => page.shown = "ready",
         page'.status = page.status, page'.at = page.at
  PROVE  EditInv'
<1>1. \A h \in Handlers, step \in {"save", "job", "transition", "now", "fetch", "delete"} : At(h, step)' <=> At(h, step)
  BY DEF At, Running
<1>2. QueueInv'
  <2>1. \A i \in DOMAIN queue : queue[i].at \in Nat
    <3>1. \A i \in DOMAIN queue : queue[i] \in Jobs
      BY DEF EditInv, EditTypes
    <3> QED
      BY <3>1, EditConstants DEF Jobs, Instants
  <2>2. time \in Nat /\ time' \in Nat
    BY EditConstants DEF EditInv, EditTypes, Instants
  <2>3. \A i \in DOMAIN queue' : queue'[i].state # "queued" => queue'[i].at <= time'
    BY <2>1, <2>2 DEF EditInv, QueueInv
  <2> QED
    BY <1>1, <2>3 DEF EditInv, QueueInv, JobAt
<1>3. ScheduledHasJob'
  BY DEF EditInv, ScheduledHasJob
<1>4. Apart'
  BY DEF EditInv, Apart, Running
<1>5. ShownInv'
  BY <1>1 DEF EditInv, ShownInv, Idle, Running, Untouched, Agrees
<1>6. TextInv'
  BY <1>1, EditConstants DEF EditInv, TextInv, Handlers
<1> QED
  BY <1>2, <1>3, <1>4, <1>5, <1>6 DEF EditInv

LEMMA TypeTextKeeps == EditInv /\ TypeText => EditInv'
<1> SUFFICES ASSUME EditInv, TypeText PROVE EditInv'
  OBVIOUS
<1>1. typed + 1 \in Nat /\ page \in Sheets /\ page' = [page EXCEPT !.text = typed + 1]
  BY DEF EditInv, EditTypes, TypeText
<1>2. /\ page' \in Sheets /\ page'.shown = page.shown /\ page'.status = page.status
      /\ page'.at = page.at
  BY <1>1 DEF Sheets
<1>3. EditTypes'
  BY <1>1, <1>2 DEF EditInv, EditTypes, TypeText
<1>4. time \in Int
  BY EditConstants DEF EditInv, EditTypes, Instants
<1> QED
  BY <1>2, <1>3, <1>4, QuietKeeps DEF TypeText

LEMMA LeavePageKeeps == EditInv /\ LeavePage => EditInv'
<1> SUFFICES ASSUME EditInv, LeavePage PROVE EditInv'
  OBVIOUS
<1>1. page \in Sheets /\ page' = [page EXCEPT !.shown = "left"]
  BY DEF EditInv, EditTypes, LeavePage
<1>2. /\ page' \in Sheets /\ page'.shown = "left" /\ page'.status = page.status
      /\ page'.at = page.at
  BY <1>1 DEF Sheets
<1>3. EditTypes'
  BY <1>1, <1>2 DEF EditInv, EditTypes, LeavePage
<1>4. time \in Int
  BY EditConstants DEF EditInv, EditTypes, Instants
<1> QED
  BY <1>2, <1>3, <1>4, QuietKeeps DEF LeavePage

LEMMA PassTickKeeps == EditInv /\ PassTick => EditInv'
<1> SUFFICES ASSUME EditInv, PassTick PROVE EditInv'
  OBVIOUS
<1>1. time' \in Instants /\ time' >= time
  BY EditConstants DEF EditInv, EditTypes, Instants, PassTick
<1>2. EditTypes'
  BY <1>1 DEF EditInv, EditTypes, PassTick
<1> QED
  BY <1>1, <1>2, QuietKeeps DEF PassTick

\* A step of the table alone keeps what is said of the handlers.
LEMMA OtherJobKeeps == EditInv /\ OtherJob => EditInv'
<1> SUFFICES ASSUME EditInv, OtherJob PROVE EditInv'
  OBVIOUS
<1> DEFINE j == NewJob("other", time)
<1>0. time \in Instants /\ time \in Int /\ queue \in Seq(Jobs)
  BY EditConstants DEF EditInv, EditTypes, Instants
<1>1. j \in Jobs /\ j.state = "queued"
  BY <1>0 DEF NewJob, Jobs
<1>2. queue' = Append(queue, j)
  BY DEF OtherJob
<1> HIDE DEF j
<1>3. /\ queue' \in Seq(Jobs) /\ DOMAIN queue \subseteq DOMAIN queue'
      /\ \A i \in DOMAIN queue : queue'[i] = queue[i]
      /\ \A i \in DOMAIN queue' \ DOMAIN queue : queue'[i] = j
  BY <1>0, <1>1, <1>2
<1>4. UNCHANGED <<time, row, page, runs, typed, presses, failures, mingled, behind>>
  BY DEF OtherJob
<1>5. EditTypes'
  BY <1>3, <1>4 DEF EditInv, EditTypes
<1>6. \A h \in Handlers, step \in {"save", "job", "transition", "now", "fetch", "delete"} : At(h, step)' <=> At(h, step)
  BY <1>4 DEF At, Running
<1>7. QueueInv'
  <2>1. \A at : JobAt(at) => JobAt(at)'
    BY <1>3 DEF JobAt
  <2>2. \A i \in DOMAIN queue' : queue'[i].state # "queued" => queue'[i].at <= time'
    BY <1>1, <1>3, <1>4 DEF EditInv, QueueInv
  <2> QED
    BY <1>4, <1>6, <2>1, <2>2 DEF EditInv, QueueInv
<1>8. ScheduledHasJob'
  BY <1>3, <1>4 DEF EditInv, ScheduledHasJob
<1>9. Apart' /\ TextInv'
  BY <1>4, <1>6 DEF EditInv, Apart, TextInv, Running, Handlers
<1>10. ShownInv'
  BY <1>4, <1>6 DEF EditInv, ShownInv, Idle, Running, Untouched, Agrees
<1> QED
  BY <1>5, <1>7, <1>8, <1>9, <1>10 DEF EditInv

LEMMA RunDueKeeps == EditInv /\ RunDueJobs => EditInv'
<1> SUFFICES ASSUME EditInv, RunDueJobs PROVE EditInv'
  OBVIOUS
<1>0. time \in Instants /\ time \in Int /\ queue \in Seq(Jobs) /\ row \in Rows /\ behind \in BOOLEAN
  BY EditConstants DEF EditInv, EditTypes, Instants
<1>1. ClaimAndExecute(queue) /\ behind' = (behind \/ row'.status # row.status)
  BY DEF RunDueJobs
<1>2. /\ queue' \in Seq(Jobs) /\ DOMAIN queue' = DOMAIN queue /\ row' \in Rows
      /\ \A i \in DOMAIN queue :
              /\ queue'[i].of = queue[i].of /\ queue'[i].at = queue[i].at
              /\ queue'[i].state # "queued" => queue[i].state # "queued" \/ queue[i].at <= time
              /\ queue'[i].state # "queued" /\ queue[i].state = "queued" /\ queue[i].of = "this"
                   => row'.status # "scheduled"
      /\ row'.at = row.at /\ row'.text = row.text
      /\ row'.status # row.status => row'.status = "published"
  BY <1>0, <1>1, WorkerActs
<1>4. UNCHANGED <<time, page, runs, typed, presses, failures, mingled>>
  BY DEF RunDueJobs
<1>5. EditTypes'
  BY <1>1, <1>2, <1>4 DEF EditInv, EditTypes
<1>6. \A h \in Handlers, step \in {"save", "job", "transition", "now", "fetch", "delete"} : At(h, step)' <=> At(h, step)
  BY <1>4 DEF At, Running
<1>7. QueueInv'
  <2>1. \A at : JobAt(at) => JobAt(at)'
    BY <1>2 DEF JobAt
  <2>2. \A i \in DOMAIN queue' : queue'[i].state # "queued" => queue'[i].at <= time'
    BY <1>2, <1>4 DEF EditInv, QueueInv
  <2> QED
    BY <1>4, <1>6, <2>1, <2>2 DEF EditInv, QueueInv
<1>8. ScheduledHasJob'
  <2> SUFFICES ASSUME row'.status = "scheduled"
               PROVE  \E i \in DOMAIN queue' : queue'[i].of = "this" /\ queue'[i].at = row'.at /\ queue'[i].state = "queued"
    BY DEF ScheduledHasJob
  <2>1. row.status = "scheduled"
    BY <1>2
  <2>2. PICK i \in DOMAIN queue : queue[i].of = "this" /\ queue[i].at = row.at /\ queue[i].state = "queued"
    BY <2>1 DEF EditInv, ScheduledHasJob
  <2> QED
    BY <1>2, <2>2
<1>9. Apart' /\ TextInv'
  BY <1>2, <1>4, <1>6 DEF EditInv, Apart, TextInv, Running, Handlers
<1>10. ShownInv'
  <2>1. ~behind' => ~behind /\ row'.status = row.status
    BY <1>1
  <2> QED
    BY <1>2, <1>4, <1>6, <2>1 DEF EditInv, ShownInv, Idle, Running, Untouched, Agrees
<1> QED
  BY <1>5, <1>7, <1>8, <1>9, <1>10 DEF EditInv

\* What an answer keeps: of the jobs, of the text, of what the page shows.
LEMMA AnswerTypes ==
  ASSUME EditInv, NEW h \in Handlers, NEW ok \in BOOLEAN, ReplyTo(h, ok),
         UNCHANGED <<time, page, typed, presses, mingled, behind>>,
         queue' \in Seq(Jobs), row' \in Rows, failures' \in Nat
  PROVE  EditTypes' /\ Apart'
<1>t. EditTypes
  BY DEF EditInv
<1>1. EditTypes'
  BY <1>t, Replied DEF EditTypes
<1>2. \A g \in Handlers : Running(g)' <=> Running(g)
  BY <1>t, SameSteps
<1>3. Apart'
  BY <1>2 DEF EditInv, Apart
<1> QED
  BY <1>1, <1>3

LEMMA AnswerQueue ==
  ASSUME EditInv, NEW h \in Handlers, NEW ok \in BOOLEAN, ReplyTo(h, ok), UNCHANGED time,
         \A at : JobAt(at) => JobAt(at)',
         \A i \in DOMAIN queue' : queue'[i].state # "queued" => queue'[i].at <= time,
         h = "schedule" /\ At(h, "job") /\ ok => JobAt(runs[h].at)'
  PROVE  QueueInv'
<1>t. EditTypes
  BY DEF EditInv
<1>1. \A g \in Handlers : \A step : At(g, step)' <=> At(g, step)
  BY <1>t, SameSteps
<1>2. /\ \A g \in Handlers : runs'[g].at = runs[g].at /\ (g # h => runs'[g] = runs[g])
      /\ runs'[h].answer = IF ok THEN "ok" ELSE "error"
  BY <1>t, Replied
<1>3. ASSUME NEW g \in Handlers, g = "schedule",
             At(g, "transition")' \/ (At(g, "job")' /\ runs'[g].answer = "ok")
      PROVE  JobAt(runs[g].at)'
  <2>1. CASE At(g, "transition") \/ (At(g, "job") /\ runs[g].answer = "ok")
    <3>1. JobAt(runs[g].at)
      BY <1>3, <2>1 DEF EditInv, QueueInv
    <3> QED
      BY <3>1, <1>2
  <2>2. CASE ~(At(g, "transition") \/ (At(g, "job") /\ runs[g].answer = "ok"))
    <3>1. At(g, "job") /\ g = h /\ ok
      BY <1>1, <1>2, <1>3, <2>2
    <3> QED
      BY <1>3, <3>1
  <2> QED
    BY <2>1, <2>2
<1> QED
  BY <1>2, <1>3 DEF QueueInv, JobAt

LEMMA AnswerText ==
  ASSUME EditInv, NEW h \in Handlers, NEW ok \in BOOLEAN, ReplyTo(h, ok), Running(h),
         UNCHANGED mingled, row'.text = row.text \/ At(h, "save"),
         h = "publish" /\ At(h, "save") /\ ok => row'.text = runs[h].text
  PROVE  TextInv'
<1>t. EditTypes
  BY DEF EditInv
<1>1. \A g \in Handlers : \A step : At(g, step)' <=> At(g, step)
  BY <1>t, SameSteps
<1>2. /\ \A g \in Handlers : runs'[g].text = runs[g].text /\ (g # h => runs'[g] = runs[g])
      /\ runs'[h].answer = IF ok THEN "ok" ELSE "error"
  BY <1>t, Replied
<1>p. "publish" \in Handlers
  BY DEF Handlers
<1> SUFFICES ASSUME ~mingled, At("publish", "now")' \/ (At("publish", "save")' /\ runs'["publish"].answer = "ok")
             PROVE  row'.text = runs'["publish"].text
  BY DEF TextInv
<1>3. h = "publish"
  BY <1>p, <1>1, Alone DEF At
<1>4. CASE At("publish", "now")'
  <2>1. At("publish", "now") /\ ~At("publish", "save")
    BY <1>4, <1>1, <1>p DEF At
  <2> QED
    BY <1>2, <1>3, <1>p, <2>1 DEF EditInv, TextInv
<1>5. CASE At("publish", "save")' /\ runs'["publish"].answer = "ok"
  BY <1>5, <1>1, <1>2, <1>3, <1>p
<1> QED
  BY <1>4, <1>5

LEMMA AnswerShown ==
  ASSUME EditInv, NEW h \in Handlers, NEW ok \in BOOLEAN, ReplyTo(h, ok), Running(h),
         runs[h].answer = "waiting", ~At(h, "fetch"),
         UNCHANGED <<page, mingled, behind, failures>>,
         \/ row'.status = row.status /\ row'.at = row.at
         \/ ok /\ (At(h, "transition") \/ At(h, "delete") \/ At(h, "now"))
  PROVE  ShownInv'
<1>t. EditTypes
  BY DEF EditInv
<1>1. /\ \A g \in Handlers : Running(g)' <=> Running(g)
      /\ \A g \in Handlers : \A step : At(g, step)' <=> At(g, step)
  BY <1>t, SameSteps
<1>2. /\ \A g \in Handlers : (g # h => runs'[g] = runs[g])
      /\ runs'[h].answer = IF ok THEN "ok" ELSE "error"
  BY <1>t, Replied
<1> SUFFICES ASSUME ~mingled, ~behind, failures = 0
             PROVE  /\ (page.shown = "ready" /\ \A g \in Handlers : Idle(g)' \/ Untouched(g)') => Agrees(page)'
                    /\ \A g \in Handlers : (At(g, "fetch")' /\ runs'[g].answer = "ok") => Agrees(runs[g].got)'
  BY DEF ShownInv
<1>3. \A g \in Handlers : ~At(g, "fetch")
  BY Alone DEF At
<1>4. ASSUME page.shown = "ready", \A g \in Handlers : Idle(g)' \/ Untouched(g)' PROVE Agrees(page)'
  <2>1. Untouched(h)'
    BY <1>1, <1>4 DEF Idle
  <2>2. row'.status = row.status /\ row'.at = row.at
    <3>1. ~(ok /\ (At(h, "transition") \/ At(h, "delete") \/ At(h, "now")))
      BY <1>1, <1>2, <2>1 DEF Untouched, At
    <3> QED
      BY <3>1
  <2>3. Untouched(h)
    BY <1>1, <2>1 DEF Untouched
  <2>4. \A g \in Handlers : Idle(g) \/ Untouched(g)
    BY <2>3, Alone DEF Idle
  <2>5. Agrees(page)
    BY <1>4, <2>4 DEF EditInv, ShownInv
  <2> QED
    BY <2>2, <2>5 DEF Agrees
<1> QED
  BY <1>1, <1>3, <1>4

\* The parts of an answer that leave the table as it is.
LEMMA SameQueue ==
  ASSUME EditInv, UNCHANGED <<queue, time>>
  PROVE  /\ \A at : JobAt(at) => JobAt(at)'
         /\ \A i \in DOMAIN queue' : queue'[i].state # "queued" => queue'[i].at <= time
BY DEF EditInv, QueueInv, JobAt

LEMMA Facts ==
  EditInv => /\ EditTypes /\ row \in Rows /\ queue \in Seq(Jobs) /\ failures \in Nat
             /\ row.status \in ItemStatus /\ row.at \in Instants /\ row.text \in Nat
             /\ time \in Instants /\ time \in Nat
BY EditConstants DEF EditInv, EditTypes, Rows, Instants

LEMMA ServeUpdateKeeps == ASSUME EditInv, NEW h \in Handlers, ServeUpdate(h) PROVE EditInv'
<1> DEFINE ok == row.status # "gone"
<1>1. /\ ReplyTo(h, ok) /\ Running(h) /\ runs[h].answer = "waiting" /\ At(h, "save")
      /\ UNCHANGED <<time, page, typed, presses, failures, mingled, queue, behind>>
      /\ row' = IF ok THEN [row EXCEPT !.text = runs[h].text] ELSE row
  BY DEF ServeUpdate, Sends, AtServer, At
<1>2. /\ row' \in Rows /\ row'.status = row.status /\ row'.at = row.at
      /\ row'.text = IF ok THEN runs[h].text ELSE row.text
  BY <1>1, Facts, RunTypes DEF Rows
<1>3. ok \in BOOLEAN /\ ~At(h, "fetch") /\ ~At(h, "job")
  BY <1>1 DEF At
<1> HIDE DEF ok
<1>4. EditTypes' /\ Apart'
  BY <1>1, <1>2, <1>3, Facts, AnswerTypes
<1>5. QueueInv'
  BY <1>1, <1>3, SameQueue, AnswerQueue
<1>6. TextInv'
  BY <1>1, <1>2, <1>3, AnswerText
<1>7. ShownInv'
  BY <1>1, <1>2, <1>3, AnswerShown
<1>8. ScheduledHasJob'
  BY <1>1, <1>2 DEF EditInv, ScheduledHasJob
<1> QED
  BY <1>4, <1>5, <1>6, <1>7, <1>8 DEF EditInv

LEMMA ServeDeleteKeeps == ASSUME EditInv, NEW h \in Handlers, ServeDelete(h) PROVE EditInv'
<1> DEFINE ok == row.status \in {"draft", "scheduled"}
<1>1. /\ ReplyTo(h, ok) /\ Running(h) /\ runs[h].answer = "waiting" /\ At(h, "delete")
      /\ UNCHANGED <<time, page, typed, presses, failures, mingled, queue, behind>>
      /\ row' = IF row.status = "published" THEN row ELSE [row EXCEPT !.status = "gone"]
  BY DEF ServeDelete, Sends, AtServer, At
<1>2. /\ row' \in Rows /\ row'.at = row.at /\ row'.text = row.text
      /\ row'.status = IF ok THEN "gone" ELSE row.status
  BY <1>1, Facts DEF Rows, ItemStatus
<1>3. ok \in BOOLEAN /\ ~At(h, "fetch") /\ ~At(h, "job") /\ ~At(h, "save")
  BY <1>1 DEF At
<1> HIDE DEF ok
<1>4. EditTypes' /\ Apart'
  BY <1>1, <1>2, <1>3, Facts, AnswerTypes
<1>5. QueueInv'
  BY <1>1, <1>3, SameQueue, AnswerQueue
<1>6. TextInv'
  BY <1>1, <1>2, <1>3, AnswerText
<1>7. ShownInv'
  BY <1>1, <1>2, <1>3, AnswerShown
<1>8. ScheduledHasJob'
  BY <1>1, <1>2 DEF EditInv, ScheduledHasJob
<1> QED
  BY <1>4, <1>5, <1>6, <1>7, <1>8 DEF EditInv

\* A job at the end of the table.
LEMMA JobAppended ==
  ASSUME EditInv, NEW j \in Jobs, j.state = "queued"
  PROVE  /\ Append(queue, j) \in Seq(Jobs)
         /\ DOMAIN queue \subseteq DOMAIN Append(queue, j)
         /\ \A i \in DOMAIN queue : Append(queue, j)[i] = queue[i]
         /\ \A i \in DOMAIN Append(queue, j) \ DOMAIN queue : Append(queue, j)[i] = j
         /\ \E i \in DOMAIN Append(queue, j) : Append(queue, j)[i] = j
<1>1. queue \in Seq(Jobs) /\ Len(queue) \in Nat
  BY Facts
<1> DEFINE q == Append(queue, j)
           n == Len(queue)
<1>2. q \in Seq(Jobs) /\ DOMAIN q = 1 .. n + 1 /\ DOMAIN queue = 1 .. n
  BY <1>1
<1>3. \A i \in 1 .. n + 1 : q[i] = IF i = n + 1 THEN j ELSE queue[i]
  BY <1>1
<1> HIDE DEF q, n
<1>4. n \in Nat
  BY <1>1 DEF n
<1>5. \A i \in 1 .. n + 1 : i \in 1 .. n \/ i = n + 1
  BY <1>4
<1>6. n + 1 \in 1 .. n + 1 /\ 1 .. n \subseteq 1 .. n + 1 /\ n + 1 \notin 1 .. n
  BY <1>4
<1> QED
  BY <1>2, <1>3, <1>5, <1>6 DEF q

LEMMA ServePublishNowKeeps == ASSUME EditInv, NEW h \in Handlers, ServePublishNow(h) PROVE EditInv'
<1> DEFINE j == NewJob("this", time)
           q == Append(queue, j)
<1>1. /\ ReplyTo(h, TRUE) /\ Running(h) /\ runs[h].answer = "waiting" /\ At(h, "now")
      /\ UNCHANGED <<time, page, typed, presses, failures, mingled, behind>>
      /\ ClaimAndExecute(q)
  BY DEF ServePublishNow, Sends, AtServer, At
<1>2. j \in Jobs /\ j.state = "queued"
  BY Facts DEF NewJob, Jobs
<1> HIDE DEF j
<1>3. /\ q \in Seq(Jobs) /\ DOMAIN queue \subseteq DOMAIN q
      /\ \A i \in DOMAIN queue : q[i] = queue[i]
      /\ \A i \in DOMAIN q \ DOMAIN queue : q[i] = j
  BY <1>2, JobAppended
<1> HIDE DEF q
<1>4. /\ queue' \in Seq(Jobs) /\ DOMAIN queue' = DOMAIN q /\ row' \in Rows
      /\ \A i \in DOMAIN q :
              /\ queue'[i].of = q[i].of /\ queue'[i].at = q[i].at
              /\ queue'[i].state # "queued" => q[i].state # "queued" \/ q[i].at <= time
              /\ queue'[i].state # "queued" /\ q[i].state = "queued" /\ q[i].of = "this"
                   => row'.status # "scheduled"
      /\ row'.at = row.at /\ row'.text = row.text
      /\ row'.status # row.status => row'.status = "published"
  BY <1>1, <1>3, Facts, WorkerActs
<1>5. ~At(h, "fetch") /\ ~At(h, "job") /\ ~At(h, "save")
  BY <1>1 DEF At
<1>6. EditTypes' /\ Apart'
  BY <1>1, <1>4, Facts, AnswerTypes
<1>7. QueueInv'
  <2>1. \A at : JobAt(at) => JobAt(at)'
    BY <1>3, <1>4 DEF JobAt
  <2>2. \A i \in DOMAIN queue' : queue'[i].state # "queued" => queue'[i].at <= time
    BY <1>2, <1>3, <1>4 DEF EditInv, QueueInv
  <2> QED
    BY <1>1, <1>5, <2>1, <2>2, AnswerQueue
<1>8. TextInv'
  BY <1>1, <1>4, <1>5, AnswerText
<1>9. ShownInv'
  BY <1>1, <1>5, AnswerShown
<1>10. ScheduledHasJob'
  <2> SUFFICES ASSUME row'.status = "scheduled"
               PROVE  \E i \in DOMAIN queue' : queue'[i].of = "this" /\ queue'[i].at = row'.at /\ queue'[i].state = "queued"
    BY DEF ScheduledHasJob
  <2>1. row.status = "scheduled"
    BY <1>4
  <2>2. PICK i \in DOMAIN queue : queue[i].of = "this" /\ queue[i].at = row.at /\ queue[i].state = "queued"
    BY <2>1 DEF EditInv, ScheduledHasJob
  <2> QED
    BY <1>3, <1>4, <2>2
<1> QED
  BY <1>6, <1>7, <1>8, <1>9, <1>10 DEF EditInv

LEMMA ServeScheduleKeeps == ASSUME EditInv, NEW h \in Handlers, ServeSchedule(h) PROVE EditInv'
<1> DEFINE at == runs[h].at
           known == JobAt(at)
           ok == at >= time
           j == NewJob("this", at)
<1>0. at \in Instants /\ at \in Nat
  BY Facts, RunTypes, EditConstants DEF Instants
<1>1. /\ ReplyTo(h, ok) /\ Running(h) /\ runs[h].answer = "waiting" /\ At(h, "job")
      /\ UNCHANGED <<time, page, typed, presses, failures, mingled, row, behind>>
      /\ queue' = IF ok /\ ~known THEN Append(queue, j) ELSE queue
  BY DEF ServeSchedule, Sends, AtServer, At, JobAt
<1>2. j \in Jobs /\ j.state = "queued" /\ j.of = "this" /\ j.at = at
  BY <1>0 DEF NewJob, Jobs
<1> HIDE DEF j
<1>3. ok \in BOOLEAN /\ ~At(h, "fetch") /\ ~At(h, "save")
  BY <1>1 DEF At
<1>4. /\ queue' \in Seq(Jobs) /\ DOMAIN queue \subseteq DOMAIN queue'
      /\ \A i \in DOMAIN queue : queue'[i] = queue[i]
      /\ \A i \in DOMAIN queue' \ DOMAIN queue : queue'[i] = j
      /\ ok => \E i \in DOMAIN queue' : queue'[i].of = "this" /\ queue'[i].at = at
  <2>1. CASE ok /\ ~known
    BY <1>1, <1>2, <2>1, JobAppended
  <2>2. CASE ~(ok /\ ~known)
    BY <1>1, <2>2, Facts DEF JobAt
  <2> QED
    BY <2>1, <2>2
<1> HIDE DEF ok
<1>5. EditTypes' /\ Apart'
  BY <1>1, <1>3, <1>4, Facts, AnswerTypes
<1>6. QueueInv'
  <2>1. \A t : JobAt(t) => JobAt(t)'
    BY <1>4 DEF JobAt
  <2>2. \A i \in DOMAIN queue' : queue'[i].state # "queued" => queue'[i].at <= time
    BY <1>2, <1>4 DEF EditInv, QueueInv
  <2>3. ok => JobAt(runs[h].at)'
    <3> SUFFICES ASSUME ok PROVE \E i \in DOMAIN queue' : queue'[i].of = "this" /\ queue'[i].at = runs'[h].at
      BY DEF JobAt
    <3>1. runs'[h].at = at
      BY <1>1, <1>3, Facts, Replied
    <3> QED
      BY <1>4, <3>1
  <2> QED
    BY <1>1, <1>3, <2>1, <2>2, <2>3, AnswerQueue
<1>7. TextInv'
  BY <1>1, <1>3, AnswerText
<1>8. ShownInv'
  BY <1>1, <1>3, AnswerShown
<1>9. ScheduledHasJob'
  BY <1>1, <1>4 DEF EditInv, ScheduledHasJob
<1> QED
  BY <1>5, <1>6, <1>7, <1>8, <1>9 DEF EditInv

LEMMA ServeTransitionKeeps == ASSUME EditInv, NEW h \in Handlers, ServeTransition(h) PROVE EditInv'
<1> DEFINE to == Target(h)
           ok == MayMove(row.status, to) /\ (to = "scheduled" => runs[h].at > time)
           at == IF to = "scheduled" THEN runs[h].at ELSE IF row.status = "scheduled" THEN 0 ELSE row.at
<1>1. /\ ReplyTo(h, ok) /\ Running(h) /\ runs[h].answer = "waiting" /\ At(h, "transition")
      /\ UNCHANGED <<time, page, typed, presses, failures, mingled, queue, behind>>
      /\ row' = IF ~ok THEN row ELSE [row EXCEPT !.status = to, !.at = at]
  BY DEF ServeTransition, Sends, AtServer, At
<1>2. to \in ItemStatus /\ at \in Instants
  BY Facts, RunTypes, EditConstants DEF Target, ItemStatus, Instants
<1>3. ok \in BOOLEAN /\ ~At(h, "fetch") /\ ~At(h, "job") /\ ~At(h, "save")
  BY <1>1 DEF At, MayMove
<1>4. ok /\ to = "scheduled" => runs[h].at > time /\ h = "schedule" /\ at = runs[h].at
  BY DEF Target
<1>6. ASSUME ok, to = "scheduled" PROVE \E i \in DOMAIN queue : queue[i].of = "this" /\ queue[i].at = at /\ queue[i].state = "queued"
  <2>1. JobAt(runs[h].at) /\ runs[h].at \in Nat
    BY <1>1, <1>4, <1>6, RunTypes, Facts, EditConstants DEF EditInv, QueueInv, Instants
  <2>2. PICK i \in DOMAIN queue : queue[i].of = "this" /\ queue[i].at = at
    BY <1>4, <1>6, <2>1 DEF JobAt
  <2>3. queue[i].state = "queued"
    BY <1>4, <1>6, <2>1, <2>2, Facts DEF EditInv, QueueInv
  <2> QED
    BY <2>2, <2>3
<1> HIDE DEF to, at, ok
<1>5. /\ row' \in Rows /\ row'.text = row.text
      /\ row'.status = IF ok THEN to ELSE row.status
      /\ row'.at = IF ok THEN at ELSE row.at
  BY <1>1, <1>2, Facts DEF Rows
<1>7. EditTypes' /\ Apart'
  BY <1>1, <1>3, <1>5, Facts, AnswerTypes
<1>8. QueueInv'
  BY <1>1, <1>3, SameQueue, AnswerQueue
<1>9. TextInv'
  BY <1>1, <1>3, <1>5, AnswerText
<1>10. ShownInv'
  BY <1>1, <1>3, <1>5, AnswerShown
<1>11. ScheduledHasJob'
  BY <1>1, <1>5, <1>6 DEF EditInv, ScheduledHasJob
<1> QED
  BY <1>7, <1>8, <1>9, <1>10, <1>11 DEF EditInv

LEMMA LoseRequestKeeps == ASSUME EditInv, NEW h \in Handlers, LoseRequest(h) PROVE EditInv'
<1>1. /\ ReplyTo(h, FALSE) /\ Running(h) /\ failures' = failures + 1
      /\ UNCHANGED <<time, row, queue, page, typed, presses, mingled, behind>>
  BY DEF LoseRequest
<1>2. failures' \in Nat /\ failures' # 0
  BY <1>1, Facts
<1>3. EditTypes' /\ Apart'
  BY <1>1, <1>2, Facts, AnswerTypes
<1>4. QueueInv'
  BY <1>1, SameQueue, AnswerQueue
<1>5. TextInv'
  BY <1>1, AnswerText
<1>6. ShownInv'
  BY <1>2 DEF ShownInv
<1>7. ScheduledHasJob'
  BY <1>1 DEF EditInv, ScheduledHasJob
<1> QED
  BY <1>3, <1>4, <1>5, <1>6, <1>7 DEF EditInv

LEMMA ServeGetKeeps == ASSUME EditInv, NEW h \in Handlers, ServeGet(h) PROVE EditInv'
<1>1. /\ Running(h) /\ At(h, "fetch") /\ behind' = FALSE
      /\ UNCHANGED <<time, row, queue, page, typed, presses, failures, mingled>>
      /\ runs' = IF row.status = "gone" THEN [runs EXCEPT ![h].answer = "error"]
                 ELSE [runs EXCEPT ![h].answer = "ok", ![h].got = row]
  BY DEF ServeGet, Sends, AtServer, At
<1>t. runs \in [Handlers -> RunRecords] /\ row \in Rows
  BY DEF EditInv, EditTypes
<1> DEFINE r == IF row.status = "gone" THEN [runs[h] EXCEPT !.answer = "error"]
                ELSE [runs[h] EXCEPT !.answer = "ok", !.got = row]
<1>2. /\ r \in RunRecords /\ r.left = runs[h].left /\ r.text = runs[h].text /\ r.at = runs[h].at
      /\ r.answer = "ok" => r.got = row
  BY <1>t, RunTypes DEF RunRecords
<1>3. runs' = [runs EXCEPT ![h] = r]
  BY <1>1
<1> HIDE DEF r
<1>4. /\ runs' \in [Handlers -> RunRecords]
      /\ \A g \in Handlers : runs'[g] = IF g = h THEN r ELSE runs[g]
  BY <1>t, <1>2, <1>3
<1>5. \A g \in Handlers : runs'[g].left = runs[g].left /\ runs'[g].text = runs[g].text /\ runs'[g].at = runs[g].at
  BY <1>2, <1>4
<1>6. /\ \A g \in Handlers : Running(g)' <=> Running(g)
      /\ \A g \in Handlers : \A step : At(g, step)' <=> At(g, step)
  BY <1>5 DEF Running, At
<1>7. EditTypes'
  BY <1>1, <1>4, <1>5 DEF EditInv, EditTypes
<1>8. Apart'
  BY <1>1, <1>6 DEF EditInv, Apart
<1>9. \A step \in {"save", "job", "transition", "now", "delete"} : ~At(h, step)
  BY <1>1 DEF At
<1>10. QueueInv'
  BY <1>1, <1>4, <1>5, <1>6, <1>9 DEF EditInv, QueueInv, JobAt
<1>11. TextInv'
  <2>1. "publish" \in Handlers
    BY DEF Handlers
  <2> QED
    BY <1>1, <1>4, <1>6, <1>9, <2>1 DEF EditInv, TextInv
<1>12. ScheduledHasJob'
  BY <1>1 DEF EditInv, ScheduledHasJob
<1>13. ShownInv'
  <2> SUFFICES ASSUME ~mingled
               PROVE  /\ (page.shown = "ready" /\ \A g \in Handlers : Idle(g)' \/ Untouched(g)') => Agrees(page)'
                      /\ \A g \in Handlers : (At(g, "fetch")' /\ runs'[g].answer = "ok") => Agrees(runs[g].got)'
    BY <1>1 DEF ShownInv
  <2>1. ~Idle(h)' /\ ~Untouched(h)'
    BY <1>1, <1>6, <1>9 DEF Idle, Untouched
  <2>2. ASSUME NEW g \in Handlers, At(g, "fetch")', runs'[g].answer = "ok" PROVE Agrees(runs[g].got)'
    <3>1. g = h
      BY <1>1, <1>6, <2>2, Alone DEF At
    <3> QED
      BY <1>1, <1>2, <1>4, <2>2, <3>1 DEF Agrees
  <2> QED
    BY <2>1, <2>2
<1> QED
  BY <1>7, <1>8, <1>10, <1>11, <1>12, <1>13 DEF EditInv

LEMMA PressKeeps == ASSUME EditInv, NEW h \in Handlers, Press(h) PROVE EditInv'
<1>1. PICK at \in (IF h = "schedule" THEN time .. MaxClock ELSE {0}) :
        runs' = [runs EXCEPT ![h] = [NoRun EXCEPT !.left = Steps(h), !.text = page.text, !.at = at]]
  BY DEF Press
<1>2. /\ page.shown = "ready" /\ Idle(h) /\ Pressable(h) /\ presses' = presses + 1
      /\ page' = [page EXCEPT !.saving = @ \/ Head(Steps(h)) = "save"]
      /\ mingled' = (mingled \/ \E other \in Handlers : Running(other))
      /\ UNCHANGED <<time, row, queue, typed, failures, behind>>
  BY DEF Press
<1>t. runs \in [Handlers -> RunRecords] /\ page \in Sheets /\ page.text \in Nat
  BY DEF EditInv, EditTypes, Sheets
<1>3. at \in Instants
  BY <1>1, Facts, EditConstants DEF Instants
<1> DEFINE r == [NoRun EXCEPT !.left = Steps(h), !.text = page.text, !.at = at]
<1>4. r \in RunRecords /\ r.left = Steps(h) /\ r.answer = "waiting"
  <2>1. [status |-> "draft", at |-> 0, text |-> 0] \in Rows
    BY EditConstants DEF Rows, ItemStatus, Instants
  <2>2. Steps(h) \in RestLists
    BY JustBegun DEF RestLists
  <2>3. <<>> \in RestLists
    BY JustBegun DEF RestLists
  <2>4. NoRun \in RunRecords /\ NoRun.answer = "waiting"
    BY <2>1, <2>3, EditConstants DEF NoRun, RunRecords, Instants
  <2> DEFINE base == NoRun
             steps == Steps(h)
  <2>5. base \in RunRecords /\ base.answer = "waiting" /\ steps \in RestLists
    BY <2>2, <2>4
  <2>6. r = [base EXCEPT !.left = steps, !.text = page.text, !.at = at]
    OBVIOUS
  <2> HIDE DEF base, steps, r
  <2>7. r \in RunRecords /\ r.left = steps /\ r.answer = "waiting"
    BY <1>t, <1>3, <2>5, <2>6 DEF RunRecords
  <2> QED
    BY <2>7 DEF steps
<1> HIDE DEF r
<1>5. /\ runs' \in [Handlers -> RunRecords]
      /\ \A g \in Handlers : runs'[g] = IF g = h THEN r ELSE runs[g]
  BY <1>1, <1>t, <1>4 DEF r
<1>6. /\ page' \in Sheets /\ page'.shown = "ready" /\ page'.status = page.status /\ page'.at = page.at
  <2> DEFINE s == page.saving \/ Head(Steps(h)) = "save"
  <2>1. s \in BOOLEAN /\ page' = [page EXCEPT !.saving = s]
    BY <1>2, <1>t DEF Sheets
  <2> HIDE DEF s
  <2> QED
    BY <1>2, <1>t, <2>1 DEF Sheets
<1>7. /\ presses' \in Nat /\ mingled' \in BOOLEAN
  BY <1>2 DEF EditInv, EditTypes
<1>8. EditTypes'
  BY <1>2, <1>4, <1>5, <1>6, <1>7, JustBegun DEF EditInv, EditTypes
<1>9. /\ \A g \in Handlers \ {h} : Running(g)' <=> Running(g)
      /\ \A g \in Handlers \ {h} : \A step : At(g, step)' <=> At(g, step)
      /\ Running(h)' /\ ~Running(h)
      /\ \A step : At(h, step)' <=> Head(Steps(h)) = step
  BY <1>2, <1>4, <1>5, JustBegun DEF Running, At, Idle
<1>10. ~mingled' => ~mingled /\ \A g \in Handlers : ~Running(g)
  BY <1>2
<1>11. Apart'
  BY <1>9, <1>10 DEF Apart
<1>12. QueueInv'
  <2>1. (runs'[h].answer # "ok" /\ ~At(h, "transition")') \/ h # "schedule"
    BY <1>4, <1>5, <1>9, JustBegun
  <2>2. ASSUME NEW g \in Handlers, g = "schedule",
               At(g, "transition")' \/ (At(g, "job")' /\ runs'[g].answer = "ok")
        PROVE  JobAt(runs[g].at)'
    <3>1. g # h
      BY <2>1, <2>2
    <3> QED
      BY <1>2, <1>5, <1>9, <2>2, <3>1 DEF EditInv, QueueInv, JobAt
  <2> QED
    BY <1>2, <2>2 DEF EditInv, QueueInv
<1>13. TextInv'
  <2> SUFFICES ASSUME ~mingled', At("publish", "now")' \/ (At("publish", "save")' /\ runs'["publish"].answer = "ok")
               PROVE  FALSE
    BY DEF TextInv
  <2>1. "publish" \in Handlers
    BY DEF Handlers
  <2>2. h = "publish"
    BY <1>9, <1>10, <2>1 DEF At
  <2> QED
    BY <1>4, <1>5, <1>9, <2>1, <2>2, JustBegun
<1>14. ScheduledHasJob'
  BY <1>2 DEF EditInv, ScheduledHasJob
<1>15. ShownInv'
  <2> SUFFICES ASSUME ~mingled', ~behind', failures' = 0
               PROVE  /\ Agrees(page)'
                      /\ \A g \in Handlers : ~(At(g, "fetch")' /\ runs'[g].answer = "ok")
    BY DEF ShownInv
  <2>1. Agrees(page)
    BY <1>2, <1>10 DEF EditInv, ShownInv, Idle
  <2>2. \A g \in Handlers : ~(At(g, "fetch")' /\ runs'[g].answer = "ok")
    BY <1>4, <1>5, <1>9, <1>10 DEF At
  <2> QED
    BY <1>2, <1>6, <2>1, <2>2 DEF Agrees
<1> QED
  BY <1>8, <1>11, <1>12, <1>13, <1>14, <1>15 DEF EditInv

\* A handler that goes on, or ends.
LEMMA GoesOn ==
  ASSUME EditInv, NEW h \in Handlers, NEW r \in RunRecords, r.left \in Rests(h), Running(h),
         runs' = [runs EXCEPT ![h] = r], r.answer = "waiting",
         page' \in Sheets, UNCHANGED <<time, row, queue, typed, presses, failures, mingled, behind>>,
         r.left # <<>> => r.text = runs[h].text /\ r.at = runs[h].at,
         r.left # <<>> /\ Head(r.left) = "transition" /\ h = "schedule" => JobAt(r.at),
         r.left # <<>> /\ Head(r.left) = "now" => (~mingled => row.text = r.text),
         ~mingled /\ ~behind /\ failures = 0 /\ page'.shown = "ready" =>
           \/ r.left # <<>> /\ Head(r.left) \in {"fetch"}
           \/ Agrees(page')
  PROVE  EditInv'
<1>t. runs \in [Handlers -> RunRecords]
  BY DEF EditInv, EditTypes
<1>1. \A g \in Handlers : runs'[g] = IF g = h THEN r ELSE runs[g]
  BY <1>t
<1>2. EditTypes'
  BY <1>t, <1>1 DEF EditInv, EditTypes
<1>3. /\ \A g \in Handlers : Running(g)' => Running(g)
      /\ \A g \in Handlers \ {h} : \A step : At(g, step)' <=> At(g, step)
      /\ \A step : At(h, step)' <=> r.left # <<>> /\ Head(r.left) = step
  BY <1>1 DEF Running, At
<1>4. Apart'
  BY <1>3 DEF EditInv, Apart
<1>5. QueueInv'
  <2>1. ASSUME NEW g \in Handlers, g = "schedule",
               At(g, "transition")' \/ (At(g, "job")' /\ runs'[g].answer = "ok")
        PROVE  JobAt(runs[g].at)'
    <3>1. CASE g = h
      BY <1>1, <1>3, <2>1, <3>1 DEF JobAt
    <3>2. CASE g # h
      BY <1>1, <1>3, <2>1, <3>2 DEF EditInv, QueueInv, JobAt
    <3> QED
      BY <3>1, <3>2
  <2> QED
    BY <2>1 DEF EditInv, QueueInv
<1>6. ScheduledHasJob'
  BY DEF EditInv, ScheduledHasJob
<1>7. TextInv'
  <2> SUFFICES ASSUME ~mingled, At("publish", "now")' \/ (At("publish", "save")' /\ runs'["publish"].answer = "ok")
               PROVE  row.text = runs'["publish"].text
    BY DEF TextInv
  <2>1. "publish" \in Handlers
    BY DEF Handlers
  <2>2. h = "publish"
    BY <1>3, <2>1, Alone DEF At
  <2> QED
    BY <1>1, <1>3, <2>1, <2>2
<1>8. ShownInv'
  <2> SUFFICES ASSUME ~mingled, ~behind, failures = 0
               PROVE  /\ (page'.shown = "ready" /\ \A g \in Handlers : Idle(g)' \/ Untouched(g)') => Agrees(page)'
                      /\ \A g \in Handlers : ~(At(g, "fetch")' /\ runs'[g].answer = "ok")
    BY DEF ShownInv
  <2>1. \A g \in Handlers : ~(At(g, "fetch")' /\ runs'[g].answer = "ok")
    BY <1>1, <1>3, Alone DEF At
  <2>2. ASSUME page'.shown = "ready", Idle(h)' \/ Untouched(h)' PROVE Agrees(page)'
    <3>1. ~(r.left # <<>> /\ Head(r.left) = "fetch")
      BY <1>1, <1>3, <2>2 DEF Idle, Running, Untouched
    <3>2. Agrees(page')
      BY <2>2, <3>1
    <3> QED
      BY <3>2 DEF Agrees
  <2> QED
    BY <2>1, <2>2
<1> QED
  BY <1>2, <1>4, <1>5, <1>6, <1>7, <1>8 DEF EditInv

LEMMA NoRunFacts ==
  /\ NoRun \in RunRecords /\ NoRun.left = <<>> /\ NoRun.answer = "waiting"
  /\ \A h \in Handlers : <<>> \in Rests(h)
<1>1. [status |-> "draft", at |-> 0, text |-> 0] \in Rows
  BY EditConstants DEF Rows, ItemStatus, Instants
<1>2. \A h \in Handlers : <<>> \in Rests(h)
  BY JustBegun
<1>3. "load" \in Handlers
  BY DEF Handlers
<1>4. <<>> \in RestLists
  BY <1>2, <1>3 DEF RestLists
<1> QED
  BY <1>1, <1>2, <1>4, EditConstants DEF NoRun, RunRecords, Instants

\* With one handler under way and nothing changed behind it, an untouched page agrees.
LEMMA UntouchedAgrees ==
  ASSUME EditInv, NEW h \in Handlers, Running(h), Untouched(h), ~mingled, ~behind, failures = 0,
         page.shown = "ready"
  PROVE  Agrees(page)
<1>1. \A g \in Handlers : Idle(g) \/ Untouched(g)
  BY Alone DEF Idle
<1> QED
  BY <1>1 DEF EditInv, ShownInv

LEMMA ProceedKeeps == ASSUME EditInv, NEW h \in Handlers, Proceed(h) PROVE EditInv'
<1> DEFINE left == runs[h].left
           step == Head(left)
           rest == Tail(left)
           r == IF rest = <<>> THEN NoRun ELSE [runs[h] EXCEPT !.left = rest, !.answer = "waiting"]
<1>1. /\ Running(h) /\ runs[h].answer = "ok"
      /\ UNCHANGED <<time, row, queue, typed, presses, failures, mingled, behind>>
      /\ runs' = [runs EXCEPT ![h] = r]
      /\ page' = IF step = "fetch"
                 THEN [page EXCEPT !.shown = IF page.shown = "loading" THEN "ready" ELSE page.shown,
                         !.status = runs[h].got.status, !.at = runs[h].got.at, !.text = runs[h].got.text]
                 ELSE [page EXCEPT !.saving = page.saving /\ step # "save",
                         !.shown = IF step = "delete" THEN "left" ELSE page.shown]
  <2>1. runs \in [Handlers -> RunRecords] /\ page \in Sheets
    BY DEF EditInv, EditTypes
  <2>2. runs' = [runs EXCEPT ![h] = r]
    <3>1. runs' = [runs EXCEPT ![h] = IF rest = <<>> THEN NoRun
                     ELSE [runs[h] EXCEPT !.left = Tail(runs[h].left), !.answer = "waiting"]]
      BY <2>1 DEF Proceed, Received
    <3> QED
      BY <3>1
  <2>3. page' = IF step = "fetch"
                THEN [page EXCEPT !.shown = IF page.shown = "loading" THEN "ready" ELSE page.shown,
                         !.status = runs[h].got.status, !.at = runs[h].got.at, !.text = runs[h].got.text]
                ELSE [page EXCEPT !.saving = page.saving /\ step # "save",
                         !.shown = IF step = "delete" THEN "left" ELSE page.shown]
    BY <2>1 DEF Proceed, Received, Sheets
  <2> QED
    BY <2>2, <2>3 DEF Proceed, Received
<1>2. left \in Rests(h) /\ left # <<>> /\ runs[h] \in RunRecords /\ page \in Sheets /\ runs[h].got \in Rows
  BY <1>1, RunTypes DEF EditInv, EditTypes, Running
<1>3. /\ rest \in Rests(h)
      /\ step \in {"save", "job", "transition", "now", "fetch", "delete"}
      /\ step = "save" /\ rest # <<>> =>
              \/ h = "publish" /\ Head(rest) = "now"
              \/ h = "schedule" /\ Head(rest) = "job"
      /\ step = "job" => h = "schedule" /\ rest # <<>> /\ Head(rest) = "transition"
      /\ step = "transition" =>
              h \in {"schedule", "unschedule", "unpublish"} /\ rest # <<>> /\ Head(rest) = "fetch"
      /\ step = "now" => h = "publish" /\ rest # <<>> /\ Head(rest) = "fetch"
      /\ step \in {"fetch", "delete"} => rest = <<>>
      /\ step = "delete" => h = "delete"
  BY <1>2, Advance
<1>4. At(h, step) /\ \A s : At(h, s) => s = step
  BY <1>1 DEF At
<1> HIDE DEF left, step, rest
<1>5. /\ r \in RunRecords /\ r.left = rest /\ r.answer = "waiting"
      /\ rest # <<>> => r.text = runs[h].text /\ r.at = runs[h].at
  <2>1. CASE rest = <<>>
    BY <2>1, NoRunFacts
  <2>2. CASE rest # <<>>
    <3>1. r = [runs[h] EXCEPT !.left = rest, !.answer = "waiting"] /\ rest \in RestLists
      BY <1>3, <2>2 DEF RestLists
    <3> HIDE DEF r
    <3> QED
      BY <1>2, <3>1 DEF RunRecords
  <2> QED
    BY <2>1, <2>2
<1> HIDE DEF r
<1>6. CASE step = "fetch"
  <2> DEFINE shown == IF page.shown = "loading" THEN "ready" ELSE page.shown
             got == runs[h].got
  <2>1. page' = [page EXCEPT !.shown = shown, !.status = got.status, !.at = got.at, !.text = got.text]
    BY <1>1, <1>6
  <2>2. shown \in {"ready", "left"} /\ got.status \in ItemStatus /\ got.at \in Instants /\ got.text \in Nat
    BY <1>2 DEF Sheets, Rows
  <2> HIDE DEF shown, got
  <2>3. page' \in Sheets /\ page'.status = got.status /\ page'.at = got.at
    BY <1>2, <2>1, <2>2 DEF Sheets
  <2>4. ~mingled /\ ~behind /\ failures = 0 => Agrees(page')
    BY <1>1, <1>4, <1>6, <2>3 DEF EditInv, ShownInv, Agrees, got
  <2>5. rest = <<>>
    BY <1>3, <1>6
  <2> QED
    BY <1>1, <1>3, <1>5, <2>3, <2>4, <2>5, GoesOn
<1>7. CASE step # "fetch"
  <2> DEFINE saving == page.saving /\ step # "save"
             shown == IF step = "delete" THEN "left" ELSE page.shown
  <2>1. page' = [page EXCEPT !.saving = saving, !.shown = shown]
    BY <1>1, <1>7
  <2>2. saving \in BOOLEAN /\ shown \in {"loading", "ready", "left"}
    BY <1>2 DEF Sheets
  <2>3. shown = "ready" => page.shown = "ready" /\ step # "delete"
    OBVIOUS
  <2> HIDE DEF saving, shown
  <2>4. page' \in Sheets /\ page'.status = page.status /\ page'.at = page.at /\ page'.shown = shown
    BY <1>2, <2>1, <2>2 DEF Sheets
  <2>5. rest # <<>> /\ Head(rest) = "transition" /\ h = "schedule" => JobAt(r.at)
    <3>1. rest # <<>> /\ Head(rest) = "transition" => step = "job"
      BY <1>3
    <3> QED
      BY <1>1, <1>4, <1>5, <3>1 DEF EditInv, QueueInv
  <2>6. rest # <<>> /\ Head(rest) = "now" => (~mingled => row.text = r.text)
    <3>1. rest # <<>> /\ Head(rest) = "now" => step = "save" /\ h = "publish"
      BY <1>3
    <3> QED
      BY <1>1, <1>4, <1>5, <3>1 DEF EditInv, TextInv
  <2>7. ~mingled /\ ~behind /\ failures = 0 /\ page'.shown = "ready" =>
           (rest # <<>> /\ Head(rest) \in {"fetch"}) \/ Agrees(page')
    <3>1. step \in {"save", "job"} \/ step = "delete" \/ (rest # <<>> /\ Head(rest) = "fetch")
      BY <1>3, <1>7
    <3>2. step \in {"save", "job"} => Untouched(h)
      BY <1>4 DEF Untouched
    <3> QED
      BY <1>1, <2>3, <2>4, <3>1, <3>2, UntouchedAgrees DEF Agrees
  <2> QED
    BY <1>1, <1>3, <1>5, <2>4, <2>5, <2>6, <2>7, GoesOn
<1> QED
  BY <1>6, <1>7

LEMMA GiveUpKeeps == ASSUME EditInv, NEW h \in Handlers, GiveUp(h) PROVE EditInv'
<1> DEFINE step == Head(runs[h].left)
           saving == page.saving /\ step # "save"
           shown == IF step = "fetch" THEN "left" ELSE page.shown
<1>t. page \in Sheets /\ runs[h].left \in Rests(h)
  BY RunTypes DEF EditInv, EditTypes
<1>1. /\ Running(h) /\ runs[h].answer = "error"
      /\ UNCHANGED <<time, row, queue, typed, presses, failures, mingled, behind>>
      /\ runs' = [runs EXCEPT ![h] = NoRun]
      /\ page' = [page EXCEPT !.saving = saving, !.shown = shown]
  BY <1>t DEF GiveUp, Received, Sheets
<1>2. saving \in BOOLEAN /\ shown \in {"loading", "ready", "left"} /\ At(h, step)
  BY <1>t, <1>1 DEF Sheets, At
<1>3. step \in {"save", "job", "transition", "now", "fetch", "delete"}
  BY <1>t, <1>1, Advance DEF Running
<1>4. shown = "ready" => page.shown = "ready" /\ Untouched(h)
  BY <1>1, <1>2, <1>3 DEF Untouched
<1> HIDE DEF step, saving, shown
<1>5. page' \in Sheets /\ page'.status = page.status /\ page'.at = page.at /\ page'.shown = shown
  BY <1>t, <1>1, <1>2 DEF Sheets
<1>6. ~mingled /\ ~behind /\ failures = 0 /\ page'.shown = "ready" => Agrees(page')
  BY <1>1, <1>4, <1>5, UntouchedAgrees DEF Agrees
<1> QED
  BY <1>1, <1>5, <1>6, NoRunFacts, GoesOn

LEMMA EditBegins == EditInit => EditInv
<1> SUFFICES ASSUME EditInit PROVE EditInv
  OBVIOUS
<1>1. /\ time = 0 /\ row = [status |-> "draft", at |-> 0, text |-> 0] /\ queue = <<>>
      /\ page = [shown |-> "loading", status |-> "draft", at |-> 0, text |-> 0, saving |-> FALSE]
      /\ runs = [h \in Handlers |-> IF h = "load" THEN [NoRun EXCEPT !.left = Steps(h)] ELSE NoRun]
      /\ typed = 0 /\ presses = 0 /\ failures = 0 /\ mingled = FALSE /\ behind = FALSE
  BY DEF EditInit
<1>2. 0 \in Instants /\ row \in Rows /\ page \in Sheets
  BY <1>1, EditConstants DEF Instants, Rows, Sheets, ItemStatus
<1>3. \A h \in Handlers : runs[h] \in RunRecords /\ runs[h].left = (IF h = "load" THEN Steps(h) ELSE <<>>)
                          /\ runs[h].answer = "waiting"
  <2> SUFFICES ASSUME NEW h \in Handlers
               PROVE  runs[h] \in RunRecords /\ runs[h].left = (IF h = "load" THEN Steps(h) ELSE <<>>)
                      /\ runs[h].answer = "waiting"
    OBVIOUS
  <2>1. Steps(h) \in RestLists
    BY JustBegun DEF RestLists
  <2>2. CASE h = "load"
    <3>1. runs[h] = [NoRun EXCEPT !.left = Steps(h)]
      BY <1>1, <2>2
    <3> QED
      BY <2>1, <2>2, <3>1, NoRunFacts DEF RunRecords
  <2>3. CASE h # "load"
    BY <1>1, <2>3, NoRunFacts
  <2> QED
    BY <2>2, <2>3
<1>4. EditTypes
  <2>1. runs \in [Handlers -> RunRecords]
    BY <1>1, <1>3
  <2>2. \A h \in Handlers : runs[h].left \in Rests(h)
    BY <1>3, JustBegun
  <2>3. queue \in Seq(Jobs)
    BY <1>1
  <2> QED
    BY <1>1, <1>2, <2>1, <2>2, <2>3 DEF EditTypes
<1>5. QueueInv /\ ScheduledHasJob /\ TextInv
  <2>1. \A h \in Handlers : h # "load" => ~Running(h)
    BY <1>3 DEF Running
  <2>2. "publish" \in Handlers
    BY DEF Handlers
  <2> QED
    BY <1>1, <2>1, <2>2 DEF QueueInv, ScheduledHasJob, TextInv, At
<1>6. Apart
  BY <1>3 DEF Apart, Running
<1>7. ShownInv
  <2>1. page.shown = "loading" /\ \A h \in Handlers : runs[h].answer = "waiting"
    BY <1>1, <1>3
  <2> QED
    BY <2>1 DEF ShownInv
<1> QED
  BY <1>4, <1>5, <1>6, <1>7 DEF EditInv

LEMMA EditStep == EditInv /\ [EditNext]_editVars => EditInv'
<1> SUFFICES ASSUME EditInv, [EditNext]_editVars PROVE EditInv'
  OBVIOUS
<1>1. CASE UNCHANGED editVars
  <2>1. /\ UNCHANGED <<time, row, queue, page, runs, typed, presses, failures, mingled, behind>>
    BY <1>1 DEF editVars
  <2>2. EditTypes' /\ time \in Int
    BY <2>1, Facts DEF EditInv, EditTypes
  <2> QED
    BY <2>1, <2>2, QuietKeeps
<1>2. CASE EditNext
  BY <1>2, TypeTextKeeps, LeavePageKeeps, RunDueKeeps, OtherJobKeeps, PassTickKeeps, PressKeeps, ProceedKeeps,
     GiveUpKeeps, LoseRequestKeeps, ServeUpdateKeeps, ServeDeleteKeeps, ServePublishNowKeeps,
     ServeScheduleKeeps, ServeTransitionKeeps, ServeGetKeeps
  DEF EditNext
<1> QED
  BY <1>1, <1>2

LEMMA EditInvShows == EditInv => EditTypeOK /\ ScheduledHasJob /\ StatusShown
<1> SUFFICES ASSUME EditInv PROVE EditTypeOK /\ ScheduledHasJob /\ StatusShown
  OBVIOUS
<1>1. EditTypeOK
  <2>1. \A i \in DOMAIN queue : queue[i] \in Jobs
    BY Facts
  <2> QED
    BY <2>1 DEF EditInv, EditTypes, EditTypeOK, Jobs, Rows, Sheets, ItemStatus, Instants
<1> QED
  BY <1>1 DEF EditInv, ShownInv, StatusShown, Agrees

\* publish_now is answered by one step, and the text is then the one pressed with.
LEMMA PublishesShown ==
  EditInv /\ [EditNext]_editVars =>
    (row'.status = "published" /\ row.status # "published" /\ ~mingled
       /\ (\E h \in Handlers : Sends(h, "now") /\ runs'[h].answer = "ok")
     => row'.text = runs["publish"].text)
<1> SUFFICES ASSUME EditInv, [EditNext]_editVars, row'.status # row.status, ~mingled,
                    NEW h \in Handlers, Sends(h, "now"), runs'[h].answer = "ok"
             PROVE  row'.text = runs["publish"].text
  OBVIOUS
<1>1. At(h, "now") /\ Running(h) /\ runs[h].answer = "waiting"
  BY DEF Sends, At
<1>2. h = "publish"
  <2>1. runs[h].left \in Rests(h) /\ runs[h].left # <<>> /\ Head(runs[h].left) = "now"
    BY <1>1, Facts, RunTypes DEF At, Running
  <2> QED
    BY <2>1, Advance
<1>3. row.text = runs["publish"].text
  BY <1>1, <1>2 DEF EditInv, TextInv
<1>4. ASSUME row'.text # row.text PROVE FALSE
  <2>1. PICK g \in Handlers : ServeUpdate(g)
    <3>1. UNCHANGED row => FALSE
      BY <1>4
    <3>2. ~RunDueJobs
      <4>1. ASSUME RunDueJobs PROVE FALSE
        <5>1. ClaimAndExecute(queue)
          BY <4>1 DEF RunDueJobs
        <5> QED
          BY <1>4, <5>1, Facts, WorkerActs
      <4> QED
        BY <4>1
    <3>3. ASSUME NEW g \in Handlers, ServePublishNow(g) PROVE FALSE
      <4>1. NewJob("this", time) \in Jobs /\ NewJob("this", time).state = "queued"
        BY Facts DEF NewJob, Jobs
      <4>2. Append(queue, NewJob("this", time)) \in Seq(Jobs)
        BY <4>1, JobAppended
      <4>3. ClaimAndExecute(Append(queue, NewJob("this", time)))
        BY <3>3 DEF ServePublishNow
      <4> QED
        BY <1>4, <4>2, <4>3, Facts, WorkerActs
    <3>4. ASSUME NEW g \in Handlers, ServeDelete(g) \/ ServeTransition(g) PROVE FALSE
      BY <1>4, <3>4, Facts DEF ServeDelete, ServeTransition, Rows
    <3> QED
      BY <3>1, <3>2, <3>3, <3>4 DEF EditNext, editVars, TypeText, LeavePage, OtherJob, PassTick, Press,
         Proceed, Received, GiveUp, LoseRequest, ServeSchedule, ServeGet, AtServer
  <2>2. Running(g) /\ At(g, "save")
    BY <2>1 DEF ServeUpdate, Sends, At
  <2>3. g = h
    BY <1>1, <2>2, Alone
  <2> QED
    BY <1>1, <2>2, <2>3 DEF At
<1> QED
  BY <1>3, <1>4

(***************************************************************************)
(* The page that edits an item leaves none scheduled without the job for    *)
(* its time, shows the item's status and date when nothing is under way,    *)
(* and publishes the text that was on the screen (admin/content/[id],       *)
(* publishing-controls.tsx), whatever is pressed, lost or run by workers.   *)
(***************************************************************************)
THEOREM EditorTheorem == EditSpec => EditorSound
<1> DEFINE Safe == EditTypeOK /\ ScheduledHasJob /\ StatusShown
<1>1. EditInv => Safe
  BY EditInvShows
<1>2. EditInv /\ [EditNext]_editVars =>
        [row'.status = "published" /\ row.status # "published" /\ ~mingled
           /\ (\E h \in Handlers : Sends(h, "now") /\ runs'[h].answer = "ok")
         => row'.text = runs["publish"].text]_editVars
  BY PublishesShown
<1> QED
  BY <1>1, <1>2, EditBegins, EditStep, PTL DEF EditSpec, EditorSound, PublishedAsShown

-----------------------------------------------------------------------------
(* The PDF resources, and the pages that make and edit one.                *)

\* Each live resource has one place in the dict, and nothing else has.
OrderInv ==
  /\ order \in Seq(Resources)
  /\ \A k \in DOMAIN order : order[k] \in Live
  /\ \A r \in Live : \E k \in DOMAIN order : order[k] = r
  /\ \A k, l \in DOMAIN order : order[k] = order[l] => k = l

Obeys(f) == ~FieldErrors(f) /\ ~PolicyErrors(f)

StoreInv == ResourceTypeOK /\ OrderInv /\ \A r \in Live \ spoiled : Obeys(stored[r])

CallRecords == [kind: {"create", "save", "publish", "delete", "fetch"},
                state: {"sent", "done", "refused"}, form: Form, clean: BOOLEAN]
SheetRecords == [at: {"new", "edit", "left"}, of: Resources \cup {Nil}, loading: BOOLEAN,
                 saving: BOOLEAN, publishing: BOOLEAN, form: Form]

Kinds(kinds) == {i \in DOMAIN calls : calls[i].kind \in kinds}

SheetTypes ==
  /\ sheet \in SheetRecords /\ calls \in Seq(CallRecords)
  /\ others \in 0 .. MaxOthers /\ agreed \in BOOLEAN
  /\ \A i \in Kinds({"create", "save"}) : calls[i].state = "sent" => calls[i].form.slug \in SlugValues

\* Which requests may be under way, where the page is and with which flags.
FlagInv ==
  /\ \A i \in Kinds({"create"}) : DOMAIN calls = {i} /\ sheet.at # "edit"
  /\ sheet.at = "new" => Kinds({"create"}) = DOMAIN calls
  /\ sheet.at = "left" => ~sheet.loading /\ ~sheet.saving /\ ~sheet.publishing
  /\ sheet.loading => Kinds({"fetch"}) # {}
  /\ sheet.saving => Kinds({"create", "save"}) # {}
  /\ sheet.publishing => Kinds({"publish"}) # {}
  /\ sheet.at # "left" => \A i \in Kinds({"create", "save"}) :
                            sheet.saving /\ \A j \in Kinds({"create", "save"}) : i = j

\* What the form shows is what is stored, but for a PDF it does not select.
Shows(typing, r) ==
  /\ r \in Live
  /\ LET told == Filled(stored[r]) IN
     typing \in {[told EXCEPT !.auto = typing.auto], [told EXCEPT !.auto = typing.auto, !.pdf = Nil]}

\* An answer that nothing crossed still says what is stored; a save that nothing crossed
\* carries, or has stored, what the form shows.
CleanInv ==
  /\ agreed => sheet.at = "edit" /\ Shows(sheet.form, sheet.of)
  /\ \A i \in Kinds({"fetch"}) : calls[i].clean /\ calls[i].state = "done" =>
       sheet.of \in Live /\ calls[i].form = Filled(stored[sheet.of])
  /\ sheet.at = "edit" => \A i \in Kinds({"save"}) :
       /\ calls[i].clean /\ calls[i].state = "sent" => calls[i].form = sheet.form
       /\ calls[i].clean /\ calls[i].state = "done" => Shows(sheet.form, sheet.of)

PageInv == StoreInv /\ SheetTypes /\ FlagInv /\ CleanInv

LEMMA NotAbsent == \A f \in Fields : f # Absent
<1>1. \A f \in Fields : DOMAIN f = {"titled", "slug", "asset", "version", "policy"}
  BY DEF Fields
<1>2. DOMAIN Absent = {"slug"}
  BY DEF Absent
<1> QED
  BY <1>1, <1>2

LEMMA StoreFacts ==
  StoreInv => /\ stored \in [Resources -> Fields \cup {Absent}] /\ order \in Seq(Resources)
              /\ \A r \in Live : stored[r] \in Fields /\ r \in Resources
              /\ spoiled \subseteq Live
BY DEF StoreInv, ResourceTypeOK, OrderInv, Live

\* What each operation of the service leaves: the store sound, and one object changed.
LEMMA Created ==
  ASSUME StoreInv, NEW r \in Resources, NEW f \in Fields, CreateResource(r, f)
  PROVE  /\ StoreInv' /\ r \notin Live /\ Live' = Live \cup {r} /\ stored'[r] = f
         /\ \A o \in Live : stored'[o] = stored[o]
<1>1. /\ r \notin Live /\ Obeys(f) /\ stored' = [stored EXCEPT ![r] = f] /\ order' = Append(order, r)
      /\ spoiled' = spoiled
  BY DEF CreateResource, Obeys
<1>2. \A o \in Resources : stored'[o] = IF o = r THEN f ELSE stored[o]
  BY <1>1, StoreFacts
<1>3. Live' = Live \cup {r}
  BY <1>2, NotAbsent DEF Live
<1>4. ResourceTypeOK'
  BY <1>1, <1>3, StoreFacts DEF ResourceTypeOK
<1>5. OrderInv'
  <2> DEFINE n == Len(order)
  <2>1. /\ order' \in Seq(Resources) /\ n \in Nat /\ DOMAIN order = 1 .. n /\ DOMAIN order' = 1 .. n + 1
        /\ \A k \in 1 .. n + 1 : order'[k] = IF k = n + 1 THEN r ELSE order[k]
    BY <1>1, StoreFacts
  <2> HIDE DEF n
  <2>2. \A k \in 1 .. n : k \in 1 .. n + 1 /\ k # n + 1
    BY <2>1
  <2>3. n + 1 \in 1 .. n + 1 /\ \A k \in 1 .. n + 1 : k # n + 1 => k \in 1 .. n
    BY <2>1
  <2>4. /\ \A k \in 1 .. n : order[k] \in Live
        /\ \A o \in Live : \E k \in 1 .. n : order[k] = o
        /\ \A k, l \in 1 .. n : order[k] = order[l] => k = l
    BY <2>1 DEF StoreInv, OrderInv
  <2>5. \A k \in DOMAIN order' : order'[k] \in Live'
    BY <1>3, <2>1, <2>3, <2>4
  <2>6. \A o \in Live' : \E k \in DOMAIN order' : order'[k] = o
    BY <1>3, <2>1, <2>2, <2>3, <2>4
  <2>7. \A k, l \in DOMAIN order' : order'[k] = order'[l] => k = l
    BY <1>1, <2>1, <2>3, <2>4
  <2> QED
    BY <2>1, <2>5, <2>6, <2>7 DEF OrderInv
<1>6. \A o \in Live' \ spoiled' : Obeys(stored'[o])
  BY <1>1, <1>2, <1>3, StoreFacts DEF StoreInv, Live
<1>7. (\A o \in Live \ spoiled : Obeys(stored[o]))'
  BY <1>6 DEF Obeys, FieldErrors, PolicyErrors
<1> QED
  BY <1>1, <1>2, <1>3, <1>4, <1>5, <1>7 DEF StoreInv, Live

\* An assignment to a live object, with the errors that were found noted.
LEMMA Assigned ==
  ASSUME StoreInv, NEW r \in Live, NEW g \in Fields, stored' = [stored EXCEPT ![r] = g],
         order' = order, spoiled' \in {spoiled \cup {r}, spoiled, spoiled \ {r}},
         r \notin spoiled' => Obeys(g)
  PROVE  StoreInv' /\ Live' = Live /\ stored'[r] = g /\ \A o \in Live \ {r} : stored'[o] = stored[o]
<1>1. \A o \in Resources : stored'[o] = IF o = r THEN g ELSE stored[o]
  BY StoreFacts
<1>2. Live' = Live
  BY <1>1, NotAbsent DEF Live
<1>3. ResourceTypeOK'
  BY <1>2, StoreFacts DEF ResourceTypeOK
<1>4. OrderInv'
  BY <1>2 DEF StoreInv, OrderInv
<1>5. \A o \in Live' \ spoiled' : Obeys(stored'[o])
  BY <1>1, <1>2, StoreFacts DEF StoreInv
<1>6. (\A o \in Live \ spoiled : Obeys(stored[o]))'
  BY <1>5 DEF Obeys, FieldErrors, PolicyErrors
<1> QED
  BY <1>1, <1>2, <1>3, <1>4, <1>6, StoreFacts DEF StoreInv

LEMMA Updated ==
  ASSUME StoreInv, NEW r \in Resources, NEW g \in Fields, NEW named \in BOOLEAN, UpdateResource(r, g, named)
  PROVE  /\ StoreInv' /\ r \in Live /\ Live' = Live /\ stored'[r] = g
         /\ \A o \in Live \ {r} : stored'[o] = stored[o]
<1>1. /\ r \in Live /\ stored' = [stored EXCEPT ![r] = g] /\ order' = order
      /\ spoiled' \in {spoiled \cup {r}, spoiled \ {r}}
      /\ r \notin spoiled' => Obeys(g)
  BY DEF UpdateResource, Obeys
<1> QED
  BY <1>1, Assigned

LEMMA Pinned ==
  ASSUME StoreInv, NEW r \in Resources, NEW p \in PolicyValues, NEW v \in VersionValues,
         SetPinnedPolicy(r, p, v)
  PROVE  /\ StoreInv' /\ r \in Live /\ Live' = Live /\ \A o \in Live \ {r} : stored'[o] = stored[o]
<1> DEFINE g == [stored[r] EXCEPT !.policy = p, !.version = IF p = "pinned" THEN v ELSE Nil]
           w == IF p = "pinned" THEN v ELSE Nil
<1>1. /\ r \in Live /\ stored' = [stored EXCEPT ![r] = g] /\ order' = order
      /\ spoiled' = IF PolicyErrors(g) THEN spoiled \cup {r} ELSE spoiled
  BY DEF SetPinnedPolicy
<1>2. stored[r] \in Fields /\ w \in VersionValues /\ g = [stored[r] EXCEPT !.policy = p, !.version = w]
  BY <1>1, StoreFacts DEF VersionValues
<1> HIDE DEF g, w
<1>3. g \in Fields /\ g.titled = stored[r].titled /\ g.slug = stored[r].slug
  BY <1>2 DEF Fields
<1>4. r \notin spoiled' => Obeys(g)
  BY <1>1, <1>3 DEF StoreInv, Obeys, FieldErrors
<1> QED
  BY <1>1, <1>3, <1>4, Assigned

LEMMA Deleted ==
  ASSUME StoreInv, NEW r \in Resources, DeleteResource(r)
  PROVE  StoreInv' /\ Live' = Live \ {r} /\ \A o \in Live \ {r} : stored'[o] = stored[o]
<1>1. PICK i \in DOMAIN order : order[i] = r /\ order' = Dropped(order, i)
  BY DEF DeleteResource
<1>2. r \in Live /\ stored' = [stored EXCEPT ![r] = Absent] /\ spoiled' = spoiled \ {r}
  BY DEF DeleteResource
<1>3. \A o \in Resources : stored'[o] = IF o = r THEN Absent ELSE stored[o]
  BY <1>2, StoreFacts
<1>4. Live' = Live \ {r}
  BY <1>3 DEF Live
<1>5. ResourceTypeOK'
  BY <1>2, <1>4, StoreFacts DEF ResourceTypeOK
<1>6. OrderInv'
  <2>1. /\ order' \in Seq(Resources)
        /\ \A k \in DOMAIN order' : Skip(i, k) \in DOMAIN order /\ Skip(i, k) # i /\ order'[k] = order[Skip(i, k)]
        /\ \A k, l \in DOMAIN order' : Skip(i, k) = Skip(i, l) => k = l
        /\ \A m \in DOMAIN order : m # i => \E k \in DOMAIN order' : Skip(i, k) = m
    BY <1>1, StoreFacts, DroppedFacts
  <2>2. /\ \A k \in DOMAIN order : order[k] \in Live
        /\ \A o \in Live : \E k \in DOMAIN order : order[k] = o
        /\ \A k, l \in DOMAIN order : order[k] = order[l] => k = l
    BY DEF StoreInv, OrderInv
  <2>3. \A k \in DOMAIN order' : order'[k] \in Live'
    BY <1>1, <1>4, <2>1, <2>2
  <2>4. \A o \in Live' : \E k \in DOMAIN order' : order'[k] = o
    <3> SUFFICES ASSUME NEW o \in Live \ {r} PROVE \E k \in DOMAIN order' : order'[k] = o
      BY <1>4
    <3>1. PICK m \in DOMAIN order : order[m] = o
      BY <2>2
    <3>2. PICK k \in DOMAIN order' : Skip(i, k) = m
      BY <1>1, <2>1, <3>1
    <3> QED
      BY <2>1, <3>1, <3>2
  <2>5. \A k, l \in DOMAIN order' : order'[k] = order'[l] => k = l
    BY <2>1, <2>2
  <2> QED
    BY <2>1, <2>3, <2>4, <2>5 DEF OrderInv
<1>7. \A o \in Live' \ spoiled' : Obeys(stored'[o])
  BY <1>2, <1>3, <1>4, StoreFacts DEF StoreInv
<1>8. (\A o \in Live \ spoiled : Obeys(stored[o]))'
  BY <1>7 DEF Obeys, FieldErrors, PolicyErrors
<1> QED
  BY <1>3, <1>4, <1>5, <1>6, <1>8, StoreFacts DEF StoreInv

LEMMA StoreSound == StoreInv => ResourcesSound
<1> SUFFICES ASSUME StoreInv PROVE ResourcesSound
  OBVIOUS
<1>1. \A r \in Live : \E i \in DOMAIN order : \A k \in DOMAIN order : order[k] = r <=> k = i
  BY DEF StoreInv, OrderInv
<1>2. \A r \in Live \ spoiled : ~FieldErrors(stored[r]) /\ ~PolicyErrors(stored[r]) /\ stored[r].policy = "latest"
  BY StoreFacts DEF StoreInv, Obeys, PolicyErrors, Fields, PolicyValues
<1> QED
  BY <1>1, <1>2 DEF StoreInv, ResourcesSound

LEMMA StoreBegins == ResourceInit => StoreInv
BY DEF ResourceInit, StoreInv, ResourceTypeOK, OrderInv, Live

LEMMA StoreKept == StoreInv /\ [ResourceNext]_resourceVars => StoreInv'
<1> SUFFICES ASSUME StoreInv, [ResourceNext]_resourceVars PROVE StoreInv'
  OBVIOUS
<1>1. CASE UNCHANGED resourceVars
  BY <1>1 DEF resourceVars, StoreInv, ResourceTypeOK, OrderInv, Live, Obeys, FieldErrors, PolicyErrors
<1>2. CASE ResourceNext
  BY <1>2, Created, Updated, Pinned, Deleted DEF ResourceNext
<1> QED
  BY <1>1, <1>2

\* The store alone, whatever requests come (core/services/resource_pdf.py).
THEOREM ResourcesTheorem == ResourceSpec => []ResourcesSound
BY StoreBegins, StoreKept, StoreSound, PTL DEF ResourceSpec

(* The pages of a resource. *)

LEMMA SheetConstants == TypedSlugs \subseteq SlugValues /\ MaxCalls \in Nat \ {0} /\ MaxOthers \in Nat
BY ResourcePageAssumption

LEMMA CallFacts ==
  ASSUME SheetTypes, NEW i \in DOMAIN calls
  PROVE  /\ calls[i] \in CallRecords /\ calls[i].kind \in {"create", "save", "publish", "delete", "fetch"}
         /\ calls[i].state \in {"sent", "done", "refused"} /\ calls[i].form \in Form
         /\ calls[i].clean \in BOOLEAN
<1>1. calls \in Seq(CallRecords)
  BY DEF SheetTypes
<1>2. calls[i] \in CallRecords
  BY <1>1
<1> QED
  BY <1>2 DEF CallRecords

LEMMA SheetFacts ==
  SheetTypes => /\ sheet \in SheetRecords /\ sheet.form \in Form /\ sheet.of \in Resources \cup {Nil}
                /\ sheet.at \in {"new", "edit", "left"} /\ sheet.loading \in BOOLEAN
                /\ sheet.saving \in BOOLEAN /\ sheet.publishing \in BOOLEAN
                /\ calls \in Seq(CallRecords) /\ agreed \in BOOLEAN /\ others \in Nat
BY SheetConstants DEF SheetTypes, SheetRecords

LEMMA FormFacts ==
  /\ EmptyForm \in Form
  /\ \A f \in Fields : Filled(f) \in Form /\ Filled(f).auto = ""
  /\ \A f \in Form : f.slug \in SlugValues \cup {""} /\ f.titled \in BOOLEAN /\ f.pdf \in AssetValues
                     /\ f.policy \in PolicyValues
<1>1. EmptyForm \in Form
  BY DEF EmptyForm, Form, AssetValues, PolicyValues
<1>2. ASSUME NEW f \in Fields PROVE Filled(f) \in Form /\ Filled(f).auto = ""
  <2> DEFINE e == EmptyForm
  <2>1. Filled(f) = [e EXCEPT !.titled = f.titled, !.slug = f.slug, !.pdf = f.asset, !.policy = f.policy]
    BY DEF Filled
  <2>2. e \in Form /\ e.auto = ""
    BY <1>1 DEF EmptyForm
  <2> HIDE DEF e
  <2> QED
    BY <2>1, <2>2 DEF Form, Fields
<1>3. \A f \in Form : f.slug \in SlugValues \cup {""} /\ f.titled \in BOOLEAN /\ f.pdf \in AssetValues
                     /\ f.policy \in PolicyValues
  BY DEF Form
<1> QED
  BY <1>1, <1>2, <1>3

\* What a request is, whatever else of it changes.
LEMMA SameKinds ==
  ASSUME DOMAIN calls' = DOMAIN calls, \A i \in DOMAIN calls : calls'[i].kind = calls[i].kind
  PROVE  \A kinds : Kinds(kinds)' = Kinds(kinds)
BY DEF Kinds

\* The requests are the same ones, and the page has the same flags.
LEMMA SameFlags ==
  ASSUME FlagInv, DOMAIN calls' = DOMAIN calls, \A i \in DOMAIN calls : calls'[i].kind = calls[i].kind,
         sheet'.at = sheet.at, sheet'.loading = sheet.loading, sheet'.saving = sheet.saving,
         sheet'.publishing = sheet.publishing
  PROVE  FlagInv'
BY SameKinds DEF FlagInv

LEMMA ShowsSame ==
  ASSUME NEW typing, NEW r \in Live, stored'[r] = stored[r], r \in Live', Shows(typing, r)
  PROVE  Shows(typing, r)'
BY DEF Shows

LEMMA FormChangedFacts ==
  ASSUME NEW s \in Seq(CallRecords)
  PROVE  /\ FormChanged(s) \in Seq(CallRecords) /\ DOMAIN FormChanged(s) = DOMAIN s
         /\ \A i \in DOMAIN s : /\ FormChanged(s)[i].kind = s[i].kind /\ FormChanged(s)[i].state = s[i].state
                                /\ FormChanged(s)[i].form = s[i].form
                                /\ FormChanged(s)[i].clean = (s[i].clean /\ s[i].kind # "save")
<1> DEFINE c(i) == IF s[i].kind = "save" THEN [s[i] EXCEPT !.clean = FALSE] ELSE s[i]
<1>1. ASSUME NEW i \in DOMAIN s
      PROVE  /\ c(i) \in CallRecords /\ c(i).kind = s[i].kind /\ c(i).state = s[i].state
             /\ c(i).form = s[i].form /\ c(i).clean = (s[i].clean /\ s[i].kind # "save")
  <2>1. s[i] \in CallRecords
    OBVIOUS
  <2> QED
    BY <2>1 DEF CallRecords
<1>2. FormChanged(s) = [i \in DOMAIN s |-> c(i)]
  BY DEF FormChanged
<1> HIDE DEF c
<1>3. DOMAIN s = 1 .. Len(s) /\ Len(s) \in Nat
  OBVIOUS
<1>4. FormChanged(s) \in Seq(CallRecords)
  BY <1>1, <1>2, <1>3
<1> QED
  BY <1>1, <1>2, <1>4

LEMMA StoreChangedFacts ==
  ASSUME NEW s \in Seq(CallRecords), NEW kinds
  PROVE  LET w == StoreChanged(s, kinds) IN
         /\ w \in Seq(CallRecords) /\ DOMAIN w = DOMAIN s
         /\ \A i \in DOMAIN s : /\ w[i].kind = s[i].kind /\ w[i].state = s[i].state /\ w[i].form = s[i].form
                                /\ w[i].clean = (s[i].clean /\ ~(s[i].kind \in kinds /\ s[i].state # "sent"))
<1> DEFINE c(i) == IF s[i].kind \in kinds /\ s[i].state # "sent" THEN [s[i] EXCEPT !.clean = FALSE] ELSE s[i]
           w == StoreChanged(s, kinds)
<1>1. ASSUME NEW i \in DOMAIN s
      PROVE  /\ c(i) \in CallRecords /\ c(i).kind = s[i].kind /\ c(i).state = s[i].state
             /\ c(i).form = s[i].form
             /\ c(i).clean = (s[i].clean /\ ~(s[i].kind \in kinds /\ s[i].state # "sent"))
  <2>1. s[i] \in CallRecords
    OBVIOUS
  <2>2. CASE s[i].kind \in kinds /\ s[i].state # "sent"
    BY <2>1, <2>2 DEF CallRecords
  <2>3. CASE ~(s[i].kind \in kinds /\ s[i].state # "sent")
    BY <2>1, <2>3 DEF CallRecords
  <2> QED
    BY <2>2, <2>3
<1>2. w = [i \in DOMAIN s |-> c(i)]
  BY DEF StoreChanged
<1> HIDE DEF c, w
<1>3. DOMAIN s = 1 .. Len(s) /\ Len(s) \in Nat
  OBVIOUS
<1>4. w \in Seq(CallRecords)
  BY <1>1, <1>2, <1>3
<1> QED
  BY <1>1, <1>2, <1>4 DEF w

\* An answer in a list of requests.
Answer(s, i, state, typing) == [s EXCEPT ![i].state = state, ![i].form = typing]

Tells(w, s, i, state, typing) ==
  /\ w \in Seq(CallRecords) /\ DOMAIN w = DOMAIN s
  /\ \A k \in DOMAIN s : w[k].kind = s[k].kind /\ w[k].clean = s[k].clean
  /\ w[i].state = state /\ w[i].form = typing
  /\ \A k \in DOMAIN s : k # i => w[k] = s[k]

LEMMA AnswerFacts ==
  ASSUME NEW s \in Seq(CallRecords), NEW i \in DOMAIN s, NEW state \in {"sent", "done", "refused"}, NEW typing \in Form
  PROVE  Tells(Answer(s, i, state, typing), s, i, state, typing)
<1> DEFINE c == [s[i] EXCEPT !.state = state, !.form = typing]
           w == [s EXCEPT ![i] = c]
<1>1. s[i] \in CallRecords
  OBVIOUS
<1>2. c \in CallRecords /\ c.kind = s[i].kind /\ c.clean = s[i].clean /\ c.state = state /\ c.form = typing
  BY <1>1 DEF CallRecords
<1>3. Answer(s, i, state, typing) = w
  BY DEF Answer
<1> HIDE DEF c
<1>4. w \in Seq(CallRecords) /\ DOMAIN w = DOMAIN s /\ \A k \in DOMAIN s : w[k] = IF k = i THEN c ELSE s[k]
  BY <1>2
<1> HIDE DEF w
<1> QED
  BY <1>2, <1>3, <1>4 DEF Tells

LEMMA AnsweredFacts ==
  ASSUME SheetTypes, NEW i \in DOMAIN calls, NEW state \in {"sent", "done", "refused"}
  PROVE  Tells(Answered(i, state), calls, i, state, EmptyForm)
<1>1. calls \in Seq(CallRecords) /\ EmptyForm \in Form
  BY FormFacts DEF SheetTypes
<1>2. Answered(i, state) = Answer(calls, i, state, EmptyForm)
  BY DEF Answered, Answer
<1> QED
  BY <1>1, <1>2, AnswerFacts

LEMMA FillKeeps ==
  ASSUME PageInv, NEW typing \in Form, Fill(typing) PROVE PageInv'
<1>1. /\ sheet' = [sheet EXCEPT !.form = typing] /\ calls' = FormChanged(calls) /\ agreed' = FALSE
      /\ UNCHANGED <<stored, order, spoiled, others>>
  BY DEF Fill, resourceVars
<1>t. SheetTypes
  BY DEF PageInv
<1>2. /\ sheet' \in SheetRecords /\ sheet'.form = typing /\ sheet'.of = sheet.of /\ sheet'.at = sheet.at
      /\ sheet'.loading = sheet.loading /\ sheet'.saving = sheet.saving
      /\ sheet'.publishing = sheet.publishing
  BY <1>1, <1>t, SheetFacts DEF SheetRecords
<1>3. /\ calls' \in Seq(CallRecords) /\ DOMAIN calls' = DOMAIN calls
      /\ \A i \in DOMAIN calls : /\ calls'[i].kind = calls[i].kind /\ calls'[i].state = calls[i].state
                                 /\ calls'[i].form = calls[i].form
                                 /\ calls'[i].clean = (calls[i].clean /\ calls[i].kind # "save")
  BY <1>1, <1>t, SheetFacts, FormChangedFacts
<1>4. \A kinds : Kinds(kinds)' = Kinds(kinds)
  BY <1>3, SameKinds
<1>5. StoreInv'
  BY <1>1 DEF PageInv, StoreInv, ResourceTypeOK, OrderInv, Live, Obeys, FieldErrors, PolicyErrors
<1>6. SheetTypes'
  BY <1>1, <1>2, <1>3, <1>4 DEF PageInv, SheetTypes, Kinds
<1>7. FlagInv'
  BY <1>2, <1>3, SameFlags DEF PageInv
<1>8. CleanInv'
  <2>0. /\ Live' = Live /\ stored' = stored /\ sheet'.of = sheet.of /\ Kinds({"fetch"})' = Kinds({"fetch"})
        /\ Filled(stored[sheet.of])' = Filled(stored[sheet.of])
    BY <1>1, <1>2, <1>4 DEF Live, Filled, EmptyForm
  <2>1. ASSUME NEW i \in Kinds({"fetch"})', calls'[i].clean, calls'[i].state = "done"
        PROVE  (sheet.of \in Live)' /\ calls'[i].form = Filled(stored[sheet.of])'
    <3>1. i \in Kinds({"fetch"}) /\ i \in DOMAIN calls
      BY <2>0 DEF Kinds
    <3>2. calls[i].clean /\ calls[i].state = "done" /\ calls'[i].form = calls[i].form
      BY <1>3, <2>1, <3>1
    <3>3. sheet.of \in Live /\ calls[i].form = Filled(stored[sheet.of])
      BY <3>1, <3>2 DEF PageInv, CleanInv
    <3> QED
      BY <2>0, <3>2, <3>3
  <2>2. \A i \in Kinds({"save"})' : ~calls'[i].clean
    BY <1>3 DEF Kinds
  <2> QED
    BY <1>1, <2>1, <2>2 DEF CleanInv
<1> QED
  BY <1>5, <1>6, <1>7, <1>8 DEF PageInv

LEMMA TypingKeeps ==
  ASSUME PageInv,
         \/ \E titled \in BOOLEAN, auto \in Slugs \cup {""} : TypeTitle(titled, auto)
         \/ \E slug \in TypedSlugs \cup {""} : TypeSlug(slug)
         \/ \E pdf \in PdfAssets \cup {Nil} : ChoosePdf(pdf)
         \/ ChooseLatest
  PROVE  PageInv'
<1> DEFINE old == sheet.form
<1>0. old \in Form
  BY SheetFacts DEF PageInv
<1>1. ASSUME NEW titled \in BOOLEAN, NEW auto \in Slugs \cup {""}, TypeTitle(titled, auto) PROVE PageInv'
  <2> DEFINE slug == IF old.slug \in {"", old.auto} THEN auto ELSE old.slug
  <2>1. slug \in SlugValues \cup {""}
    BY <1>0 DEF Form, SlugValues
  <2>2. CASE sheet.at = "new"
    <3>1. Fill([old EXCEPT !.titled = titled, !.auto = auto, !.slug = slug])
      BY <1>0, <1>1, <2>2 DEF TypeTitle, Form
    <3> HIDE DEF old, slug
    <3>2. [old EXCEPT !.titled = titled, !.auto = auto, !.slug = slug] \in Form
      BY <1>0, <2>1 DEF Form
    <3> QED
      BY <3>1, <3>2, FillKeeps
  <2>3. CASE sheet.at # "new"
    <3>1. Fill([old EXCEPT !.titled = titled])
      BY <1>1, <2>3 DEF TypeTitle
    <3> HIDE DEF old
    <3>2. [old EXCEPT !.titled = titled] \in Form
      BY <1>0 DEF Form
    <3> QED
      BY <3>1, <3>2, FillKeeps
  <2> QED
    BY <2>2, <2>3
<1>2. ASSUME NEW slug \in TypedSlugs \cup {""}, TypeSlug(slug) PROVE PageInv'
  <2>1. [old EXCEPT !.slug = slug] \in Form
    BY <1>0, SheetConstants DEF Form
  <2> QED
    BY <1>2, <2>1, FillKeeps DEF TypeSlug
<1>3. ASSUME NEW pdf \in PdfAssets \cup {Nil}, ChoosePdf(pdf) PROVE PageInv'
  <2>1. [old EXCEPT !.pdf = pdf] \in Form
    BY <1>0 DEF Form, AssetValues
  <2> QED
    BY <1>3, <2>1, FillKeeps DEF ChoosePdf
<1>4. CASE ChooseLatest
  <2>1. [old EXCEPT !.policy = "latest"] \in Form
    BY <1>0 DEF Form, PolicyValues
  <2> QED
    BY <1>4, <2>1, FillKeeps DEF ChooseLatest
<1> QED
  BY <1>1, <1>2, <1>3, <1>4

\* Nothing but a request more: its kind must be one the page may send.
LEMMA SendKeeps ==
  ASSUME PageInv, NEW c \in CallRecords, NEW filled, Send(c, filled), filled \in SheetRecords,
         filled.at = sheet.at, filled.of = sheet.of, filled.form = sheet.form, filled.loading = sheet.loading,
         c.state = "sent",
         c.kind \in {"create", "save"} =>
           /\ c.form = sheet.form /\ sheet.form.slug \in SlugValues
           /\ ~sheet.saving /\ filled.saving /\ sheet.at # "left"
           /\ (c.kind = "create" <=> sheet.at = "new"),
         c.kind \notin {"create", "save"} => filled.saving = sheet.saving,
         c.kind # "create" => sheet.at # "new",
         c.kind = "create" \/ sheet.at = "edit",
         filled.publishing => (c.kind = "publish" \/ sheet.publishing)
  PROVE  PageInv'
<1>1. /\ sheet' = filled /\ calls' = Append(calls, c)
      /\ UNCHANGED <<stored, order, spoiled, others, agreed>>
  BY DEF Send, resourceVars
<1>t. SheetTypes /\ FlagInv /\ calls \in Seq(CallRecords)
  BY SheetFacts DEF PageInv
<1> DEFINE n == Len(calls) + 1
<1>2. /\ calls' \in Seq(CallRecords) /\ n \notin DOMAIN calls /\ DOMAIN calls' = DOMAIN calls \cup {n}
      /\ calls'[n] = c /\ \A i \in DOMAIN calls : calls'[i] = calls[i]
  BY <1>1, <1>t, AppendedFacts
<1> HIDE DEF n
<1>3. \A kinds : Kinds(kinds)' = Kinds(kinds) \cup (IF c.kind \in kinds THEN {n} ELSE {})
  BY <1>2 DEF Kinds
<1>4. StoreInv'
  BY <1>1 DEF PageInv, StoreInv, ResourceTypeOK, OrderInv, Live, Obeys, FieldErrors, PolicyErrors
<1>5. SheetTypes'
  BY <1>1, <1>2, <1>3, <1>t DEF SheetTypes, Kinds
<1>6. FlagInv'
  <2>1. CASE c.kind = "create"
    <3>1. sheet.at = "new" /\ Kinds({"create", "save"}) = {} /\ DOMAIN calls = {}
      <4>1. sheet.at = "new" /\ Kinds({"create", "save"}) = {} /\ Kinds({"create"}) = DOMAIN calls
        BY <1>t, <2>1 DEF FlagInv
      <4> QED
        BY <4>1 DEF Kinds
    <3>2. DOMAIN calls' = {n} /\ Kinds({"create"})' = {n} /\ Kinds({"create", "save"})' = {n}
      BY <1>2, <1>3, <2>1, <3>1 DEF Kinds
    <3>3. ~sheet.loading /\ ~sheet.publishing
      BY <1>t, <3>1 DEF FlagInv, Kinds
    <3> QED
      BY <1>1, <2>1, <3>1, <3>2, <3>3 DEF FlagInv
  <2>2. CASE c.kind = "save"
    <3>1. sheet.at = "edit" /\ Kinds({"create", "save"}) = {}
      BY <1>t, <2>2 DEF FlagInv
    <3>2. Kinds({"create", "save"})' = {n} /\ Kinds({"create"})' = Kinds({"create"})
      BY <1>3, <2>2, <3>1
    <3>3. Kinds({"create"}) = {}
      BY <3>1 DEF Kinds
    <3> QED
      BY <1>1, <1>3, <1>t, <2>2, <3>1, <3>2, <3>3 DEF FlagInv
  <2>3. CASE c.kind \notin {"create", "save"}
    <3>1. sheet.at = "edit" /\ Kinds({"create"}) = {}
      BY <1>t, <2>3 DEF FlagInv
    <3>2. Kinds({"create", "save"})' = Kinds({"create", "save"}) /\ Kinds({"create"})' = {}
      BY <1>3, <2>3, <3>1
    <3> QED
      BY <1>1, <1>3, <1>t, <2>3, <3>1, <3>2 DEF FlagInv
  <2> QED
    BY <2>1, <2>2, <2>3
<1>7. CleanInv'
  <2>0. \A typing : Shows(typing, sheet.of) => Shows(typing, sheet.of)'
    BY <1>1 DEF Shows, Live
  <2>1. \A i \in Kinds({"fetch"})' : calls'[i].clean /\ calls'[i].state = "done" =>
           (sheet.of \in Live)' /\ calls'[i].form = Filled(stored[sheet.of])'
    BY <1>1, <1>2, <1>3 DEF PageInv, CleanInv, Kinds, Live
  <2>2. sheet.at = "edit" => \A i \in Kinds({"save"})' :
          /\ calls'[i].clean /\ calls'[i].state = "sent" => calls'[i].form = sheet.form
          /\ calls'[i].clean /\ calls'[i].state = "done" => Shows(sheet.form, sheet.of)'
    BY <1>1, <1>2, <1>3, <2>0 DEF PageInv, CleanInv, Kinds
  <2> QED
    BY <1>1, <2>0, <2>1, <2>2 DEF PageInv, CleanInv
<1> QED
  BY <1>4, <1>5, <1>6, <1>7 DEF PageInv

LEMMA PressesKeep == ASSUME PageInv, Save \/ PublishPressed \/ DeletePressed PROVE PageInv'
<1>t. SheetTypes
  BY DEF PageInv
<1>1. CASE Save
  <2> DEFINE kind == IF sheet.at = "new" THEN "create" ELSE "save"
             c == Call(kind, sheet.form)
             filled == [sheet EXCEPT !.saving = TRUE]
  <2>1. /\ sheet.at # "left" /\ ~sheet.saving /\ sheet.form.slug # "" /\ Send(c, filled)
    BY <1>1 DEF Save
  <2>2. c \in CallRecords /\ c.kind = kind /\ c.state = "sent" /\ c.form = sheet.form
    BY <1>t, SheetFacts DEF Call, CallRecords
  <2>3. /\ filled \in SheetRecords /\ filled.at = sheet.at /\ filled.of = sheet.of /\ filled.form = sheet.form
        /\ filled.loading = sheet.loading /\ filled.saving = TRUE /\ filled.publishing = sheet.publishing
    BY <1>t, SheetFacts DEF SheetRecords
  <2>4. sheet.form.slug \in SlugValues
    BY <1>t, <2>1, SheetFacts, FormFacts
  <2>5. sheet.at \in {"new", "edit"}
    BY <1>t, <2>1, SheetFacts
  <2>6. (kind = "create" <=> sheet.at = "new") /\ (kind = "save" <=> sheet.at # "new")
    OBVIOUS
  <2> HIDE DEF kind, c, filled
  <2> QED
    BY <2>1, <2>2, <2>3, <2>4, <2>5, <2>6, SendKeeps
<1>2. CASE PublishPressed
  <2> DEFINE c == Call("publish", EmptyForm)
             filled == [sheet EXCEPT !.publishing = TRUE]
  <2>1. sheet.at = "edit" /\ Send(c, filled)
    BY <1>2 DEF PublishPressed
  <2>2. c \in CallRecords /\ c.kind = "publish" /\ c.state = "sent"
    BY FormFacts DEF Call, CallRecords
  <2>3. /\ filled \in SheetRecords /\ filled.at = sheet.at /\ filled.of = sheet.of /\ filled.form = sheet.form
        /\ filled.loading = sheet.loading /\ filled.saving = sheet.saving
    BY <1>t, SheetFacts DEF SheetRecords
  <2> HIDE DEF c, filled
  <2> QED
    BY <2>1, <2>2, <2>3, SendKeeps
<1>3. CASE DeletePressed
  <2> DEFINE c == Call("delete", EmptyForm)
  <2>1. sheet.at = "edit" /\ Send(c, sheet) /\ sheet \in SheetRecords
    BY <1>3, <1>t, SheetFacts DEF DeletePressed
  <2>2. c \in CallRecords /\ c.kind = "delete" /\ c.state = "sent"
    BY FormFacts DEF Call, CallRecords
  <2> HIDE DEF c
  <2> QED
    BY <2>1, <2>2, SendKeeps
<1> QED
  BY <1>1, <1>2, <1>3

LEMMA GoneFacts ==
  SheetTypes => /\ Gone \in SheetRecords /\ Gone.at = "left" /\ ~Gone.loading /\ ~Gone.saving
                /\ ~Gone.publishing /\ Gone.of = sheet.of /\ Gone.form = EmptyForm
<1> SUFFICES ASSUME SheetTypes
             PROVE  /\ Gone \in SheetRecords /\ Gone.at = "left" /\ ~Gone.loading /\ ~Gone.saving
                    /\ ~Gone.publishing /\ Gone.of = sheet.of /\ Gone.form = EmptyForm
  OBVIOUS
<1> DEFINE e == EmptyForm
<1>1. sheet \in SheetRecords /\ e \in Form
  BY SheetFacts, FormFacts
<1>2. Gone = [sheet EXCEPT !.at = "left", !.loading = FALSE, !.saving = FALSE, !.publishing = FALSE,
                      !.form = e]
  BY DEF Gone
<1> HIDE DEF e
<1>3. /\ Gone \in SheetRecords /\ Gone.at = "left" /\ ~Gone.loading /\ ~Gone.saving
      /\ ~Gone.publishing /\ Gone.of = sheet.of /\ Gone.form = e
  BY <1>1, <1>2 DEF SheetRecords
<1> QED
  BY <1>3 DEF e

LEMMA LeaveSheetKeeps == ASSUME PageInv, LeaveSheet PROVE PageInv'
<1>1. /\ sheet' = Gone /\ agreed' = FALSE /\ UNCHANGED <<stored, order, spoiled, calls, others>>
  BY DEF LeaveSheet, resourceVars
<1>t. SheetTypes /\ FlagInv /\ CleanInv
  BY DEF PageInv
<1>2. /\ sheet' \in SheetRecords /\ sheet'.at = "left" /\ ~sheet'.loading /\ ~sheet'.saving
      /\ ~sheet'.publishing /\ sheet'.of = sheet.of
  BY <1>1, <1>t, GoneFacts
<1>3. \A kinds : Kinds(kinds)' = Kinds(kinds)
  BY <1>1 DEF Kinds
<1>4. StoreInv'
  BY <1>1 DEF PageInv, StoreInv, ResourceTypeOK, OrderInv, Live, Obeys, FieldErrors, PolicyErrors
<1>5. SheetTypes'
  BY <1>1, <1>2, <1>3, <1>t DEF SheetTypes
<1>6. FlagInv'
  BY <1>1, <1>2, <1>3, <1>t DEF FlagInv
<1>7. CleanInv'
  BY <1>1, <1>2, <1>3, <1>t DEF CleanInv, Live
<1> QED
  BY <1>4, <1>5, <1>6, <1>7 DEF PageInv

LEMMA StateFacts ==
  ASSUME NEW s \in Seq(CallRecords), NEW i \in DOMAIN s, NEW state \in {"sent", "done", "refused"}
  PROVE  LET w == [s EXCEPT ![i].state = state] IN
         /\ w \in Seq(CallRecords) /\ DOMAIN w = DOMAIN s
         /\ \A k \in DOMAIN s : w[k].kind = s[k].kind /\ w[k].clean = s[k].clean
         /\ w[i].state = state /\ w[i].form = s[i].form
         /\ \A k \in DOMAIN s : k # i => w[k] = s[k]
<1> DEFINE c == [s[i] EXCEPT !.state = state]
           w == [s EXCEPT ![i] = c]
<1>1. s[i] \in CallRecords
  OBVIOUS
<1>2. c \in CallRecords /\ c.kind = s[i].kind /\ c.clean = s[i].clean /\ c.state = state /\ c.form = s[i].form
  BY <1>1 DEF CallRecords
<1>3. [s EXCEPT ![i].state = state] = w
  OBVIOUS
<1> HIDE DEF c
<1>4. w \in Seq(CallRecords) /\ DOMAIN w = DOMAIN s /\ \A k \in DOMAIN s : w[k] = IF k = i THEN c ELSE s[k]
  BY <1>2
<1> HIDE DEF w
<1> QED
  BY <1>2, <1>3, <1>4

\* What the server does leaves the page's flags alone: no request is added or dropped, and
\* only the one it serves is answered.
LEMMA ServedKeeps ==
  ASSUME PageInv, NEW P, P \subseteq DOMAIN calls,
         calls' \in Seq(CallRecords), DOMAIN calls' = DOMAIN calls,
         \A k \in DOMAIN calls : calls'[k].kind = calls[k].kind,
         \A k \in DOMAIN calls \ P : calls'[k].state = calls[k].state /\ calls'[k].form = calls[k].form,
         \A k \in P : calls'[k].state # "sent",
         sheet' \in SheetRecords, sheet'.at = sheet.at, sheet'.loading = sheet.loading,
         sheet'.saving = sheet.saving, sheet'.publishing = sheet.publishing,
         others' \in 0 .. MaxOthers, agreed' \in BOOLEAN, StoreInv', CleanInv'
  PROVE  PageInv'
<1>1. \A kinds : Kinds(kinds)' = Kinds(kinds)
  BY SameKinds
<1>2. \A i \in Kinds({"create", "save"}) :
         calls'[i].state = "sent" => calls'[i].form.slug \in SlugValues
  BY DEF PageInv, SheetTypes, Kinds
<1>3. SheetTypes'
  BY <1>1, <1>2 DEF SheetTypes
<1>4. FlagInv'
  BY SameFlags DEF PageInv
<1> QED
  BY <1>3, <1>4 DEF PageInv

\* With the store, the page and the requests that are not served as they were, the only
\* question is what the one that is served says.
LEMMA CleanServed ==
  ASSUME PageInv, NEW i \in DOMAIN calls, UNCHANGED <<resourceVars, sheet, agreed>>,
         DOMAIN calls' = DOMAIN calls,
         \A k \in DOMAIN calls : calls'[k].kind = calls[k].kind,
         \A k \in DOMAIN calls : k # i => calls'[k] = calls[k],
         calls[i].kind \in {"create", "publish", "delete"} \/ calls'[i].state = "refused"
         \/ /\ calls[i].kind = "fetch" /\ sheet.of \in Live
            /\ calls'[i].form = Filled(stored[sheet.of])
  PROVE  CleanInv'
<1>0. CleanInv
  BY DEF PageInv
<1>1. \A kinds : Kinds(kinds)' = Kinds(kinds)
  BY SameKinds
<1>2. /\ Live' = Live /\ sheet' = sheet /\ agreed' = agreed
      /\ Filled(stored[sheet.of])' = Filled(stored[sheet.of])
      /\ Shows(sheet.form, sheet.of)' = Shows(sheet.form, sheet.of)
  BY DEF resourceVars, Live, Filled, EmptyForm, Shows
<1>3. agreed' => sheet'.at = "edit" /\ Shows(sheet.form, sheet.of)'
  BY <1>0, <1>2 DEF CleanInv
<1>4. ASSUME NEW k \in Kinds({"fetch"})', calls'[k].clean, calls'[k].state = "done"
      PROVE  (sheet.of \in Live)' /\ calls'[k].form = Filled(stored[sheet.of])'
  <2>1. k \in Kinds({"fetch"}) /\ k \in DOMAIN calls /\ calls[k].kind = "fetch"
    BY <1>1 DEF Kinds
  <2>2. CASE k = i
    BY <1>2, <1>4, <2>1, <2>2
  <2>3. CASE k # i
    BY <1>0, <1>2, <1>4, <2>1, <2>3 DEF CleanInv
  <2> QED
    BY <2>2, <2>3
<1>5. ASSUME sheet.at = "edit", NEW k \in Kinds({"save"})'
      PROVE  /\ calls'[k].clean /\ calls'[k].state = "sent" => calls'[k].form = sheet.form
             /\ calls'[k].clean /\ calls'[k].state = "done" => Shows(sheet.form, sheet.of)
  <2>1. k \in Kinds({"save"}) /\ k \in DOMAIN calls /\ calls[k].kind = "save"
    BY <1>1 DEF Kinds
  <2>2. CASE k = i
    BY <2>1, <2>2
  <2>3. CASE k # i
    BY <1>0, <1>5, <2>1, <2>3 DEF CleanInv
  <2> QED
    BY <2>2, <2>3
<1> QED
  BY <1>2, <1>3, <1>4, <1>5 DEF CleanInv

\* A request that is refused, or whose answer says nothing.
LEMMA AnsweredKeeps ==
  ASSUME PageInv, NEW i \in DOMAIN calls, NEW state \in {"done", "refused"}, calls' = Answered(i, state),
         state = "refused" \/ calls[i].kind \in {"create", "publish", "delete"},
         UNCHANGED <<resourceVars, sheet, agreed>>, others' \in 0 .. MaxOthers
  PROVE  PageInv'
<1>t. SheetTypes /\ sheet' = sheet /\ sheet \in SheetRecords /\ agreed' \in BOOLEAN
  BY SheetFacts DEF PageInv
<1>1. /\ calls' \in Seq(CallRecords) /\ DOMAIN calls' = DOMAIN calls
      /\ \A k \in DOMAIN calls : calls'[k].kind = calls[k].kind /\ calls'[k].clean = calls[k].clean
      /\ calls'[i].state = state /\ calls'[i].form = EmptyForm
      /\ \A k \in DOMAIN calls : k # i => calls'[k] = calls[k]
  BY <1>t, AnsweredFacts DEF Tells
<1>2. CleanInv'
  BY <1>1, CleanServed
<1>3. StoreInv'
  BY DEF PageInv, StoreInv, ResourceTypeOK, OrderInv, Live, Obeys, FieldErrors, PolicyErrors, resourceVars
<1> DEFINE P == {i}
<1>4. P \subseteq DOMAIN calls /\ \A k \in P : calls'[k].state # "sent"
  BY <1>1
<1>5. \A k \in DOMAIN calls \ P : calls'[k].state = calls[k].state /\ calls'[k].form = calls[k].form
  BY <1>1
<1> HIDE DEF P
<1> QED
  BY <1>1, <1>2, <1>3, <1>4, <1>5, <1>t, ServedKeeps

LEMMA ServeAskedKeeps == ASSUME PageInv, NEW i \in DOMAIN calls, ServeAsked(i) \/ LoseCall(i) PROVE PageInv'
<1>t. SheetTypes /\ calls \in Seq(CallRecords) /\ sheet \in SheetRecords /\ agreed \in BOOLEAN
      /\ others \in 0 .. MaxOthers
  BY SheetFacts DEF PageInv, SheetTypes
<1>1. CASE LoseCall(i)
  <2>1. others' \in 0 .. MaxOthers
    BY <1>1, <1>t, SheetConstants DEF LoseCall
  <2> QED
    BY <1>1, <2>1, AnsweredKeeps DEF LoseCall
<1>2. CASE ServeAsked(i) /\ (calls[i].kind = "publish" \/ sheet.of \notin Live)
  <2>1. UNCHANGED <<resourceVars, sheet, agreed>> /\ others' = others
    BY <1>2 DEF ServeAsked
  <2>2. \/ calls[i].kind = "publish" /\ calls' = Answered(i, "done")
        \/ calls' = Answered(i, "refused")
    BY <1>2 DEF ServeAsked
  <2> QED
    BY <1>t, <2>1, <2>2, AnsweredKeeps
<1>3. CASE ServeAsked(i) /\ calls[i].kind # "publish" /\ sheet.of \in Live
  <2> DEFINE told == Filled(stored[sheet.of])
  <2>1. /\ calls[i].kind = "fetch" /\ calls' = [calls EXCEPT ![i].state = "done", ![i].form = told]
        /\ UNCHANGED <<resourceVars, sheet, agreed>> /\ others' = others /\ sheet' = sheet
    BY <1>3 DEF ServeAsked
  <2>2. told \in Form
    BY <1>3, StoreFacts, FormFacts DEF PageInv
  <2> HIDE DEF told
  <2>3. /\ calls' \in Seq(CallRecords) /\ DOMAIN calls' = DOMAIN calls
        /\ \A k \in DOMAIN calls : calls'[k].kind = calls[k].kind /\ calls'[k].clean = calls[k].clean
        /\ calls'[i].state = "done" /\ calls'[i].form = told
        /\ \A k \in DOMAIN calls : k # i => calls'[k] = calls[k]
    <3>1. calls' = Answer(calls, i, "done", told)
      BY <2>1 DEF Answer
    <3>2. Tells(calls', calls, i, "done", told)
      BY <1>t, <2>2, <3>1, AnswerFacts
    <3> QED
      BY <3>2 DEF Tells
  <2>4. CleanInv'
    BY <1>3, <2>1, <2>3, CleanServed DEF told
  <2>5. StoreInv'
    BY <2>1 DEF PageInv, StoreInv, ResourceTypeOK, OrderInv, Live, Obeys, FieldErrors, PolicyErrors, resourceVars
  <2> DEFINE P == {i}
  <2>6. P \subseteq DOMAIN calls /\ \A k \in P : calls'[k].state # "sent"
    BY <2>3
  <2>7. \A k \in DOMAIN calls \ P : calls'[k].state = calls[k].state /\ calls'[k].form = calls[k].form
    BY <2>3
  <2> HIDE DEF P
  <2>8. agreed' \in BOOLEAN /\ others' \in 0 .. MaxOthers /\ sheet' \in SheetRecords
    BY <1>t, <2>1
  <2> QED
    BY <2>1, <2>3, <2>4, <2>5, <2>6, <2>7, <2>8, ServedKeeps
<1> QED
  BY <1>1, <1>2, <1>3

LEMMA NotSaved == ASSUME PageInv, NEW i \in DOMAIN calls, calls[i].kind = "create"
                  PROVE  DOMAIN calls = {i} /\ sheet.at # "edit" /\ ~agreed /\ ~sheet.loading /\ ~sheet.publishing
<1>1. i \in Kinds({"create"})
  BY DEF Kinds
<1>2. DOMAIN calls = {i} /\ sheet.at # "edit"
  BY <1>1 DEF PageInv, FlagInv
<1>3. Kinds({"fetch"}) = {} /\ Kinds({"publish"}) = {}
  BY <1>2 DEF Kinds
<1> QED
  BY <1>2, <1>3 DEF PageInv, FlagInv, CleanInv

LEMMA BodyFacts ==
  ASSUME NEW typing \in Form, NEW old \in Fields \cup {New}, typing.slug \in SlugValues
  PROVE  /\ Body(typing, old) \in Fields
         /\ Body(typing, old).titled = typing.titled /\ Body(typing, old).slug = typing.slug
         /\ Body(typing, old).policy = typing.policy
         /\ Body(typing, old).asset = IF typing.pdf = Nil THEN old.asset ELSE typing.pdf
<1>1. typing.titled \in BOOLEAN /\ typing.policy \in PolicyValues /\ typing.pdf \in AssetValues
  BY FormFacts
<1>2. old.version \in VersionValues /\ old.asset \in AssetValues
  BY DEF Fields, New, VersionValues, AssetValues
<1> QED
  BY <1>1, <1>2 DEF Body, Fields

LEMMA SameForm ==
  ASSUME NEW f \in Form, NEW g \in Form, f.titled = g.titled, f.slug = g.slug, f.auto = g.auto,
         f.pdf = g.pdf, f.policy = g.policy
  PROVE  f = g
<1>1. ASSUME NEW h \in Form
      PROVE  h = [titled |-> h.titled, slug |-> h.slug, auto |-> h.auto, pdf |-> h.pdf, policy |-> h.policy]
  BY Zenon DEF Form
<1> QED
  BY <1>1

LEMMA RetoldFacts ==
  ASSUME NEW t \in Form, NEW auto \in Slugs \cup {""}
  PROVE  LET v == [t EXCEPT !.auto = auto]
             w == [t EXCEPT !.auto = auto, !.pdf = Nil] IN
         /\ v \in Form /\ v.titled = t.titled /\ v.slug = t.slug /\ v.auto = auto /\ v.pdf = t.pdf
         /\ v.policy = t.policy
         /\ w \in Form /\ w.titled = t.titled /\ w.slug = t.slug /\ w.auto = auto /\ w.pdf = Nil
         /\ w.policy = t.policy
BY DEF Form, AssetValues

LEMMA FilledFacts ==
  ASSUME NEW f \in Fields
  PROVE  /\ Filled(f).titled = f.titled /\ Filled(f).slug = f.slug /\ Filled(f).pdf = f.asset
         /\ Filled(f).policy = f.policy
<1> DEFINE e == EmptyForm
<1>1. Filled(f) = [e EXCEPT !.titled = f.titled, !.slug = f.slug, !.pdf = f.asset, !.policy = f.policy]
  BY DEF Filled
<1>2. e \in Form
  BY FormFacts
<1> HIDE DEF e
<1> QED
  BY <1>1, <1>2 DEF Form

\* What is stored after a save shows in the form that was sent.
LEMMA BodyShown ==
  ASSUME NEW typing \in Form, NEW old \in Fields, typing.slug \in SlugValues
  PROVE  LET told == Filled(Body(typing, old)) IN
         typing \in {[told EXCEPT !.auto = typing.auto], [told EXCEPT !.auto = typing.auto, !.pdf = Nil]}
<1> DEFINE f == Body(typing, old)
           told == Filled(f)
           auto == typing.auto
<1>1. /\ f \in Fields /\ f.titled = typing.titled /\ f.slug = typing.slug /\ f.policy = typing.policy
      /\ f.asset = IF typing.pdf = Nil THEN old.asset ELSE typing.pdf
  BY BodyFacts
<1> HIDE DEF f
<1>2. /\ told \in Form /\ told.titled = typing.titled /\ told.slug = typing.slug /\ told.policy = typing.policy
      /\ told.pdf = f.asset
  BY <1>1, FormFacts, FilledFacts
<1>3. auto \in Slugs \cup {""}
  BY DEF Form
<1> HIDE DEF told
<1> DEFINE v == [told EXCEPT !.auto = auto]
           w == [told EXCEPT !.auto = auto, !.pdf = Nil]
<1>4. /\ v \in Form /\ v.titled = told.titled /\ v.slug = told.slug /\ v.auto = auto /\ v.pdf = told.pdf
      /\ v.policy = told.policy
      /\ w \in Form /\ w.titled = told.titled /\ w.slug = told.slug /\ w.auto = auto /\ w.pdf = Nil
      /\ w.policy = told.policy
  BY <1>2, <1>3, RetoldFacts
<1> HIDE DEF v, w
<1>5. typing \in {v, w}
  <2>1. typing.pdf = Nil => typing = w
    BY <1>2, <1>4, SameForm
  <2>2. typing.pdf # Nil => typing = v
    BY <1>1, <1>2, <1>4, SameForm
  <2> QED
    BY <2>1, <2>2
<1> QED
  BY <1>5 DEF told, f, v, w, auto

LEMMA ServeCreateKeeps == ASSUME PageInv, NEW i \in DOMAIN calls, ServeCreate(i) PROVE PageInv'
<1> DEFINE f == Body(calls[i].form, New)
<1>t. SheetTypes /\ calls \in Seq(CallRecords) /\ others \in 0 .. MaxOthers /\ others' = others
      /\ agreed' = agreed /\ agreed \in BOOLEAN
  BY SheetFacts DEF PageInv, SheetTypes, ServeCreate
<1>1. calls[i].kind = "create" /\ calls[i].state = "sent"
  BY DEF ServeCreate
<1>2. DOMAIN calls = {i} /\ sheet.at # "edit" /\ ~agreed
  BY <1>1, NotSaved
<1>3. CASE calls' = Answered(i, "refused") /\ UNCHANGED <<resourceVars, sheet>>
  BY <1>3, <1>t, AnsweredKeeps
<1>4. CASE \E r \in Resources : /\ CreateResource(r, f) /\ calls' = Answered(i, "done")
                                /\ sheet' = [sheet EXCEPT !.of = r]
  <2>1. PICK r \in Resources : /\ CreateResource(r, f) /\ calls' = Answered(i, "done")
                               /\ sheet' = [sheet EXCEPT !.of = r]
    BY <1>4
  <2>2. f \in Fields
    <3>1. calls[i].form \in Form
      BY <1>t, CallFacts
    <3>2. calls[i].form.slug \in SlugValues
      BY <1>1, <1>t DEF SheetTypes, Kinds
    <3> QED
      BY <3>1, <3>2, BodyFacts
  <2> HIDE DEF f
  <2>3. StoreInv'
    BY <2>1, <2>2, Created DEF PageInv
  <2>4. /\ sheet' \in SheetRecords /\ sheet'.at = sheet.at /\ sheet'.loading = sheet.loading
        /\ sheet'.saving = sheet.saving /\ sheet'.publishing = sheet.publishing
    BY <1>t, <2>1, SheetFacts DEF SheetRecords
  <2>5. /\ calls' \in Seq(CallRecords) /\ DOMAIN calls' = DOMAIN calls
        /\ \A k \in DOMAIN calls : calls'[k].kind = calls[k].kind
        /\ calls'[i].state = "done"
    BY <1>t, <2>1, AnsweredFacts DEF Tells
  <2>6. Kinds({"fetch"})' = {} /\ Kinds({"save"})' = {}
    BY <1>1, <1>2, <2>5 DEF Kinds
  <2>7. CleanInv'
    BY <1>2, <1>t, <2>6 DEF CleanInv
  <2> DEFINE P == {i}
  <2>8. P \subseteq DOMAIN calls /\ DOMAIN calls \ P = {} /\ \A k \in P : calls'[k].state # "sent"
    BY <1>2, <2>5
  <2> HIDE DEF P
  <2> QED
    BY <1>t, <2>3, <2>4, <2>5, <2>7, <2>8, ServedKeeps
<1> QED
  BY <1>3, <1>4 DEF ServeCreate

LEMMA ServeSaveKeeps == ASSUME PageInv, NEW i \in DOMAIN calls, ServeSave(i) PROVE PageInv'
<1>t. /\ SheetTypes /\ calls \in Seq(CallRecords) /\ others \in 0 .. MaxOthers /\ others' = others
      /\ sheet' = sheet /\ sheet \in SheetRecords
  BY SheetFacts DEF PageInv, SheetTypes, ServeSave
<1>1. calls[i].kind = "save" /\ calls[i].state = "sent"
  BY DEF ServeSave
<1>2. CASE sheet.of \notin Live
  <2>1. calls' = Answered(i, "refused") /\ UNCHANGED <<resourceVars, agreed>>
    BY <1>2 DEF ServeSave
  <2> QED
    BY <1>t, <2>1, AnsweredKeeps
<1>3. CASE sheet.of \in Live
  <2> DEFINE r == sheet.of
             old == stored[r]
             typing == calls[i].form
             s == StoreChanged(calls, {"fetch"})
             answer == IF r \in spoiled' THEN "refused" ELSE "done"
  <2>1. /\ UpdateResource(r, Body(typing, old), TRUE) /\ agreed' = FALSE
        /\ calls' = Answer(s, i, answer, EmptyForm)
    BY <1>3 DEF ServeSave, Answer
  <2>2. typing \in Form /\ typing.slug \in SlugValues
    BY <1>1, <1>t, CallFacts DEF SheetTypes, Kinds
  <2>3. r \in Resources /\ old \in Fields
    BY <1>3, StoreFacts DEF PageInv
  <2>4. Body(typing, old) \in Fields
    BY <2>2, <2>3, BodyFacts
  <2>5. StoreInv' /\ Live' = Live /\ stored'[r] = Body(typing, old)
    BY <2>1, <2>3, <2>4, Updated DEF PageInv
  <2>6. /\ s \in Seq(CallRecords) /\ DOMAIN s = DOMAIN calls
        /\ \A k \in DOMAIN calls :
             /\ s[k].kind = calls[k].kind /\ s[k].state = calls[k].state /\ s[k].form = calls[k].form
             /\ s[k].clean = (calls[k].clean /\ ~(calls[k].kind \in {"fetch"} /\ calls[k].state # "sent"))
    BY <1>t, StoreChangedFacts
  <2>7. answer \in {"sent", "done", "refused"} /\ answer # "sent"
    OBVIOUS
  <2> HIDE DEF s, answer
  <2>8. /\ calls' \in Seq(CallRecords) /\ DOMAIN calls' = DOMAIN s
        /\ \A k \in DOMAIN s : calls'[k].kind = s[k].kind /\ calls'[k].clean = s[k].clean
        /\ calls'[i].state = answer
        /\ \A k \in DOMAIN s : k # i => calls'[k] = s[k]
    <3>1. i \in DOMAIN s /\ EmptyForm \in Form
      BY <2>6, FormFacts
    <3>2. Tells(calls', s, i, answer, EmptyForm)
      BY <2>1, <2>6, <2>7, <3>1, AnswerFacts
    <3> QED
      BY <3>2 DEF Tells
  <2>9. \A k \in Kinds({"fetch"})' : calls'[k].state = "done" => ~calls'[k].clean
    BY <1>1, <2>6, <2>8, ZenonT(40) DEF Kinds
  <2>10. ASSUME sheet.at = "edit", NEW k \in Kinds({"save"})'
         PROVE  /\ calls'[k].state # "sent"
                /\ calls'[k].clean => Shows(sheet.form, sheet.of)'
    <3>1. k \in DOMAIN calls /\ calls[k].kind = "save" /\ k \in Kinds({"create", "save"})
      BY <2>6, <2>8 DEF Kinds
    <3>2. i \in Kinds({"create", "save"}) /\ i \in Kinds({"save"})
      BY <1>1 DEF Kinds
    <3>3. k = i
      BY <2>10, <3>1, <3>2 DEF PageInv, FlagInv
    <3>4. ASSUME calls'[k].clean PROVE Shows(sheet.form, sheet.of)'
      <4>1. calls[i].clean
        BY <2>6, <2>8, <3>3, <3>4
      <4>2. typing = sheet.form
        BY <1>1, <2>10, <3>2, <4>1 DEF PageInv, CleanInv
      <4>3. LET told == Filled(Body(typing, old)) IN
            typing \in {[told EXCEPT !.auto = typing.auto], [told EXCEPT !.auto = typing.auto, !.pdf = Nil]}
        BY <2>2, <2>3, BodyShown
      <4>4. sheet'.of = r /\ sheet'.form = typing /\ sheet'.of \in Live'
        BY <1>3, <1>t, <2>5, <4>2
      <4>5. Filled(stored[sheet.of])' = Filled(Body(typing, old))
        BY <2>5, <4>4 DEF Filled, EmptyForm
      <4> QED
        BY <4>3, <4>4, <4>5 DEF Shows
    <3> QED
      BY <2>7, <2>8, <3>3, <3>4
  <2>11. CleanInv'
    BY <1>t, <2>1, <2>9, <2>10 DEF CleanInv
  <2> DEFINE P == {i}
  <2>12. P \subseteq DOMAIN calls /\ \A k \in P : calls'[k].state # "sent"
    BY <2>7, <2>8
  <2>13. \A k \in DOMAIN calls \ P : calls'[k].state = calls[k].state /\ calls'[k].form = calls[k].form
    BY <2>6, <2>8
  <2>14. \A k \in DOMAIN calls : calls'[k].kind = calls[k].kind
    BY <2>6, <2>8
  <2> HIDE DEF P
  <2> QED
    BY <1>t, <2>1, <2>5, <2>6, <2>8, <2>11, <2>12, <2>13, <2>14, ServedKeeps
<1> QED
  BY <1>2, <1>3

LEMMA ServeSheetDeleteKeeps == ASSUME PageInv, NEW i \in DOMAIN calls, ServeSheetDelete(i) PROVE PageInv'
<1>t. /\ SheetTypes /\ calls \in Seq(CallRecords) /\ others \in 0 .. MaxOthers /\ others' = others
      /\ sheet' = sheet /\ sheet \in SheetRecords
  BY SheetFacts DEF PageInv, SheetTypes, ServeSheetDelete
<1>1. calls[i].kind = "delete"
  BY DEF ServeSheetDelete
<1>2. CASE sheet.of \notin Live
  <2>1. calls' = Answered(i, "refused") /\ UNCHANGED <<resourceVars, agreed>>
    BY <1>2 DEF ServeSheetDelete
  <2> QED
    BY <1>t, <2>1, AnsweredKeeps
<1>3. CASE sheet.of \in Live
  <2> DEFINE s == StoreChanged(calls, {"fetch", "save"})
  <2>1. DeleteResource(sheet.of) /\ agreed' = FALSE /\ calls' = [s EXCEPT ![i].state = "done"]
    BY <1>3 DEF ServeSheetDelete
  <2>2. sheet.of \in Resources
    BY <1>3 DEF Live
  <2>3. StoreInv'
    BY <2>1, <2>2, Deleted DEF PageInv
  <2>4. /\ s \in Seq(CallRecords) /\ DOMAIN s = DOMAIN calls
        /\ \A k \in DOMAIN calls :
             /\ s[k].kind = calls[k].kind /\ s[k].state = calls[k].state /\ s[k].form = calls[k].form
             /\ s[k].clean = (calls[k].clean /\ ~(calls[k].kind \in {"fetch", "save"} /\ calls[k].state # "sent"))
    BY <1>t, StoreChangedFacts
  <2> HIDE DEF s
  <2>5. /\ calls' \in Seq(CallRecords) /\ DOMAIN calls' = DOMAIN s
        /\ \A k \in DOMAIN s : calls'[k].kind = s[k].kind /\ calls'[k].clean = s[k].clean
        /\ calls'[i].state = "done"
        /\ \A k \in DOMAIN s : k # i => calls'[k] = s[k]
    BY <2>1, <2>4, StateFacts
  <2>6. \A k \in Kinds({"fetch"})' : calls'[k].state = "done" => ~calls'[k].clean
    BY <1>1, <2>4, <2>5, ZenonT(40) DEF Kinds
  <2>7. ASSUME sheet.at = "edit", NEW k \in Kinds({"save"})', calls'[k].clean
        PROVE  calls'[k].state # "done" /\ (calls'[k].state = "sent" => calls'[k].form = sheet.form)
    <3>1. k \in Kinds({"save"}) /\ k \in DOMAIN calls /\ k # i
      BY <1>1, <2>4, <2>5 DEF Kinds
    <3>2. calls'[k] = s[k] /\ calls[k].kind = "save" /\ calls[k].state = "sent" /\ calls[k].clean
      BY <2>4, <2>5, <2>7, <3>1 DEF Kinds
    <3>3. calls'[k].state = "sent" /\ calls'[k].form = calls[k].form
      BY <2>4, <3>1, <3>2
    <3>4. calls[k].form = sheet.form
      BY <2>7, <3>1, <3>2 DEF PageInv, CleanInv
    <3> QED
      BY <3>3, <3>4
  <2>8. CleanInv'
    BY <1>t, <2>1, <2>6, <2>7 DEF CleanInv
  <2> DEFINE P == {i}
  <2>9. P \subseteq DOMAIN calls /\ \A k \in P : calls'[k].state # "sent"
    BY <2>5
  <2>10. \A k \in DOMAIN calls \ P : calls'[k].state = calls[k].state /\ calls'[k].form = calls[k].form
    BY <2>4, <2>5
  <2>11. \A k \in DOMAIN calls : calls'[k].kind = calls[k].kind
    BY <2>4, <2>5
  <2> HIDE DEF P
  <2> QED
    BY <1>t, <2>1, <2>3, <2>4, <2>5, <2>8, <2>9, <2>10, <2>11, ServedKeeps
<1> QED
  BY <1>2, <1>3

LEMMA OtherUserKeeps == ASSUME PageInv, OtherUser PROVE PageInv'
<1> DEFINE of == sheet.of
           old == stored[of]
<1>t. /\ SheetTypes /\ calls \in Seq(CallRecords) /\ others' \in 0 .. MaxOthers
      /\ sheet' = sheet /\ sheet \in SheetRecords
  BY SheetFacts, SheetConstants DEF PageInv, SheetTypes, OtherUser
<1>1. of \in Resources /\ of \in Live /\ old \in Fields /\ agreed' = FALSE
      /\ calls' = StoreChanged(calls, {"fetch", "save"}) /\ StoreInv
  BY StoreFacts DEF PageInv, OtherUser, Live
<1>2. StoreInv'
  <2>1. ASSUME NEW a \in AssetValues, UpdateResource(of, [old EXCEPT !.asset = a], FALSE) PROVE StoreInv'
    <3> HIDE DEF old
    <3>1. [old EXCEPT !.asset = a] \in Fields
      BY <1>1 DEF Fields
    <3> QED
      BY <1>1, <2>1, <3>1, Updated
  <2>2. ASSUME NEW p \in PolicyValues, NEW v \in VersionValues, SetPinnedPolicy(of, p, v) PROVE StoreInv'
    BY <1>1, <2>2, Pinned
  <2>3. CASE DeleteResource(of)
    BY <1>1, <2>3, Deleted
  <2> DEFINE free == CHOOSE s \in Slugs : TRUE
  <2>4. ASSUME NEW r \in Resources, CreateResource(r, [old EXCEPT !.slug = free]) PROVE StoreInv'
    <3> HIDE DEF old, free
    <3>1. [old EXCEPT !.slug = free].slug = free /\ [old EXCEPT !.slug = free].slug \in Slugs
      BY <1>1, <2>4 DEF CreateResource, FieldErrors, Fields
    <3>2. [old EXCEPT !.slug = free] \in Fields
      BY <1>1, <3>1 DEF Fields, SlugValues
    <3> QED
      BY <1>1, <2>4, <3>2, Created
  <2> QED
    BY <2>1, <2>2, <2>3, <2>4 DEF OtherUser
<1>3. /\ calls' \in Seq(CallRecords) /\ DOMAIN calls' = DOMAIN calls
      /\ \A k \in DOMAIN calls :
           /\ calls'[k].kind = calls[k].kind /\ calls'[k].state = calls[k].state
           /\ calls'[k].form = calls[k].form
           /\ calls'[k].clean = (calls[k].clean /\ ~(calls[k].kind \in {"fetch", "save"} /\ calls[k].state # "sent"))
  BY <1>1, <1>t, StoreChangedFacts
<1>4. \A k \in Kinds({"fetch"})' : calls'[k].state = "done" => ~calls'[k].clean
  BY <1>3 DEF Kinds
<1>5. ASSUME sheet.at = "edit", NEW k \in Kinds({"save"})', calls'[k].clean
      PROVE  calls'[k].state # "done" /\ (calls'[k].state = "sent" => calls'[k].form = sheet.form)
  <2>1. k \in Kinds({"save"}) /\ k \in DOMAIN calls /\ calls[k].kind = "save" /\ calls[k].clean
        /\ calls[k].state = "sent"
    BY <1>3, <1>5 DEF Kinds
  <2>2. calls[k].form = sheet.form
    BY <1>5, <2>1 DEF PageInv, CleanInv
  <2> QED
    BY <1>3, <2>1, <2>2
<1>6. CleanInv'
  BY <1>1, <1>t, <1>4, <1>5 DEF CleanInv
<1> DEFINE P == {}
<1>7. P \subseteq DOMAIN calls /\ \A k \in P : calls'[k].state # "sent"
  OBVIOUS
<1>8. \A k \in DOMAIN calls \ P : calls'[k].state = calls[k].state /\ calls'[k].form = calls[k].form
  BY <1>3
<1> HIDE DEF P
<1> QED
  BY <1>1, <1>2, <1>3, <1>6, <1>7, <1>8, <1>t, ServedKeeps

\* The requests once the answer to the i-th is taken: the others, what they carry and say
\* unchanged, and perhaps one fetch more.
TookCalls(i) ==
  /\ calls' \in Seq(CallRecords)
  /\ \A k \in DOMAIN calls' :
       \/ calls'[k].kind = "fetch" /\ calls'[k].state = "sent"
       \/ LET m == Skip(i, k) IN
          /\ m \in DOMAIN calls /\ m # i
          /\ calls'[k].kind = calls[m].kind /\ calls'[k].state = calls[m].state
          /\ calls'[k].form = calls[m].form /\ (calls'[k].clean => calls[m].clean)
  /\ \A k, l \in Kinds({"create", "save"})' : Skip(i, k) = Skip(i, l) => k = l
  /\ \A m \in DOMAIN calls : m # i => \E k \in DOMAIN calls' : calls'[k].kind = calls[m].kind

\* A page that takes an answer, other than that to its create.
LEMMA TookKeeps ==
  ASSUME PageInv, NEW i \in DOMAIN calls, calls[i].kind # "create", TookCalls(i),
         UNCHANGED <<resourceVars, others>>,
         sheet' \in SheetRecords, sheet'.at \in {sheet.at, "left"}, sheet'.of = sheet.of,
         sheet'.at = "left" => ~sheet'.loading /\ ~sheet'.saving /\ ~sheet'.publishing,
         sheet'.loading => sheet.loading /\ calls[i].kind # "fetch",
         sheet'.saving => sheet.saving /\ calls[i].kind # "save",
         sheet'.publishing => sheet.publishing /\ calls[i].kind # "publish",
         sheet'.at # "left" /\ sheet.saving /\ calls[i].kind # "save" => sheet'.saving,
         agreed' \in BOOLEAN, agreed' => sheet'.at = "edit" /\ Shows(sheet'.form, sheet.of),
         \/ sheet'.at = "left" \/ sheet'.form = sheet.form
         \/ \A k \in Kinds({"save"})' : ~calls'[k].clean
  PROVE  PageInv'
<1>t. SheetTypes /\ FlagInv /\ CleanInv /\ sheet.at \in {"new", "edit", "left"}
  BY SheetFacts DEF PageInv
<1>0. sheet.at # "new" /\ Kinds({"create"}) = {}
  BY <1>t DEF FlagInv, Kinds
<1>1. ASSUME NEW k \in DOMAIN calls', calls'[k].kind # "fetch" \/ calls'[k].state # "sent"
      PROVE  LET m == Skip(i, k) IN
             /\ m \in DOMAIN calls /\ m # i
             /\ calls'[k].kind = calls[m].kind /\ calls'[k].state = calls[m].state
             /\ calls'[k].form = calls[m].form /\ (calls'[k].clean => calls[m].clean)
  BY <1>1 DEF TookCalls
<1>2. ASSUME NEW kinds, NEW k \in Kinds(kinds)', "fetch" \notin kinds
      PROVE  Skip(i, k) \in Kinds(kinds) /\ Skip(i, k) # i
  <2>1. k \in DOMAIN calls' /\ calls'[k].kind \in kinds /\ calls'[k].kind # "fetch"
    BY <1>2 DEF Kinds
  <2> QED
    BY <1>1, <2>1 DEF Kinds
<1>3. ASSUME NEW kinds, NEW m \in Kinds(kinds), m # i PROVE Kinds(kinds)' # {}
  <2>1. m \in DOMAIN calls /\ calls[m].kind \in kinds
    BY DEF Kinds
  <2>2. PICK k \in DOMAIN calls' : calls'[k].kind = calls[m].kind
    BY <1>3, <2>1 DEF TookCalls
  <2> QED
    BY <2>1, <2>2 DEF Kinds
<1>4. StoreInv'
  BY DEF PageInv, StoreInv, ResourceTypeOK, OrderInv, Live, Obeys, FieldErrors, PolicyErrors, resourceVars
<1>5. SheetTypes'
  <2>1. ASSUME NEW k \in Kinds({"create", "save"})', calls'[k].state = "sent"
        PROVE  calls'[k].form.slug \in SlugValues
    <3>1. Skip(i, k) \in Kinds({"create", "save"}) /\ k \in DOMAIN calls'
          /\ calls'[k].kind \in {"create", "save"}
      BY <1>2 DEF Kinds
    <3>2. calls'[k].state = calls[Skip(i, k)].state /\ calls'[k].form = calls[Skip(i, k)].form
      BY <1>1, <3>1
    <3> QED
      BY <1>t, <2>1, <3>1, <3>2 DEF SheetTypes
  <2> QED
    BY <1>t, <2>1 DEF SheetTypes, TookCalls
<1>6. FlagInv'
  <2>1. Kinds({"create"})' = {}
    BY <1>0, <1>2
  <2>2. sheet'.loading => Kinds({"fetch"})' # {}
    <3>1. i \notin Kinds({"fetch"}) \/ calls[i].kind = "fetch"
      BY DEF Kinds
    <3> QED
      BY <1>3, <1>t, <3>1 DEF FlagInv
  <2>3. sheet'.saving => Kinds({"create", "save"})' # {}
    <3>1. i \notin Kinds({"create", "save"}) \/ calls[i].kind = "save"
      BY DEF Kinds
    <3> QED
      BY <1>3, <1>t, <3>1 DEF FlagInv
  <2>4. sheet'.publishing => Kinds({"publish"})' # {}
    <3>1. i \notin Kinds({"publish"}) \/ calls[i].kind = "publish"
      BY DEF Kinds
    <3> QED
      BY <1>3, <1>t, <3>1 DEF FlagInv
  <2>5. ASSUME sheet'.at # "left", NEW k \in Kinds({"create", "save"})'
        PROVE  sheet'.saving /\ \A l \in Kinds({"create", "save"})' : k = l
    <3>1. Skip(i, k) \in Kinds({"create", "save"}) /\ Skip(i, k) # i /\ sheet.at # "left"
      BY <1>2, <2>5
    <3>2. sheet.saving /\ \A m \in Kinds({"create", "save"}) : m = Skip(i, k)
      BY <1>t, <3>1 DEF FlagInv
    <3>3. calls[i].kind # "save"
      BY <3>1, <3>2 DEF Kinds
    <3>4. ASSUME NEW l \in Kinds({"create", "save"})' PROVE k = l
      <4>1. Skip(i, l) \in Kinds({"create", "save"})
        BY <1>2
      <4>2. Skip(i, k) = Skip(i, l)
        BY <3>2, <4>1
      <4> QED
        BY <4>2 DEF TookCalls
    <3> QED
      BY <2>5, <3>2, <3>3, <3>4
  <2> QED
    BY <1>0, <2>1, <2>2, <2>3, <2>4, <2>5 DEF FlagInv
<1>7. CleanInv'
  <2>0. /\ Live' = Live /\ Filled(stored[sheet.of])' = Filled(stored[sheet.of])
        /\ \A typing : Shows(typing, sheet.of)' = Shows(typing, sheet.of)
    BY DEF resourceVars, Live, Filled, EmptyForm, Shows
  <2>1. ASSUME NEW k \in Kinds({"fetch"})', calls'[k].clean, calls'[k].state = "done"
        PROVE  sheet.of \in Live /\ calls'[k].form = Filled(stored[sheet.of])
    <3>1. k \in DOMAIN calls' /\ calls'[k].kind = "fetch"
      BY DEF Kinds
    <3> DEFINE m == Skip(i, k)
    <3>2. /\ m \in DOMAIN calls /\ calls[m].kind = "fetch" /\ calls[m].state = "done" /\ calls[m].clean
          /\ calls'[k].form = calls[m].form
      BY <1>1, <2>1, <3>1
    <3> HIDE DEF m
    <3> QED
      BY <1>t, <3>2 DEF CleanInv, Kinds
  <2>2. ASSUME sheet'.at = "edit", NEW k \in Kinds({"save"})', calls'[k].clean
        PROVE  /\ calls'[k].state = "sent" => calls'[k].form = sheet'.form
               /\ calls'[k].state = "done" => Shows(sheet'.form, sheet.of)
    <3>1. k \in DOMAIN calls' /\ calls'[k].kind = "save" /\ sheet'.form = sheet.form /\ sheet.at = "edit"
      BY <2>2 DEF Kinds
    <3> DEFINE m == Skip(i, k)
    <3>2. /\ m \in DOMAIN calls /\ calls[m].kind = "save" /\ calls[m].clean
          /\ calls'[k].state = calls[m].state /\ calls'[k].form = calls[m].form
      BY <1>1, <2>2, <3>1
    <3> HIDE DEF m
    <3>3. /\ calls[m].state = "sent" => calls[m].form = sheet.form
          /\ calls[m].state = "done" => Shows(sheet.form, sheet.of)
      BY <1>t, <3>1, <3>2 DEF CleanInv, Kinds
    <3> QED
      BY <3>1, <3>2, <3>3
  <2>3. agreed' => sheet'.at = "edit" /\ Shows(sheet'.form, sheet.of)
    OBVIOUS
  <2> QED
    BY <2>0, <2>1, <2>2, <2>3 DEF CleanInv
<1> QED
  BY <1>4, <1>5, <1>6, <1>7 DEF PageInv

LEMMA TookDropped ==
  ASSUME PageInv, NEW i \in DOMAIN calls,
         \/ calls' = WithoutCall(i) \/ calls' = FormChanged(WithoutCall(i))
         \/ calls' = Append(WithoutCall(i), FetchCall)
  PROVE  /\ TookCalls(i)
         /\ calls' = FormChanged(WithoutCall(i)) => \A k \in Kinds({"save"})' : ~calls'[k].clean
<1> DEFINE s == WithoutCall(i)
<1>t. calls \in Seq(CallRecords) /\ FetchCall \in CallRecords /\ FetchCall.kind = "fetch"
      /\ FetchCall.state = "sent"
  BY SheetFacts, FormFacts DEF PageInv, FetchCall, Call, CallRecords
<1>1. /\ s \in Seq(CallRecords)
      /\ \A k \in DOMAIN s : Skip(i, k) \in DOMAIN calls /\ Skip(i, k) # i /\ s[k] = calls[Skip(i, k)]
      /\ \A k, l \in DOMAIN s : Skip(i, k) = Skip(i, l) => k = l
      /\ \A m \in DOMAIN calls : m # i => \E k \in DOMAIN s : Skip(i, k) = m
  BY <1>t, DroppedFacts DEF WithoutCall
<1>d. \A k \in DOMAIN s : s[k] \in CallRecords
  BY <1>1
<1> HIDE DEF s
<1>e. calls' = FormChanged(s) => \A k \in Kinds({"save"})' : ~calls'[k].clean
  <2> SUFFICES ASSUME calls' = FormChanged(s), NEW k \in Kinds({"save"})' PROVE ~calls'[k].clean
    OBVIOUS
  <2>1. k \in DOMAIN s /\ calls'[k].kind = "save" /\ calls'[k].clean = (s[k].clean /\ s[k].kind # "save")
        /\ calls'[k].kind = s[k].kind
    BY <1>1, FormChangedFacts DEF Kinds
  <2> QED
    BY <2>1
<1>2. CASE calls' = s
  <2>1. \A k, l \in Kinds({"create", "save"})' : Skip(i, k) = Skip(i, l) => k = l
    BY <1>1, <1>2 DEF Kinds
  <2>2. TookCalls(i)
    BY <1>1, <1>2, <2>1 DEF TookCalls
  <2> QED
    BY <1>e, <2>2 DEF s
<1>3. CASE calls' = FormChanged(s)
  <2>1. /\ calls' \in Seq(CallRecords) /\ DOMAIN calls' = DOMAIN s
        /\ \A k \in DOMAIN s : /\ calls'[k].kind = s[k].kind /\ calls'[k].state = s[k].state
                               /\ calls'[k].form = s[k].form
                               /\ calls'[k].clean = (s[k].clean /\ s[k].kind # "save")
    BY <1>1, <1>3, FormChangedFacts
  <2>2. ASSUME NEW k \in DOMAIN calls'
        PROVE  LET m == Skip(i, k) IN
               /\ m \in DOMAIN calls /\ m # i
               /\ calls'[k].kind = calls[m].kind /\ calls'[k].state = calls[m].state
               /\ calls'[k].form = calls[m].form /\ (calls'[k].clean => calls[m].clean)
    BY <1>1, <2>1
  <2>3. \A k, l \in Kinds({"create", "save"})' : Skip(i, k) = Skip(i, l) => k = l
    BY <1>1, <2>1 DEF Kinds
  <2>4. \A m \in DOMAIN calls : m # i => \E k \in DOMAIN calls' : calls'[k].kind = calls[m].kind
    BY <1>1, <2>1
  <2>5. TookCalls(i)
    BY <2>1, <2>2, <2>3, <2>4 DEF TookCalls
  <2> QED
    BY <1>e, <2>5 DEF s
<1>4. CASE calls' = Append(s, FetchCall)
  <2> DEFINE n == Len(s) + 1
  <2>1. /\ calls' \in Seq(CallRecords) /\ n \notin DOMAIN s /\ DOMAIN calls' = DOMAIN s \cup {n}
        /\ calls'[n] = FetchCall /\ \A k \in DOMAIN s : calls'[k] = s[k]
    BY <1>1, <1>4, <1>t, AppendedFacts
  <2> HIDE DEF n
  <2>2. ASSUME NEW k \in DOMAIN calls'
        PROVE  \/ calls'[k].kind = "fetch" /\ calls'[k].state = "sent"
               \/ LET m == Skip(i, k) IN
                  /\ m \in DOMAIN calls /\ m # i
                  /\ calls'[k].kind = calls[m].kind /\ calls'[k].state = calls[m].state
                  /\ calls'[k].form = calls[m].form /\ (calls'[k].clean => calls[m].clean)
    <3>1. CASE k = n
      BY <1>t, <2>1, <3>1
    <3>2. CASE k \in DOMAIN s
      BY <1>1, <2>1, <3>2
    <3> QED
      BY <2>1, <3>1, <3>2
  <2>3. \A k, l \in Kinds({"create", "save"})' : Skip(i, k) = Skip(i, l) => k = l
    <3>1. \A k \in Kinds({"create", "save"})' : k \in DOMAIN s
      BY <1>t, <2>1 DEF Kinds
    <3> QED
      BY <1>1, <3>1
  <2>4. \A m \in DOMAIN calls : m # i => \E k \in DOMAIN calls' : calls'[k].kind = calls[m].kind
    BY <1>1, <2>1
  <2>5. TookCalls(i)
    BY <2>1, <2>2, <2>3, <2>4 DEF TookCalls
  <2> QED
    BY <1>e, <2>5 DEF s
<1> QED
  BY <1>2, <1>3, <1>4 DEF s

LEMMA TakeFetchKeeps == ASSUME PageInv, NEW i \in DOMAIN calls, TakeFetch(i) PROVE PageInv'
<1>t. /\ SheetTypes /\ FlagInv /\ CleanInv /\ sheet \in SheetRecords /\ sheet.at \in {"new", "edit", "left"}
      /\ calls[i] \in CallRecords /\ calls[i].form \in Form /\ calls[i].clean \in BOOLEAN
      /\ calls[i].state \in {"sent", "done", "refused"}
  BY SheetFacts, CallFacts DEF PageInv
<1>1. /\ calls[i].kind = "fetch" /\ calls[i].state # "sent" /\ UNCHANGED <<resourceVars, others>>
      /\ calls' = FormChanged(WithoutCall(i)) /\ agreed' = (sheet'.at # "left" /\ calls[i].clean)
  BY DEF TakeFetch
<1>2. TookCalls(i) /\ \A k \in Kinds({"save"})' : ~calls'[k].clean
  BY <1>1, TookDropped
<1>3. sheet.at # "new"
  BY <1>1, <1>t DEF FlagInv, Kinds
<1>4. CASE calls[i].state = "refused"
  <2>1. sheet' = Gone
    BY <1>4 DEF TakeFetch
  <2>2. /\ sheet' \in SheetRecords /\ sheet'.at = "left" /\ ~sheet'.loading /\ ~sheet'.saving
        /\ ~sheet'.publishing /\ sheet'.of = sheet.of
    BY <1>t, <2>1, GoneFacts
  <2>3. agreed' = FALSE
    BY <1>1, <2>2
  <2> QED
    BY <1>1, <1>2, <2>2, <2>3, TookKeeps
<1>5. CASE calls[i].state # "refused" /\ sheet.at = "left"
  <2>1. sheet' = sheet
    BY <1>5 DEF TakeFetch
  <2>2. agreed' = FALSE
    BY <1>1, <1>5, <2>1
  <2>3. ~sheet.loading /\ ~sheet.saving /\ ~sheet.publishing
    BY <1>5, <1>t DEF FlagInv
  <2> QED
    BY <1>1, <1>2, <1>5, <1>t, <2>1, <2>2, <2>3, TookKeeps
<1>6. CASE calls[i].state # "refused" /\ sheet.at # "left"
  <2> DEFINE typing == calls[i].form
  <2>1. sheet' = [sheet EXCEPT !.loading = FALSE, !.form = typing]
    BY <1>6 DEF TakeFetch
  <2>2. sheet.at = "edit" /\ calls[i].state = "done" /\ typing \in Form
    BY <1>1, <1>3, <1>6, <1>t
  <2> HIDE DEF typing
  <2>3. /\ sheet' \in SheetRecords /\ sheet'.at = sheet.at /\ ~sheet'.loading /\ sheet'.saving = sheet.saving
        /\ sheet'.publishing = sheet.publishing /\ sheet'.of = sheet.of /\ sheet'.form = typing
    BY <1>t, <2>1, <2>2 DEF SheetRecords
  <2>4. ASSUME calls[i].clean PROVE Shows(typing, sheet.of)
    <3> DEFINE told == Filled(stored[sheet.of])
    <3>1. sheet.of \in Live /\ typing = told
      BY <1>1, <1>t, <2>2, <2>4 DEF CleanInv, Kinds, typing
    <3>2. told \in Form
      BY <2>2, <3>1
    <3>3. told = [told EXCEPT !.auto = told.auto]
      <4> HIDE DEF told
      <4> QED
        BY <3>2 DEF Form
    <3> QED
      BY <3>1, <3>3 DEF Shows
  <2>5. agreed' \in BOOLEAN /\ (agreed' => Shows(sheet'.form, sheet.of))
    BY <1>1, <1>t, <2>3, <2>4
  <2> QED
    BY <1>1, <1>2, <2>2, <2>3, <2>5, TookKeeps
<1> QED
  BY <1>4, <1>5, <1>6

LEMMA TakeSaveKeeps == ASSUME PageInv, NEW i \in DOMAIN calls, TakeSave(i) PROVE PageInv'
<1>t. /\ SheetTypes /\ FlagInv /\ CleanInv /\ sheet \in SheetRecords /\ sheet.at \in {"new", "edit", "left"}
      /\ agreed \in BOOLEAN
  BY SheetFacts DEF PageInv
<1>1. /\ calls[i].kind = "save" /\ calls' = WithoutCall(i) /\ UNCHANGED <<resourceVars, others>>
      /\ sheet' = [sheet EXCEPT !.saving = FALSE]
      /\ agreed' = (agreed \/ (sheet.at = "edit" /\ calls[i].state = "done" /\ calls[i].clean))
  BY DEF TakeSave
<1>2. TookCalls(i)
  BY <1>1, TookDropped
<1>3. /\ sheet' \in SheetRecords /\ sheet'.at = sheet.at /\ ~sheet'.saving /\ sheet'.loading = sheet.loading
      /\ sheet'.publishing = sheet.publishing /\ sheet'.of = sheet.of /\ sheet'.form = sheet.form
  BY <1>1, <1>t DEF SheetRecords
<1>4. agreed' \in BOOLEAN /\ (agreed' => sheet.at = "edit" /\ Shows(sheet.form, sheet.of))
  <2>1. i \in Kinds({"save"}) /\ calls[i].clean \in BOOLEAN
    BY <1>1, <1>t, CallFacts DEF Kinds
  <2> QED
    BY <1>1, <1>t, <2>1 DEF CleanInv
<1>5. sheet.at = "left" => ~sheet.loading /\ ~sheet.publishing
  BY <1>t DEF FlagInv
<1> QED
  BY <1>1, <1>2, <1>3, <1>4, <1>5, TookKeeps

LEMMA TakeOtherKeeps == ASSUME PageInv, NEW i \in DOMAIN calls, TakeOther(i) PROVE PageInv'
<1>t. /\ SheetTypes /\ FlagInv /\ CleanInv /\ sheet \in SheetRecords /\ sheet.at \in {"new", "edit", "left"}
      /\ agreed \in BOOLEAN
  BY SheetFacts DEF PageInv
<1>1. /\ calls[i].kind \in {"publish", "delete"} /\ UNCHANGED <<resourceVars, others>>
      /\ agreed' = (agreed /\ sheet'.at # "left")
      /\ calls' = WithoutCall(i) \/ calls' = Append(WithoutCall(i), FetchCall)
      /\ sheet' \in {[sheet EXCEPT !.publishing = FALSE], Gone, sheet}
      /\ calls[i].kind = "publish" => sheet' = [sheet EXCEPT !.publishing = FALSE]
  BY DEF TakeOther
<1>2. TookCalls(i)
  BY <1>1, TookDropped
<1>3. sheet.at = "left" => ~sheet.loading /\ ~sheet.saving /\ ~sheet.publishing
  BY <1>t DEF FlagInv
<1>4. agreed => sheet.at = "edit" /\ Shows(sheet.form, sheet.of)
  BY <1>t DEF CleanInv
<1>5. CASE sheet' = [sheet EXCEPT !.publishing = FALSE]
  <2>1. /\ sheet' \in SheetRecords /\ sheet'.at = sheet.at /\ sheet'.saving = sheet.saving
        /\ sheet'.loading = sheet.loading /\ ~sheet'.publishing /\ sheet'.of = sheet.of
        /\ sheet'.form = sheet.form
    BY <1>t, <1>5 DEF SheetRecords
  <2>2. agreed' \in BOOLEAN /\ (agreed' => sheet.at = "edit" /\ Shows(sheet.form, sheet.of))
    BY <1>1, <1>4, <1>t
  <2> QED
    BY <1>1, <1>2, <1>3, <2>1, <2>2, TookKeeps
<1>6. CASE sheet' = Gone
  <2>1. /\ sheet' \in SheetRecords /\ sheet'.at = "left" /\ ~sheet'.loading /\ ~sheet'.saving
        /\ ~sheet'.publishing /\ sheet'.of = sheet.of
    BY <1>t, <1>6, GoneFacts
  <2>2. agreed' = FALSE
    BY <1>1, <2>1
  <2> QED
    BY <1>1, <1>2, <2>1, <2>2, TookKeeps
<1>7. CASE sheet' = sheet /\ calls[i].kind = "delete"
  <2>1. agreed' \in BOOLEAN /\ (agreed' => agreed)
    BY <1>1, <1>t
  <2> QED
    BY <1>1, <1>2, <1>3, <1>4, <1>7, <1>t, <2>1, TookKeeps
<1> QED
  BY <1>1, <1>5, <1>6, <1>7

LEMMA TakeCreateKeeps == ASSUME PageInv, NEW i \in DOMAIN calls, TakeCreate(i) PROVE PageInv'
<1>t. /\ SheetTypes /\ FlagInv /\ CleanInv /\ sheet \in SheetRecords /\ sheet.at \in {"new", "edit", "left"}
      /\ calls \in Seq(CallRecords)
  BY SheetFacts DEF PageInv
<1>1. calls[i].kind = "create" /\ UNCHANGED <<resourceVars, others, agreed>>
  BY DEF TakeCreate
<1>2. DOMAIN calls = {i} /\ sheet.at # "edit" /\ ~agreed /\ ~sheet.loading /\ ~sheet.publishing
  BY <1>1, NotSaved
<1> DEFINE s == WithoutCall(i)
<1>3. s \in Seq(CallRecords) /\ DOMAIN s = {}
  <2>1. /\ s \in Seq(CallRecords)
        /\ \A k \in DOMAIN s : Skip(i, k) \in DOMAIN calls /\ Skip(i, k) # i
    BY <1>t, DroppedFacts DEF WithoutCall
  <2> QED
    BY <1>2, <2>1
<1> HIDE DEF s
<1>4. StoreInv'
  BY <1>1 DEF PageInv, StoreInv, ResourceTypeOK, OrderInv, Live, Obeys, FieldErrors, PolicyErrors, resourceVars
<1>5. CASE sheet' = [sheet EXCEPT !.saving = FALSE] /\ calls' = s
  <2>1. /\ sheet' \in SheetRecords /\ sheet'.at = sheet.at /\ ~sheet'.loading /\ ~sheet'.saving
        /\ ~sheet'.publishing
    BY <1>2, <1>5, <1>t DEF SheetRecords
  <2>2. \A kinds : Kinds(kinds)' = {}
    BY <1>3, <1>5 DEF Kinds
  <2>3. SheetTypes'
    BY <1>1, <1>3, <1>5, <1>t, <2>1, <2>2 DEF SheetTypes
  <2>4. FlagInv'
    BY <1>3, <1>5, <2>1, <2>2 DEF FlagInv
  <2>5. CleanInv'
    BY <1>1, <1>2, <2>2 DEF CleanInv
  <2> QED
    BY <1>4, <2>3, <2>4, <2>5 DEF PageInv
<1>6. CASE /\ sheet' = [sheet EXCEPT !.at = "edit", !.loading = TRUE, !.saving = FALSE, !.form = EmptyForm]
           /\ calls' = Append(s, FetchCall)
  <2> DEFINE e == EmptyForm
  <2>0. e \in Form /\ sheet' = [sheet EXCEPT !.at = "edit", !.loading = TRUE, !.saving = FALSE, !.form = e]
    BY <1>6, FormFacts
  <2> HIDE DEF e
  <2>1. /\ sheet' \in SheetRecords /\ sheet'.at = "edit" /\ sheet'.loading /\ ~sheet'.saving
        /\ ~sheet'.publishing
    BY <1>2, <1>t, <2>0 DEF SheetRecords
  <2>2. FetchCall \in CallRecords /\ FetchCall.kind = "fetch" /\ FetchCall.state = "sent"
    BY FormFacts DEF FetchCall, Call, CallRecords
  <2> DEFINE n == Len(s) + 1
  <2>3. calls' \in Seq(CallRecords) /\ DOMAIN calls' = {n} /\ calls'[n] = FetchCall
    BY <1>3, <1>6, <2>2, AppendedFacts
  <2> HIDE DEF n
  <2>4. Kinds({"fetch"})' = {n} /\ Kinds({"create", "save"})' = {} /\ Kinds({"create"})' = {}
        /\ Kinds({"save"})' = {}
    BY <2>2, <2>3 DEF Kinds
  <2>5. SheetTypes'
    BY <1>1, <1>t, <2>1, <2>3, <2>4 DEF SheetTypes
  <2>6. FlagInv'
    BY <2>1, <2>4 DEF FlagInv
  <2>7. CleanInv'
    BY <1>1, <1>2, <2>2, <2>3, <2>4 DEF CleanInv
  <2> QED
    BY <1>4, <2>5, <2>6, <2>7 DEF PageInv
<1> QED
  BY <1>5, <1>6 DEF TakeCreate, s

LEMMA PageBegins == ResourcePageInit => PageInv
<1> SUFFICES ASSUME ResourcePageInit PROVE PageInv
  OBVIOUS
<1>1. StoreInv /\ calls = <<>> /\ others = 0 /\ agreed = FALSE
  BY StoreBegins DEF ResourcePageInit
<1>2. sheet \in SheetRecords /\ ~sheet.loading /\ ~sheet.saving /\ ~sheet.publishing /\ sheet.at = "new"
  BY FormFacts DEF ResourcePageInit, SheetRecords
<1>3. calls \in Seq(CallRecords) /\ \A kinds : Kinds(kinds) = {}
  BY <1>1 DEF Kinds
<1>4. DOMAIN calls = {}
  BY <1>1
<1>5. SheetTypes
  <2>1. others \in 0 .. MaxOthers
    BY <1>1, SheetConstants
  <2>2. Kinds({"create", "save"}) = {}
    BY <1>3
  <2> QED
    BY <1>1, <1>2, <1>3, <2>1, <2>2 DEF SheetTypes
<1>6. FlagInv
  BY <1>2, <1>3, <1>4 DEF FlagInv
<1>7. CleanInv
  BY <1>1, <1>2, <1>3 DEF CleanInv
<1> QED
  BY <1>1, <1>5, <1>6, <1>7 DEF PageInv

LEMMA PageKept == PageInv /\ [ResourcePageNext]_resourcePageVars => PageInv'
<1> SUFFICES ASSUME PageInv, [ResourcePageNext]_resourcePageVars PROVE PageInv'
  OBVIOUS
<1>1. CASE UNCHANGED resourcePageVars
  <2>1. UNCHANGED <<stored, order, spoiled, sheet, calls, others, agreed>>
    BY <1>1 DEF resourcePageVars, resourceVars
  <2>2. StoreInv'
    BY <2>1 DEF PageInv, StoreInv, ResourceTypeOK, OrderInv, Live, Obeys, FieldErrors, PolicyErrors
  <2>3. SheetTypes'
    BY <2>1 DEF PageInv, SheetTypes, Kinds
  <2>4. FlagInv'
    BY <2>1, SameFlags DEF PageInv
  <2>5. CleanInv'
    BY <2>1 DEF PageInv, CleanInv, Shows, Kinds, Live, Filled, EmptyForm
  <2> QED
    BY <2>2, <2>3, <2>4, <2>5 DEF PageInv
<1>2. CASE ResourcePageNext
  <2>1. ASSUME NEW i \in DOMAIN calls,
               \/ ServeCreate(i) \/ ServeSave(i) \/ ServeSheetDelete(i) \/ ServeAsked(i) \/ LoseCall(i)
        PROVE  PageInv'
    BY <2>1, ServeCreateKeeps, ServeSaveKeeps, ServeSheetDeleteKeeps, ServeAskedKeeps
  <2>2. ASSUME NEW i \in DOMAIN calls, TakeFetch(i) \/ TakeCreate(i) \/ TakeSave(i) \/ TakeOther(i)
        PROVE  PageInv'
    BY <2>2, TakeFetchKeeps, TakeCreateKeeps, TakeSaveKeeps, TakeOtherKeeps
  <2>3. CASE \/ \E titled \in BOOLEAN, auto \in Slugs \cup {""} : TypeTitle(titled, auto)
             \/ \E slug \in TypedSlugs \cup {""} : TypeSlug(slug)
             \/ \E pdf \in PdfAssets \cup {Nil} : ChoosePdf(pdf)
             \/ ChooseLatest
    BY <2>3, TypingKeeps
  <2>4. CASE Save \/ PublishPressed \/ DeletePressed \/ LeaveSheet \/ OtherUser
    BY <2>4, PressesKeep, LeaveSheetKeeps, OtherUserKeeps
  <2> QED
    BY <1>2, <2>1, <2>2, <2>3, <2>4 DEF ResourcePageNext
<1> QED
  BY <1>1, <1>2

LEMMA PageTells == PageInv => ResourcePagesSound
<1> SUFFICES ASSUME PageInv PROVE ResourcePagesSound
  OBVIOUS
<1>1. ResourcesSound
  BY StoreSound DEF PageInv
<1>2. SheetTypeOK
  BY SheetFacts DEF PageInv, SheetTypes, SheetTypeOK
<1>3. FormTold
  BY DEF PageInv, CleanInv, Shows, FormTold
<1>4. NothingHangs
  BY DEF PageInv, FlagInv, Kinds, NothingHangs
<1> QED
  BY <1>1, <1>2, <1>3, <1>4 DEF ResourcePagesSound

\* The page of a resource is not taken for saved when it is not, whatever order its requests,
\* their answers and the requests of others come in (app/admin/resources), and the store
\* beneath it is sound.
THEOREM ResourcePagesTheorem == ResourcePageSpec => []ResourcePagesSound
BY PageBegins, PageKept, PageTells, PTL DEF ResourcePageSpec

-----------------------------------------------------------------------------
(* The list pages.                                                         *)

Parts == {"rows", "extra"}

Tables == [rows : UNION {[D -> Groups] : D \in SUBSET Things}, total : Nat]
Counts == [Groups -> Nat]

FetchRecords == [filter : Groups \cup {"all"}, offset : Nat, asked : SUBSET Parts, got : SUBSET Parts,
                 later : SUBSET Parts, rows : Tables, extra : Counts, failed : BOOLEAN, passed : SUBSET Parts]
DeedRecords == [what : {"delete", "publish", "update", "create"}, of : Int, filter : Groups \cup {"all"},
                offset : Nat, state : {"sent", "done", "refused"}]
ScreenRecords == [filter : Groups \cup {"all"}, offset : Nat, loading : BOOLEAN, error : BOOLEAN,
                  tab : BOOLEAN, dialog : Things \cup {0, -1}, rows : Tables, extra : Counts]

ListTypes ==
  /\ list \in ListPages /\ things \in [Things -> Groups \cup {"none"}]
  /\ shows \in ScreenRecords /\ asks \in Seq(FetchRecords) /\ deeds \in Seq(DeedRecords)
  /\ outrun \subseteq Parts /\ doubtful \subseteq Parts /\ strayed \in BOOLEAN

\* What a page of each kind does and does not do.
ScreenInv ==
  /\ shows.tab => list = "analytics"
  /\ KeepsError => deeds = <<>> /\ ~strayed
  /\ shows.loading => \E i \in DOMAIN asks : "rows" \in asks[i].asked \/ list = "redirects"
  /\ shows.error => KeepsError /\ "rows" \in doubtful
  /\ \A i \in DOMAIN asks : asks[i].later \subseteq Later /\ asks[i].asked \cap asks[i].later = {}

\* The fetches that have still to bring a part, what one has brought, and what it should be.
Bearers(p) == {i \in DOMAIN asks : p \in asks[i].asked \cup asks[i].later}
Part(p, r) == IF p = "rows" THEN r.rows ELSE r.extra
Now(p)     == IF p = "rows" THEN Listing(shows.filter, shows.offset) ELSE Extra(shows.filter)

\* The last fetch for a part has shown it, and the earlier ones have been told; or it is
\* still under way, for what is on the screen.
Current(p) ==
  \/ /\ \A i \in Bearers(p) : p \in asks[i].passed
     /\ p \notin outrun => Part(p, shows) = Now(p)
  \/ \E n \in Bearers(p) :
       /\ \A i \in Bearers(p) : i <= n
       /\ p \notin asks[n].passed /\ ~asks[n].failed
       /\ Filtered => asks[n].filter = shows.filter /\ asks[n].offset = shows.offset
       /\ p \in asks[n].got => Part(p, asks[n]) = Now(p)

Shown(p) == p = "rows" \/ list \in {"newsletter", "redirects"} \/ shows.tab
NoneDone == \A i \in DOMAIN deeds : deeds[i].state # "done"

CurrentInv ==
  ~strayed /\ NoneDone => \A p \in Parts : Shown(p) /\ p \notin doubtful => Current(p)

ListInv == ListTypes /\ ScreenInv /\ CurrentInv

LEMMA ListConstants == PageSize \in Nat \ {0} /\ ListPages \subseteq AllPages /\ MaxActs \in Nat
BY ListAssumption

LEMMA FetchFacts ==
  ASSUME ListTypes, NEW i \in DOMAIN asks
  PROVE  /\ asks[i] \in FetchRecords /\ asks[i].filter \in Groups \cup {"all"} /\ asks[i].offset \in Nat
         /\ asks[i].asked \subseteq Parts /\ asks[i].got \subseteq Parts /\ asks[i].later \subseteq Parts
         /\ asks[i].rows \in Tables /\ asks[i].extra \in Counts /\ asks[i].failed \in BOOLEAN
         /\ asks[i].passed \subseteq Parts
<1>1. asks \in Seq(FetchRecords)
  BY DEF ListTypes
<1>2. asks[i] \in FetchRecords
  BY <1>1
<1> QED
  BY <1>2 DEF FetchRecords

LEMMA ScreenFacts ==
  ListTypes => /\ shows \in ScreenRecords /\ shows.filter \in Groups \cup {"all"} /\ shows.offset \in Nat
               /\ shows.loading \in BOOLEAN /\ shows.error \in BOOLEAN /\ shows.tab \in BOOLEAN
               /\ shows.dialog \in Things \cup {0, -1} /\ shows.rows \in Tables /\ shows.extra \in Counts
               /\ asks \in Seq(FetchRecords) /\ deeds \in Seq(DeedRecords) /\ list \in AllPages
BY ListConstants DEF ListTypes, ScreenRecords

LEMMA CountFacts == \A s \in SUBSET Things : Cardinality(s) \in Nat
<1>1. IsFiniteSet(Things)
  <2>1. IsFiniteSet({1})
    BY FS_Singleton
  <2>2. IsFiniteSet({1} \cup {2})
    BY <2>1, FS_AddElement
  <2>3. Things = {1} \cup {2}
    BY DEF Things
  <2> QED
    BY <2>2, <2>3
<1> QED
  BY <1>1, FS_Subset, FS_CardinalityType

\* What the server answers.
LEMMA ListingFacts ==
  ASSUME ListTypes, NEW filter, NEW offset
  PROVE  Listing(filter, offset) \in Tables /\ Extra(filter) \in Counts
<1> DEFINE found == IF Filtered THEN Matching(filter) ELSE Matching("all")
           Rank(t) == Cardinality({u \in found : u < t})
           window == IF Paged THEN {t \in found : Rank(t) \in offset .. offset + PageSize - 1} ELSE found
           counted == IF list = "analytics" THEN Matching(filter) ELSE Matching("all")
<1>1. found \subseteq Things /\ \A t \in found : things[t] \in Groups
  BY DEF Matching, ListTypes
<1>2. Cardinality(found) \in Nat
  BY <1>1, CountFacts
<1>3. window \subseteq found
  OBVIOUS
<1>4. Listing(filter, offset) = [rows |-> [t \in window |-> things[t]], total |-> Cardinality(found)]
  BY DEF Listing
<1>5. \A k : Cardinality({t \in counted : things[t] = k}) \in Nat
  <2>1. \A k : {t \in counted : things[t] = k} \subseteq Things
    BY DEF Matching
  <2> QED
    BY <2>1, CountFacts
<1>6. Extra(filter) = [k \in Groups |-> Cardinality({t \in counted : things[t] = k})]
  BY DEF Extra
<1> HIDE DEF found, window, counted
<1>7. [t \in window |-> things[t]] \in [window -> Groups] /\ window \in SUBSET Things
  BY <1>1, <1>3
<1>8. Listing(filter, offset) \in Tables
  <2> DEFINE shown == [t \in window |-> things[t]]
  <2>1. shown \in UNION {[D -> Groups] : D \in SUBSET Things}
    BY <1>7
  <2> HIDE DEF shown
  <2> QED
    BY <1>2, <1>4, <2>1 DEF Tables, shown
<1>9. Extra(filter) \in Counts
  BY <1>5, <1>6 DEF Counts
<1> QED
  BY <1>8, <1>9

\* A page that does not send its filter and offset is answered the same whatever they are.
LEMMA Unfiltered ==
  ASSUME NEW f, NEW o, NEW g, NEW q
  PROVE  /\ ~Filtered => Listing(f, o) = Listing(g, q)
         /\ Filtered /\ f = g /\ o = q => Listing(f, o) = Listing(g, q)
         /\ (list = "analytics" => f = g) => Extra(f) = Extra(g)
<1>1. Paged => Filtered
  BY DEF Paged, Filtered
<1> QED
  BY <1>1 DEF Listing, Extra

LEMMA NowSame ==
  ASSUME NEW p, list' = list, things' = things, shows'.filter = shows.filter, shows'.offset = shows.offset
  PROVE  Now(p)' = Now(p)
BY DEF Now, Listing, Extra, Matching, Filtered, Paged

LEMMA NowSameUnfiltered ==
  ASSUME ~Filtered, list' = list, things' = things
  PROVE  Now("rows")' = Now("rows")
<1>1. Listing(shows.filter, shows.offset)' = Listing(shows'.filter, shows'.offset)
  BY DEF Listing, Matching, Filtered, Paged
<1> QED
  BY <1>1, Unfiltered DEF Now

LEMMA PagesSame == list' = list => /\ Filtered' = Filtered /\ Paged' = Paged /\ AtOnce' = AtOnce /\ Later' = Later
                                  /\ Spins' = Spins /\ KeepsError' = KeepsError
BY DEF Filtered, Paged, AtOnce, Later, Spins, KeepsError

LEMMA NewFetch ==
  ASSUME NEW f \in Groups \cup {"all"}, NEW o \in Nat, NEW parts \in SUBSET Parts
  PROVE  LET a == Fetch(f, o, parts) IN
         /\ a \in FetchRecords /\ a.filter = f /\ a.offset = o /\ a.asked = parts /\ a.got = {}
         /\ a.later = Later /\ ~a.failed /\ a.passed = {}
<1>1. Bare \in Tables
  <2>1. [t \in {} |-> "a"] \in [{} -> Groups] /\ {} \in SUBSET Things
    OBVIOUS
  <2>2. [t \in {} |-> "a"] \in UNION {[D -> Groups] : D \in SUBSET Things}
    BY <2>1
  <2> QED
    BY <2>2 DEF Bare, Tables
<1>2. NoExtra \in Counts
  BY DEF NoExtra, Counts
<1>3. Later \subseteq Parts
  BY DEF Later, Parts
<1> QED
  BY <1>1, <1>2, <1>3 DEF Fetch, FetchRecords

\* What a fetch has still to bring.
Brings(a) == a.asked \cup a.later

\* One fetch or two are begun, each after all that were under way, for the parts.
BegunFor(f, o, parts) ==
  /\ asks' \in Seq(FetchRecords)
  /\ \A k \in DOMAIN asks : k \in DOMAIN asks' /\ asks'[k] = asks[k]
  /\ \A k \in DOMAIN asks' \ DOMAIN asks :
       /\ asks'[k].filter = f /\ asks'[k].offset = o /\ asks'[k].got = {} /\ ~asks'[k].failed
       /\ asks'[k].passed = {} /\ Brings(asks'[k]) \subseteq parts
       /\ asks'[k].later \subseteq Later /\ asks'[k].asked \cap asks'[k].later = {}
  /\ \A p \in parts : \E n \in DOMAIN asks' \ DOMAIN asks :
       p \in Brings(asks'[n]) /\ \A k \in DOMAIN asks' : p \in Brings(asks'[k]) => k <= n

LEMMA BegunOne ==
  ASSUME ListTypes, NEW f \in Groups \cup {"all"}, NEW o \in Nat, NEW parts \in SUBSET Parts,
         parts \cap Later = {}, asks' = Append(asks, Fetch(f, o, parts))
  PROVE  BegunFor(f, o, parts \cup Later) /\ \E k \in DOMAIN asks' : asks'[k].asked = parts
<1> DEFINE a == Fetch(f, o, parts)
           n == Len(asks) + 1
<1>1. /\ a \in FetchRecords /\ a.filter = f /\ a.offset = o /\ a.asked = parts /\ a.got = {}
      /\ a.later = Later /\ ~a.failed /\ a.passed = {}
  BY NewFetch
<1>s. asks \in Seq(FetchRecords)
  BY DEF ListTypes
<1> HIDE DEF a
<1>2. /\ asks' \in Seq(FetchRecords) /\ n \notin DOMAIN asks /\ DOMAIN asks' = DOMAIN asks \cup {n}
      /\ asks'[n] = a /\ (\A i \in DOMAIN asks : asks'[i] = asks[i]) /\ n \in Nat
      /\ \A i \in DOMAIN asks : i \in Nat /\ i < n
  BY <1>1, <1>s, AppendedFacts DEF a
<1> HIDE DEF n
<1>3. Brings(asks'[n]) = parts \cup Later
  BY <1>1, <1>2 DEF Brings
<1>4. \A k \in DOMAIN asks' : k <= n
  BY <1>2
<1>5. DOMAIN asks' \ DOMAIN asks = {n}
  BY <1>2
<1> QED
  BY <1>1, <1>2, <1>3, <1>4, <1>5 DEF BegunFor

LEMMA BegunTwo ==
  ASSUME ListTypes, NEW f \in Groups \cup {"all"}, NEW o \in Nat, Later = {},
         asks' = Append(Append(asks, Fetch(f, o, {"rows"})), Fetch(f, o, {"extra"}))
  PROVE  BegunFor(f, o, Parts) /\ \E k \in DOMAIN asks' : asks'[k].asked = {"rows"}
<1> DEFINE a == Fetch(f, o, {"rows"})
           b == Fetch(f, o, {"extra"})
           s == Append(asks, a)
           m == Len(asks) + 1
           n == Len(s) + 1
<1>1. /\ a \in FetchRecords /\ a.filter = f /\ a.offset = o /\ a.asked = {"rows"} /\ a.got = {}
      /\ a.later = {} /\ ~a.failed /\ a.passed = {} /\ asks \in Seq(FetchRecords)
  <2>1. {"rows"} \in SUBSET Parts
    BY DEF Parts
  <2> QED
    BY <2>1, NewFetch DEF ListTypes
<1>2. /\ b \in FetchRecords /\ b.filter = f /\ b.offset = o /\ b.asked = {"extra"} /\ b.got = {}
      /\ b.later = {} /\ ~b.failed /\ b.passed = {}
  <2>1. {"extra"} \in SUBSET Parts
    BY DEF Parts
  <2> QED
    BY <2>1, NewFetch
<1> HIDE DEF a, b
<1>3. /\ s \in Seq(FetchRecords) /\ m \notin DOMAIN asks /\ DOMAIN s = DOMAIN asks \cup {m}
      /\ s[m] = a /\ (\A i \in DOMAIN asks : s[i] = asks[i]) /\ m \in Nat
      /\ \A i \in DOMAIN asks : i \in Nat /\ i < m
  BY <1>1, AppendedFacts
<1> HIDE DEF s, m
<1>4. asks' = Append(s, b)
  BY DEF s, a, b
<1>5. /\ asks' \in Seq(FetchRecords) /\ n \notin DOMAIN s /\ DOMAIN asks' = DOMAIN s \cup {n}
      /\ asks'[n] = b /\ (\A i \in DOMAIN s : asks'[i] = s[i]) /\ n \in Nat
      /\ \A i \in DOMAIN s : i \in Nat /\ i < n
  <2>1. s \in Seq(FetchRecords) /\ b \in FetchRecords
    BY <1>2, <1>3
  <2> QED
    <3> DEFINE w == Append(s, b)
    <3>1. /\ w \in Seq(FetchRecords) /\ n \notin DOMAIN s /\ DOMAIN w = DOMAIN s \cup {n}
          /\ w[n] = b /\ (\A i \in DOMAIN s : w[i] = s[i]) /\ n \in Nat
          /\ \A i \in DOMAIN s : i \in Nat /\ i < n
      BY <2>1, AppendedFacts
    <3>2. asks' = w
      BY <1>4
    <3> QED
      BY <3>1, <3>2
<1> HIDE DEF n
<1>6. DOMAIN asks' \ DOMAIN asks = {m, n} /\ asks'[m] = a /\ asks'[n] = b /\ m < n /\ m \in DOMAIN asks'
  BY <1>3, <1>5
<1>7. Brings(asks'[m]) = {"rows"} /\ Brings(asks'[n]) = {"extra"}
  BY <1>1, <1>2, <1>6 DEF Brings
<1>8. \A k \in DOMAIN asks : k \in DOMAIN asks' /\ asks'[k] = asks[k]
  BY <1>3, <1>5
<1>9. \A k \in DOMAIN asks' : k <= n /\ (k = n \/ k <= m)
  BY <1>3, <1>5
<1>10. \A p \in Parts : \E i \in {m, n} :
         p \in Brings(asks'[i]) /\ \A k \in DOMAIN asks' : p \in Brings(asks'[k]) => k <= i
  <2>1. "rows" \in Brings(asks'[m]) /\ \A k \in DOMAIN asks' : "rows" \in Brings(asks'[k]) => k <= m
    BY <1>7, <1>9
  <2>2. "extra" \in Brings(asks'[n]) /\ \A k \in DOMAIN asks' : "extra" \in Brings(asks'[k]) => k <= n
    BY <1>7, <1>9
  <2> QED
    BY <2>1, <2>2 DEF Parts
<1>11. \A k \in {m, n} : /\ asks'[k].filter = f /\ asks'[k].offset = o /\ asks'[k].got = {} /\ ~asks'[k].failed
                         /\ asks'[k].passed = {} /\ Brings(asks'[k]) \subseteq Parts
                         /\ asks'[k].later \subseteq Later /\ asks'[k].asked \cap asks'[k].later = {}
  BY <1>1, <1>2, <1>6, <1>7 DEF Parts
<1>12. BegunFor(f, o, Parts)
  BY <1>5, <1>6, <1>8, <1>10, <1>11 DEF BegunFor
<1> QED
  BY <1>1, <1>6, <1>12

\* A part that is asked for again, for what is on the screen.
LEMMA BegunCurrent ==
  ASSUME ListTypes, NEW f, NEW o, NEW parts, NEW p \in parts, BegunFor(f, o, parts), list' = list,
         Filtered => f = shows'.filter /\ o = shows'.offset
  PROVE  Current(p)'
<1>1. PICK n \in DOMAIN asks' \ DOMAIN asks :
        p \in Brings(asks'[n]) /\ \A k \in DOMAIN asks' : p \in Brings(asks'[k]) => k <= n
  BY DEF BegunFor
<1>2. /\ asks'[n].filter = f /\ asks'[n].offset = o /\ asks'[n].got = {} /\ ~asks'[n].failed
      /\ asks'[n].passed = {}
  BY <1>1 DEF BegunFor
<1>3. n \in Bearers(p)' /\ \A k \in Bearers(p)' : k <= n
  BY <1>1 DEF Bearers, Brings
<1>4. Filtered' => asks'[n].filter = shows'.filter /\ asks'[n].offset = shows'.offset
  BY <1>2, PagesSame
<1> QED
  BY <1>2, <1>3, <1>4 DEF Current

\* A part that is not asked for again.
LEMMA BegunLeaves ==
  ASSUME ListTypes, NEW f, NEW o, NEW parts, NEW p, p \notin parts, BegunFor(f, o, parts), list' = list,
         Part(p, shows)' = Part(p, shows), Now(p)' = Now(p), outrun' = outrun,
         Filtered => shows'.filter = shows.filter /\ shows'.offset = shows.offset, Current(p)
  PROVE  Current(p)'
<1>1. Bearers(p)' = Bearers(p)
  BY DEF BegunFor, Bearers, Brings
<1>2. \A k \in Bearers(p) : asks'[k] = asks[k]
  BY DEF BegunFor, Bearers
<1>3. CASE /\ \A i \in Bearers(p) : p \in asks[i].passed
           /\ p \notin outrun => Part(p, shows) = Now(p)
  BY <1>1, <1>2, <1>3 DEF Current
<1>4. ASSUME NEW n \in Bearers(p), \A i \in Bearers(p) : i <= n,
             p \notin asks[n].passed, ~asks[n].failed,
             Filtered => asks[n].filter = shows.filter /\ asks[n].offset = shows.offset,
             p \in asks[n].got => Part(p, asks[n]) = Now(p)
      PROVE  Current(p)'
  <2>1. asks'[n] = asks[n]
    BY <1>2
  <2>2. (Part(p, asks[n]))' = Part(p, asks[n])
    BY <2>1 DEF Part
  <2>3. Filtered' => asks'[n].filter = shows'.filter /\ asks'[n].offset = shows'.offset
    BY <1>4, <2>1, PagesSame
  <2> QED
    BY <1>1, <1>4, <2>1, <2>2, <2>3 DEF Current
<1> QED
  BY <1>3, <1>4 DEF Current

\* Nothing that the pages' invariant speaks of changes but the screen's flags.
LEMMA StaysCurrent ==
  ASSUME NEW p, Current(p), list' = list, asks' = asks, outrun' = outrun,
         Part(p, shows)' = Part(p, shows), Now(p)' = Now(p),
         Filtered => shows'.filter = shows.filter /\ shows'.offset = shows.offset
  PROVE  Current(p)'
<1>1. Bearers(p)' = Bearers(p)
  BY DEF Bearers
<1>2. \A n \in Bearers(p) : Part(p, asks[n])' = Part(p, asks[n])
  BY DEF Part
<1>3. Filtered' = Filtered
  BY PagesSame
<1> QED
  BY <1>1, <1>2, <1>3 DEF Current

LEMMA ScreenChanged ==
  ASSUME ListTypes,
         list' = list, outrun' = outrun, things' = things, shows' \in ScreenRecords,
         asks' \in Seq(FetchRecords), deeds' \in Seq(DeedRecords), doubtful' \subseteq Parts,
         strayed' \in BOOLEAN
  PROVE  ListTypes'
BY DEF ListTypes

LEMMA JoinedOne == ASSUME NEW S, NEW s \in Seq(S), NEW c \in S PROVE s \o <<c>> = Append(s, c)
BY AppendIsConcat

LEMMA JoinedNone == ASSUME NEW S, NEW s \in Seq(S) PROVE s \o <<>> = s /\ \A c \in S : Append(s, c) \o <<>> = Append(s, c)
<1>1. \A c \in S : Append(s, c) \in Seq(S)
  OBVIOUS
<1> QED
  BY <1>1, ConcatEmptySeq

\* Refetch, for a changed filter or offset or an opened tab.
LEMMA RefetchKeeps ==
  ASSUME ListInv, NEW v \in ScreenRecords, NEW parts \in SUBSET Parts, Refetch(v, parts),
         UNCHANGED <<list, things, outrun, deeds>>,
         v.rows = shows.rows, v.extra = shows.extra, v.loading = shows.loading, v.error = shows.error,
         v.tab => list = "analytics",
         \/ parts = AtOnce /\ Filtered
         \/ parts = {} /\ list = "analytics" /\ v.tab /\ v.filter = shows.filter /\ v.offset = shows.offset
  PROVE  ListInv'
<1>t. ListTypes /\ ScreenInv /\ CurrentInv /\ shows.loading \in BOOLEAN /\ shows.error \in BOOLEAN
  BY ScreenFacts DEF ListInv
<1> DEFINE loading == v.loading \/ (Spins /\ "rows" \in parts)
           error == v.error /\ "rows" \notin parts
<1>1. shows' = [v EXCEPT !.loading = loading, !.error = error]
  BY DEF Refetch
<1>2. loading \in BOOLEAN /\ error \in BOOLEAN
  BY <1>t DEF Spins
<1> HIDE DEF loading, error
<1>3. /\ shows' \in ScreenRecords /\ shows'.filter = v.filter /\ shows'.offset = v.offset /\ shows'.tab = v.tab
      /\ shows'.loading = loading /\ shows'.error = error /\ shows'.rows = v.rows /\ shows'.extra = v.extra
  BY <1>1, <1>2 DEF ScreenRecords
<1>4. v.filter \in Groups \cup {"all"} /\ v.offset \in Nat /\ v.tab \in BOOLEAN
  BY DEF ScreenRecords
<1> DEFINE all == IF list = "analytics" /\ v.tab THEN parts \cup {"extra"} ELSE parts
<1>5. strayed' = FALSE /\ doubtful' = doubtful \ all
  BY DEF Refetch
<1>6. AtOnce \subseteq Parts /\ "rows" \in AtOnce /\ (list = "analytics" => AtOnce = {"rows"} /\ Later = {} /\ Filtered)
      /\ (Filtered => Later = {}) /\ AtOnce \cap Later = {} /\ asks \in Seq(FetchRecords)
  BY ScreenFacts DEF ListInv, AtOnce, Later, Filtered, Parts
<1>7. BegunFor(v.filter, v.offset, all) /\ ("rows" \in parts => \E k \in DOMAIN asks' : "rows" \in asks'[k].asked)
  <2>1. CASE list # "analytics"
    <3>1. parts = AtOnce /\ all = AtOnce /\ Later = {} /\ AtOnce \cup Later = AtOnce
      BY <1>6, <2>1
    <3>2. asks' = Append(asks, Fetch(v.filter, v.offset, AtOnce))
      BY <2>1, <3>1 DEF Refetch
    <3>3. BegunFor(v.filter, v.offset, AtOnce \cup Later) /\ \E k \in DOMAIN asks' : asks'[k].asked = AtOnce
      BY <1>4, <1>6, <1>t, <3>2, BegunOne, ZenonT(40)
    <3> QED
      BY <1>6, <3>1, <3>3
  <2>2. CASE list = "analytics" /\ parts = AtOnce /\ v.tab
    <3> DEFINE a == Fetch(v.filter, v.offset, {"rows"})
               b == Fetch(v.filter, v.offset, {"extra"})
    <3>1. asks' = (asks \o <<a>>) \o <<b>>
      BY <1>6, <2>2 DEF Refetch
    <3>2. a \in FetchRecords /\ b \in FetchRecords
      BY <1>4, NewFetch DEF Parts
    <3> HIDE DEF a, b
    <3>3. asks \o <<a>> = Append(asks, a)
      BY <1>6, <3>2, JoinedOne
    <3>4. Append(asks, a) \in Seq(FetchRecords)
      BY <1>6, <3>2
    <3>5. Append(asks, a) \o <<b>> = Append(Append(asks, a), b)
      BY <3>2, <3>4, JoinedOne
    <3>6. BegunFor(v.filter, v.offset, Parts) /\ \E k \in DOMAIN asks' : asks'[k].asked = {"rows"}
      BY <1>4, <1>6, <1>t, <2>2, <3>1, <3>3, <3>5, BegunTwo DEF a, b
    <3>7. all = Parts
      BY <1>6, <2>2 DEF Parts
    <3> QED
      BY <3>6, <3>7
  <2>3. CASE list = "analytics" /\ parts = AtOnce /\ ~v.tab
    <3> DEFINE a == Fetch(v.filter, v.offset, {"rows"})
    <3>1. asks' = (asks \o <<a>>) \o <<>>
      BY <1>6, <2>3 DEF Refetch
    <3>2. a \in FetchRecords
      BY <1>4, NewFetch DEF Parts
    <3> HIDE DEF a
    <3>3. asks' = Append(asks, a)
      BY <1>6, <3>1, <3>2, JoinedOne, JoinedNone
    <3>4. {"rows"} \in SUBSET Parts /\ {"rows"} \cap Later = {}
      BY <1>6, <2>3 DEF Parts
    <3>5. BegunFor(v.filter, v.offset, {"rows"} \cup Later) /\ \E k \in DOMAIN asks' : asks'[k].asked = {"rows"}
      BY <1>4, <1>t, <3>3, <3>4, BegunOne DEF a
    <3>6. all = {"rows"} \cup Later
      BY <1>6, <2>3
    <3> QED
      BY <3>5, <3>6
  <2>4. CASE list = "analytics" /\ parts = {} /\ v.tab
    <3> DEFINE a == Fetch(v.filter, v.offset, {"extra"})
    <3>1. asks' = (asks \o <<>>) \o <<a>>
      BY <1>6, <2>4 DEF Refetch
    <3>2. a \in FetchRecords
      BY <1>4, NewFetch DEF Parts
    <3> HIDE DEF a
    <3>3. asks' = Append(asks, a)
      BY <1>6, <3>1, <3>2, JoinedOne, JoinedNone
    <3>4. {"extra"} \in SUBSET Parts /\ {"extra"} \cap Later = {}
      BY <1>6, <2>4 DEF Parts
    <3>5. BegunFor(v.filter, v.offset, {"extra"} \cup Later)
      BY <1>4, <1>t, <3>3, <3>4, BegunOne DEF a
    <3>6. all = {"extra"} \cup Later /\ "rows" \notin parts
      BY <1>6, <2>4
    <3> QED
      BY <3>5, <3>6
  <2> QED
    BY <1>4, <2>1, <2>2, <2>3, <2>4
<1>8. all \subseteq Parts /\ ("rows" \in all <=> "rows" \in parts) /\ (parts \subseteq all)
      /\ (list = "analytics" /\ v.tab => "extra" \in all)
  BY DEF Parts
<1>9. parts = AtOnce \/ (list = "analytics" /\ all = {"extra"})
  OBVIOUS
<1> HIDE DEF all
<1>10. ListTypes'
  BY <1>3, <1>5, <1>7, <1>t, ScreenChanged DEF BegunFor, ListTypes
<1>11. ScreenInv'
  <2>0. \A k \in DOMAIN asks' : asks'[k].later \subseteq Later' /\ asks'[k].asked \cap asks'[k].later = {}
    <3> SUFFICES ASSUME NEW k \in DOMAIN asks'
                 PROVE  asks'[k].later \subseteq Later /\ asks'[k].asked \cap asks'[k].later = {}
      BY PagesSame
    <3>1. CASE k \in DOMAIN asks
      BY <1>7, <1>t, <3>1 DEF BegunFor, ScreenInv, KeepsError
    <3>2. CASE k \notin DOMAIN asks
      BY <1>7, <3>2 DEF BegunFor
    <3> QED
      BY <3>1, <3>2
  <2>1. loading => \E i \in DOMAIN asks' : "rows" \in asks'[i].asked \/ list = "redirects"
    BY <1>7, <1>t DEF loading, ScreenInv, BegunFor, KeepsError
  <2>2. error => KeepsError /\ "rows" \in doubtful'
    BY <1>5, <1>8, <1>t DEF error, ScreenInv, KeepsError
  <2> QED
    BY <1>3, <1>5, <1>t, <2>0, <2>1, <2>2 DEF ScreenInv, KeepsError
<1>12. CurrentInv'
  <2> SUFFICES ASSUME NoneDone', NEW p \in Parts, Shown(p)', p \notin doubtful' PROVE Current(p)'
    BY DEF CurrentInv
  <2>1. CASE p \in all
    BY <1>3, <1>7, <1>t, <2>1, BegunCurrent
  <2>2. CASE p \notin all
    <3>1. p \in {"rows", "extra"} /\ NoneDone
      BY DEF Parts, NoneDone
    <3>2. ~(parts = AtOnce)
      <4> SUFFICES ASSUME parts = AtOnce PROVE FALSE
        OBVIOUS
      <4>1. p = "extra"
        BY <1>6, <1>8, <2>2, <3>1
      <4>2. list \notin {"newsletter", "redirects"}
        BY <1>8, <2>2, <4>1 DEF AtOnce, Filtered
      <4>3. v.tab
        BY <1>3, <4>1, <4>2 DEF Shown
      <4> QED
        BY <1>8, <2>2, <4>1, <4>3
    <3>3. list = "analytics" /\ all = {"extra"} /\ p = "rows" /\ v.filter = shows.filter /\ v.offset = shows.offset
      BY <1>9, <2>2, <3>1, <3>2
    <3>4. Current(p)
      BY <1>5, <1>t, <3>1, <3>3 DEF CurrentInv, ScreenInv, Shown, KeepsError
    <3>5. Part(p, shows)' = Part(p, shows) /\ Now(p)' = Now(p)
      BY <1>3, <3>3, NowSame DEF Part
    <3>6. shows'.filter = shows.filter /\ shows'.offset = shows.offset
      BY <1>3, <3>3
    <3> QED
      BY <1>7, <1>t, <2>2, <3>4, <3>5, <3>6, BegunLeaves
  <2> QED
    BY <2>1, <2>2
<1> QED
  BY <1>10, <1>11, <1>12 DEF ListInv

\* The screen's dialog, tab or unsent filter changes, or a change is begun.
LEMMA ScreenKeeps ==
  ASSUME ListInv, UNCHANGED <<list, things, asks, outrun, doubtful, strayed>>,
         shows' \in ScreenRecords, shows'.offset = shows.offset, shows'.loading = shows.loading,
         shows'.error = shows.error, shows'.rows = shows.rows, shows'.extra = shows.extra,
         shows'.tab => shows.tab,
         shows'.filter = shows.filter \/ (~Filtered /\ list # "redirects"),
         deeds' \in Seq(DeedRecords), NoneDone' => NoneDone, KeepsError => deeds' = deeds
  PROVE  ListInv'
<1>t. ListTypes /\ ScreenInv /\ CurrentInv
  BY DEF ListInv
<1>1. ListTypes'
  BY <1>t, ScreenChanged DEF ListTypes
<1>2. ScreenInv'
  BY <1>t, PagesSame DEF ScreenInv, KeepsError
<1>3. CurrentInv'
  <2> SUFFICES ASSUME ~strayed, NoneDone', NEW p \in Parts, Shown(p)', p \notin doubtful PROVE Current(p)'
    BY DEF CurrentInv
  <2>1. Shown(p) /\ Current(p)
    BY <1>t DEF CurrentInv, Shown
  <2>2. Part(p, shows)' = Part(p, shows)
    BY DEF Part
  <2>3. CASE shows'.filter = shows.filter
    BY <2>1, <2>2, <2>3, NowSame, StaysCurrent
  <2>4. CASE ~Filtered /\ list # "redirects"
    <3>1. list \notin {"newsletter", "analytics", "redirects"}
      BY <2>4 DEF Filtered
    <3>2. p = "rows"
      BY <1>t, <2>1, <3>1 DEF Shown, ScreenInv, KeepsError
    <3>3. Now(p)' = Now(p)
      BY <2>4, <3>2, NowSameUnfiltered
    <3> QED
      BY <2>1, <2>2, <2>4, <3>3, StaysCurrent
  <2> QED
    BY <2>3, <2>4
<1> QED
  BY <1>1, <1>2, <1>3 DEF ListInv

LEMMA SetFilterKeeps == ASSUME ListInv, NEW f \in Groups \cup {"all"}, SetFilter(f) PROVE ListInv'
<1> DEFINE v == [shows EXCEPT !.filter = f]
<1>t. ListTypes /\ ScreenInv /\ shows \in ScreenRecords /\ deeds \in Seq(DeedRecords)
  BY ScreenFacts DEF ListInv
<1>1. /\ v \in ScreenRecords /\ v.filter = f /\ v.offset = shows.offset /\ v.loading = shows.loading
      /\ v.error = shows.error /\ v.tab = shows.tab /\ v.rows = shows.rows /\ v.extra = shows.extra
  BY <1>t DEF ScreenRecords
<1>2. UNCHANGED <<list, things, outrun, deeds>> /\ list \notin {"links", "redirects"}
  BY DEF SetFilter, Act
<1>3. v.tab => list = "analytics"
  BY <1>1, <1>t DEF ScreenInv, KeepsError
<1>4. CASE Filtered
  <2>1. Refetch(v, AtOnce)
    BY <1>4 DEF SetFilter
  <2>2. AtOnce \in SUBSET Parts
    BY DEF AtOnce, Parts
  <2> HIDE DEF v
  <2> QED
    BY <1>1, <1>2, <1>3, <1>4, <2>1, <2>2, RefetchKeeps
<1>5. CASE ~Filtered
  <2>1. shows' = v /\ UNCHANGED <<asks, doubtful, strayed>>
    BY <1>5 DEF SetFilter
  <2> HIDE DEF v
  <2>2. NoneDone' => NoneDone
    BY <1>2 DEF NoneDone
  <2> QED
    BY <1>1, <1>2, <1>5, <1>t, <2>1, <2>2, ScreenKeeps
<1> QED
  BY <1>4, <1>5

LEMMA TurnToKeeps == ASSUME ListInv, NEW o \in Nat, TurnTo(o) PROVE ListInv'
<1> DEFINE v == [shows EXCEPT !.offset = o]
<1>t. ListTypes /\ ScreenInv /\ shows \in ScreenRecords
  BY ScreenFacts DEF ListInv
<1>1. /\ v \in ScreenRecords /\ v.filter = shows.filter /\ v.offset = o /\ v.loading = shows.loading
      /\ v.error = shows.error /\ v.tab = shows.tab /\ v.rows = shows.rows /\ v.extra = shows.extra
  BY <1>t DEF ScreenRecords
<1>2. UNCHANGED <<list, things, outrun, deeds>> /\ Paged /\ Filtered /\ Refetch(v, AtOnce)
  BY DEF TurnTo, Act, Paged, Filtered
<1>3. v.tab => list = "analytics"
  BY <1>1, <1>t DEF ScreenInv, KeepsError
<1>4. AtOnce \in SUBSET Parts
  BY DEF AtOnce, Parts
<1> HIDE DEF v
<1> QED
  BY <1>1, <1>2, <1>3, <1>4, RefetchKeeps

LEMMA RefreshKeeps == ASSUME ListInv, Refresh PROVE ListInv'
<1>t. ListTypes /\ ScreenInv /\ shows \in ScreenRecords /\ deeds \in Seq(DeedRecords)
  BY ScreenFacts DEF ListInv
<1>0. UNCHANGED <<list, things, outrun, deeds>>
  BY DEF Refresh, Act
<1>1. CASE list = "newsletter" /\ Refetch(shows, AtOnce)
  <2>1. AtOnce \in SUBSET Parts /\ Filtered /\ (shows.tab => list = "analytics")
    BY <1>1, <1>t DEF AtOnce, Parts, Filtered, ScreenInv, KeepsError
  <2> QED
    BY <1>0, <1>1, <1>t, <2>1, RefetchKeeps
<1>2. CASE list = "analytics" /\ ~shows.tab /\ Refetch([shows EXCEPT !.tab = TRUE], {})
  <2> DEFINE v == [shows EXCEPT !.tab = TRUE]
  <2>1. /\ v \in ScreenRecords /\ v.filter = shows.filter /\ v.offset = shows.offset
        /\ v.loading = shows.loading /\ v.error = shows.error /\ v.tab /\ v.rows = shows.rows
        /\ v.extra = shows.extra
    BY <1>t DEF ScreenRecords
  <2>2. Refetch(v, {}) /\ {} \in SUBSET Parts
    BY <1>2
  <2> HIDE DEF v
  <2> QED
    BY <1>0, <1>2, <2>1, <2>2, RefetchKeeps
<1>3. CASE shows' = [shows EXCEPT !.tab = FALSE] /\ UNCHANGED <<asks, doubtful, strayed>>
  <2>1. /\ shows' \in ScreenRecords /\ shows'.filter = shows.filter /\ shows'.offset = shows.offset
        /\ shows'.loading = shows.loading /\ shows'.error = shows.error /\ ~shows'.tab
        /\ shows'.rows = shows.rows /\ shows'.extra = shows.extra
    BY <1>3, <1>t DEF ScreenRecords
  <2>2. NoneDone' => NoneDone
    BY <1>0 DEF NoneDone
  <2> QED
    BY <1>0, <1>3, <1>t, <2>1, <2>2, ScreenKeeps
<1> QED
  BY <1>1, <1>2, <1>3 DEF Refresh

LEMMA ScreenOnly ==
  ASSUME ListTypes, NEW t \in Things \cup {0, -1}
  PROVE  LET v == [shows EXCEPT !.dialog = t] IN
         /\ v \in ScreenRecords /\ v.filter = shows.filter /\ v.offset = shows.offset
         /\ v.loading = shows.loading /\ v.error = shows.error /\ v.tab = shows.tab
         /\ v.rows = shows.rows /\ v.extra = shows.extra /\ v.dialog = t
<1>1. shows \in ScreenRecords
  BY ScreenFacts
<1> QED
  BY <1>1 DEF ScreenRecords

LEMMA SetDialogKeeps == ASSUME ListInv, NEW t \in Things \cup {-1, 0}, SetDialog(t) PROVE ListInv'
<1> DEFINE v == [shows EXCEPT !.dialog = t]
<1>t. ListTypes /\ deeds \in Seq(DeedRecords)
  BY ScreenFacts DEF ListInv
<1>1. /\ v \in ScreenRecords /\ v.filter = shows.filter /\ v.offset = shows.offset
      /\ v.loading = shows.loading /\ v.error = shows.error /\ v.tab = shows.tab
      /\ v.rows = shows.rows /\ v.extra = shows.extra
  BY <1>t, ScreenOnly
<1>2. shows' = v /\ UNCHANGED <<list, things, asks, deeds, outrun, doubtful, strayed>>
  BY DEF SetDialog
<1> HIDE DEF v
<1>3. NoneDone' => NoneDone
  BY <1>2 DEF NoneDone
<1> QED
  BY <1>1, <1>2, <1>3, <1>t, ScreenKeeps

LEMMA StartKeeps ==
  ASSUME ListInv, NEW what \in {"delete", "update", "create", "publish"}, NEW t \in Things \cup {-1, 0}, Start(what, t)
  PROVE  ListInv'
<1> DEFINE dialog == IF list = "newsletter" THEN 0 ELSE shows.dialog
           v == [shows EXCEPT !.dialog = dialog]
           d == [what |-> what, of |-> t, filter |-> shows.filter, offset |-> shows.offset, state |-> "sent"]
<1>t. ListTypes /\ deeds \in Seq(DeedRecords) /\ shows.filter \in Groups \cup {"all"} /\ shows.offset \in Nat
      /\ shows.dialog \in Things \cup {0, -1}
  BY ScreenFacts DEF ListInv
<1>0. dialog \in Things \cup {0, -1}
  BY <1>t
<1>1. /\ v \in ScreenRecords /\ v.filter = shows.filter /\ v.offset = shows.offset
      /\ v.loading = shows.loading /\ v.error = shows.error /\ v.tab = shows.tab
      /\ v.rows = shows.rows /\ v.extra = shows.extra
  BY <1>0, <1>t, ScreenOnly
<1>2. /\ shows' = v /\ deeds' = Append(deeds, d) /\ what \in Deeds
      /\ UNCHANGED <<list, things, asks, outrun, doubtful, strayed>>
  BY DEF Start, Act
<1>3. d \in DeedRecords /\ d.state = "sent"
  BY <1>t DEF DeedRecords, Things
<1> HIDE DEF v, d, dialog
<1>4. ~KeepsError
  BY <1>2 DEF Deeds, KeepsError
<1>5. deeds' \in Seq(DeedRecords) /\ \A i \in DOMAIN deeds : i \in DOMAIN deeds' /\ deeds'[i] = deeds[i]
  BY <1>2, <1>3, <1>t, AppendedFacts
<1>6. NoneDone' => NoneDone
  BY <1>5 DEF NoneDone
<1> QED
  BY <1>1, <1>2, <1>4, <1>5, <1>6, ScreenKeeps

-----------------------------------------------------------------------------
(* The server of the lists.                                                *)

\* Others have changed things, or a change is lost: nothing is claimed of what is shown.
LEMMA DoubtfulKeeps ==
  ASSUME ListInv, UNCHANGED <<list, shows, asks, outrun, strayed>>,
         things' \in [Things -> Groups \cup {"none"}], doubtful' = Parts,
         deeds' \in Seq(DeedRecords), KeepsError => deeds' = deeds
  PROVE  ListInv'
<1>1. ListTypes'
  BY DEF ListInv, ListTypes
<1>2. ScreenInv'
  BY PagesSame DEF ListInv, ScreenInv, Parts, KeepsError
<1>3. CurrentInv'
  BY DEF CurrentInv
<1> QED
  BY <1>1, <1>2, <1>3 DEF ListInv

LEMMA ElsewhereKeeps == ASSUME ListInv, Elsewhere PROVE ListInv'
<1>t. ListTypes /\ deeds \in Seq(DeedRecords) /\ things \in [Things -> Groups \cup {"none"}]
  BY ScreenFacts DEF ListInv, ListTypes
<1>1. /\ UNCHANGED <<list, shows, asks, deeds, outrun, strayed>> /\ doubtful' = Parts
      /\ \E t \in Things, k \in Groups \cup {"none"} : things' = [things EXCEPT ![t] = k]
  BY DEF Elsewhere, Parts
<1>2. things' \in [Things -> Groups \cup {"none"}]
  BY <1>1, <1>t
<1> QED
  BY <1>1, <1>2, <1>t, DoubtfulKeeps

\* An answered change.
LEMMA DeedAnswered ==
  ASSUME ListTypes, NEW i \in DOMAIN deeds, NEW state \in {"done", "refused"},
         deeds' = [deeds EXCEPT ![i].state = state]
  PROVE  /\ deeds' \in Seq(DeedRecords) /\ DOMAIN deeds' = DOMAIN deeds /\ deeds'[i].state = state
         /\ \A k \in DOMAIN deeds : k # i => deeds'[k] = deeds[k]
<1> DEFINE d == [deeds[i] EXCEPT !.state = state]
<1>1. deeds \in Seq(DeedRecords)
  BY DEF ListTypes
<1>2. deeds[i] \in DeedRecords
  BY <1>1
<1>3. d \in DeedRecords /\ d.state = state
  BY <1>2 DEF DeedRecords
<1>4. deeds' = [deeds EXCEPT ![i] = d]
  OBVIOUS
<1> HIDE DEF d
<1> QED
  BY <1>1, <1>3, <1>4

LEMMA NoDeeds == ASSUME ListInv, NEW i \in DOMAIN deeds PROVE ~KeepsError
BY DEF ListInv, ScreenInv, KeepsError

LEMMA FailDeedKeeps == ASSUME ListInv, NEW i \in DOMAIN deeds, FailDeed(i) PROVE ListInv'
<1>1. /\ UNCHANGED <<list, things, shows, asks, outrun, strayed>> /\ doubtful' = Parts
      /\ deeds' = [deeds EXCEPT ![i].state = "refused"] /\ ListTypes
  BY DEF FailDeed, Parts, ListInv
<1>2. deeds' \in Seq(DeedRecords) /\ things' \in [Things -> Groups \cup {"none"}]
  BY <1>1, DeedAnswered DEF ListTypes
<1> QED
  BY <1>1, <1>2, DoubtfulKeeps, NoDeeds

LEMMA OutcomeFacts ==
  ASSUME ListTypes, NEW d, d.what \in {"delete", "publish", "update", "create"}, NEW o \in Outcomes(d)
  PROVE  /\ o[1] \in [Things -> Groups \cup {"none"}] /\ o[2] \in {"done", "refused"}
         /\ o[2] = "refused" => o[1] = things
<1> DEFINE there == d.of \in Things /\ things[d.of] # "none"
           Good == {r \in [Things -> Groups \cup {"none"}] \X {"done", "refused"} : r[2] = "refused" => r[1] = things}
<1>0. things \in [Things -> Groups \cup {"none"}] /\ <<things, "refused">> \in Good /\ <<things, "done">> \in Good
  BY DEF ListTypes
<1>1. \A t, k \in Groups \cup {"none"} : <<[things EXCEPT ![t] = k], "done">> \in Good
  BY <1>0
<1>2. ASSUME d.what = "delete" PROVE o \in Good
  BY <1>0, <1>1, <1>2 DEF Outcomes
<1>3. ASSUME d.what = "update" PROVE o \in Good
  BY <1>0, <1>1, <1>3 DEF Outcomes
<1>4. ASSUME d.what = "create" PROVE o \in Good
  <2>1. Outcomes(d) = {<<things, "refused">>} \cup
          {<<[things EXCEPT ![t] = "a"], "done">> : t \in {u \in Things : things[u] = "none"}}
    BY <1>4 DEF Outcomes
  <2>2. o = <<things, "refused">> \/ \E t \in Things : o = <<[things EXCEPT ![t] = "a"], "done">>
    BY <2>1
  <2>3. ASSUME NEW t \in Things PROVE <<[things EXCEPT ![t] = "a"], "done">> \in Good
    BY <1>1 DEF Groups
  <2> HIDE DEF Good
  <2> QED
    BY <1>0, <2>2, <2>3
<1>5. ASSUME d.what = "publish" PROVE o \in Good
  <2>1. Outcomes(d) = {<<things, "done">>} \cup
          {<<[things EXCEPT ![t] = "b"], "done">> : t \in {u \in Things : things[u] = "a"}}
    BY <1>5 DEF Outcomes
  <2>2. o = <<things, "done">> \/ \E t \in Things : o = <<[things EXCEPT ![t] = "b"], "done">>
    BY <2>1
  <2>3. ASSUME NEW t \in Things PROVE <<[things EXCEPT ![t] = "b"], "done">> \in Good
    BY <1>1 DEF Groups
  <2> HIDE DEF Good
  <2> QED
    BY <1>0, <2>2, <2>3
<1>6. o \in Good
  BY <1>2, <1>3, <1>4, <1>5
<1> QED
  BY <1>6

LEMMA ServeDeedKeeps == ASSUME ListInv, NEW i \in DOMAIN deeds, ServeDeed(i) PROVE ListInv'
<1>t. ListTypes /\ ScreenInv /\ CurrentInv /\ deeds \in Seq(DeedRecords) /\ shows \in ScreenRecords
  BY ScreenFacts DEF ListInv
<1>0. deeds[i].what \in {"delete", "publish", "update", "create"}
  <2>1. deeds[i] \in DeedRecords
    BY <1>t
  <2> QED
    BY <2>1 DEF DeedRecords
<1>1. PICK o \in Outcomes(deeds[i]) : things' = o[1] /\ deeds' = [deeds EXCEPT ![i].state = o[2]]
  BY DEF ServeDeed
<1>2. UNCHANGED <<list, shows, asks, outrun, doubtful, strayed>> /\ deeds[i].state = "sent"
  BY DEF ServeDeed
<1>3. /\ o[1] \in [Things -> Groups \cup {"none"}] /\ o[2] \in {"done", "refused"}
      /\ o[2] = "refused" => o[1] = things
  BY <1>0, <1>t, OutcomeFacts
<1>4. /\ deeds' \in Seq(DeedRecords) /\ DOMAIN deeds' = DOMAIN deeds /\ deeds'[i].state = o[2]
      /\ \A k \in DOMAIN deeds : k # i => deeds'[k] = deeds[k]
  BY <1>1, <1>3, <1>t, DeedAnswered
<1>5. CASE o[2] = "refused"
  <2>1. things' = things
    BY <1>1, <1>3, <1>5
  <2>2. NoneDone' => NoneDone
    BY <1>2, <1>4 DEF NoneDone
  <2> QED
    BY <1>2, <1>4, <1>t, <2>1, <2>2, NoDeeds, ScreenKeeps
<1>6. CASE o[2] = "done"
  <2>1. ~NoneDone'
    BY <1>4, <1>6 DEF NoneDone
  <2>2. ListTypes'
    BY <1>1, <1>2, <1>3, <1>4, <1>t DEF ListTypes
  <2>3. ScreenInv'
    BY <1>2, <1>t, NoDeeds, PagesSame DEF ScreenInv, KeepsError
  <2> QED
    BY <2>1, <2>2, <2>3 DEF ListInv, CurrentInv
<1> QED
  BY <1>3, <1>5, <1>6

\* An answer that is on its way, or lost: no fetch is begun or ended.
LEMMA AskChanged ==
  ASSUME NEW S, NEW s \in Seq(S), NEW i \in DOMAIN s, NEW a \in S
  PROVE  LET w == [s EXCEPT ![i] = a] IN
         w \in Seq(S) /\ DOMAIN w = DOMAIN s /\ w[i] = a /\ \A k \in DOMAIN s : k # i => w[k] = s[k]
OBVIOUS

LEMMA ServeFetchKeeps == ASSUME ListInv, NEW i \in DOMAIN asks, ServeFetch(i) PROVE ListInv'
<1>t. ListTypes /\ ScreenInv /\ CurrentInv /\ asks \in Seq(FetchRecords) /\ shows \in ScreenRecords
  BY ScreenFacts DEF ListInv
<1>1. PICK part \in asks[i].asked \ asks[i].got :
        asks' = [asks EXCEPT ![i].got = @ \cup {part},
                   ![i].rows = IF part = "rows" THEN Listing(asks[i].filter, asks[i].offset) ELSE @,
                   ![i].extra = IF part = "extra" THEN Extra(asks[i].filter) ELSE @]
  BY DEF ServeFetch
<1>2. UNCHANGED <<list, things, shows, deeds, outrun, doubtful, strayed>>
  BY DEF ServeFetch
<1> DEFINE old == asks[i]
           rows == IF part = "rows" THEN Listing(old.filter, old.offset) ELSE old.rows
           extra == IF part = "extra" THEN Extra(old.filter) ELSE old.extra
           got == old.got \cup {part}
           a == [old EXCEPT !.got = got, !.rows = rows, !.extra = extra]
<1>3. /\ old \in FetchRecords /\ old.filter \in Groups \cup {"all"} /\ old.offset \in Nat
      /\ old.asked \subseteq Parts /\ old.got \subseteq Parts /\ old.rows \in Tables /\ old.extra \in Counts
  BY <1>t, FetchFacts
<1>4. part \in Parts /\ part \in old.asked /\ part \notin old.got
  BY <1>3
<1>5. rows \in Tables /\ extra \in Counts /\ got \subseteq Parts
  BY <1>3, <1>4, <1>t, ListingFacts
<1>6. asks' = [asks EXCEPT ![i] = a]
  BY <1>1
<1> HIDE DEF old, rows, extra, got
<1>7. /\ a \in FetchRecords /\ a.filter = old.filter /\ a.offset = old.offset /\ a.asked = old.asked
      /\ a.later = old.later /\ a.failed = old.failed /\ a.passed = old.passed /\ a.got = got
      /\ a.rows = rows /\ a.extra = extra
  BY <1>3, <1>5 DEF FetchRecords
<1> HIDE DEF a
<1>8. /\ asks' \in Seq(FetchRecords) /\ DOMAIN asks' = DOMAIN asks /\ asks'[i] = a
      /\ \A k \in DOMAIN asks : k # i => asks'[k] = asks[k]
  BY <1>6, <1>7, <1>t, AskChanged
<1>9. \A k \in DOMAIN asks : /\ asks'[k].filter = asks[k].filter /\ asks'[k].offset = asks[k].offset
                             /\ asks'[k].asked = asks[k].asked /\ asks'[k].later = asks[k].later
                             /\ asks'[k].failed = asks[k].failed /\ asks'[k].passed = asks[k].passed
  BY <1>7, <1>8 DEF old
<1>10. ListTypes'
  BY <1>2, <1>8, <1>t DEF ListTypes
<1>11. ScreenInv'
  BY <1>2, <1>8, <1>9, <1>t, PagesSame DEF ScreenInv, KeepsError
<1>12. CurrentInv'
  <2> SUFFICES ASSUME ~strayed, NoneDone, NEW p \in Parts, Shown(p), p \notin doubtful PROVE Current(p)'
    BY <1>2 DEF CurrentInv, NoneDone, Shown
  <2>0. Current(p)
    BY <1>t DEF CurrentInv
  <2>1. Bearers(p)' = Bearers(p)
    BY <1>8, <1>9 DEF Bearers
  <2>2. Now(p)' = Now(p) /\ Filtered' = Filtered /\ Part(p, shows)' = Part(p, shows)
    BY <1>2, NowSame, PagesSame DEF Part
  <2>3. \A k \in Bearers(p) : k \in DOMAIN asks
    BY DEF Bearers
  <2>4. CASE /\ \A k \in Bearers(p) : p \in asks[k].passed
             /\ p \notin outrun => Part(p, shows) = Now(p)
    <3>1. \A k \in Bearers(p)' : p \in asks'[k].passed
      BY <1>9, <2>1, <2>3, <2>4
    <3> QED
      BY <1>2, <2>2, <2>4, <3>1 DEF Current
  <2>5. ASSUME NEW n \in Bearers(p), \A k \in Bearers(p) : k <= n,
               p \notin asks[n].passed, ~asks[n].failed,
               Filtered => asks[n].filter = shows.filter /\ asks[n].offset = shows.offset,
               p \in asks[n].got => Part(p, asks[n]) = Now(p)
        PROVE  Current(p)'
    <3>1. p \in asks'[n].got => Part(p, asks[n])' = Now(p)
      <4>1. CASE n # i
        <5>1. asks'[n] = asks[n]
          BY <1>8, <2>3, <4>1
        <5> QED
          BY <2>5, <5>1 DEF Part
      <4>2. CASE n = i /\ p # part
        <5>1. asks'[n] = a /\ (p \in got => p \in old.got)
          BY <1>8, <4>2 DEF got
        <5>2. Part(p, asks[n])' = Part(p, asks[n])
          BY <1>7, <4>2, <5>1 DEF Part, old, rows, extra, Parts
        <5> QED
          BY <1>7, <2>5, <4>2, <5>1, <5>2 DEF old
      <4>3. CASE n = i /\ p = part
        <5>1. Part(p, asks[n])' = IF p = "rows" THEN Listing(old.filter, old.offset) ELSE Extra(old.filter)
          BY <1>4, <1>7, <1>8, <4>3 DEF Part, rows, extra, Parts
        <5>2. list = "analytics" => Filtered
          BY DEF Filtered
        <5>3. Filtered => old.filter = shows.filter /\ old.offset = shows.offset
          BY <2>5, <4>3 DEF old
        <5> QED
          BY <5>1, <5>2, <5>3, Unfiltered DEF Now
      <4> QED
        BY <4>1, <4>2, <4>3
    <3>2. n \in Bearers(p)' /\ \A k \in Bearers(p)' : k <= n
      BY <2>1, <2>5
    <3>3. /\ p \notin asks'[n].passed /\ ~asks'[n].failed
          /\ Filtered' => asks'[n].filter = shows'.filter /\ asks'[n].offset = shows'.offset
      BY <1>2, <1>9, <2>2, <2>3, <2>5
    <3> QED
      BY <2>2, <3>1, <3>2, <3>3 DEF Current
  <2> QED
    BY <2>0, <2>4, <2>5 DEF Current
<1> QED
  BY <1>10, <1>11, <1>12 DEF ListInv

LEMMA FailFetchKeeps == ASSUME ListInv, NEW i \in DOMAIN asks, FailFetch(i) PROVE ListInv'
<1>t. ListTypes /\ ScreenInv /\ CurrentInv /\ asks \in Seq(FetchRecords) /\ shows \in ScreenRecords
  BY ScreenFacts DEF ListInv
<1> DEFINE a == [asks[i] EXCEPT !.failed = TRUE]
<1>1. /\ UNCHANGED <<list, things, shows, deeds, outrun, strayed>> /\ asks' = [asks EXCEPT ![i] = a]
      /\ doubtful' = doubtful \cup asks[i].asked \cup asks[i].later
  BY DEF FailFetch
<1>2. /\ asks[i] \in FetchRecords /\ asks[i].asked \subseteq Parts /\ asks[i].later \subseteq Parts
  BY <1>t, FetchFacts
<1>3. /\ a \in FetchRecords /\ a.filter = asks[i].filter /\ a.offset = asks[i].offset
      /\ a.asked = asks[i].asked /\ a.later = asks[i].later
  BY <1>2 DEF FetchRecords
<1> HIDE DEF a
<1>4. /\ asks' \in Seq(FetchRecords) /\ DOMAIN asks' = DOMAIN asks /\ asks'[i] = a
      /\ \A k \in DOMAIN asks : k # i => asks'[k] = asks[k]
  BY <1>1, <1>3, <1>t, AskChanged
<1>5. \A k \in DOMAIN asks : asks'[k].asked = asks[k].asked /\ asks'[k].later = asks[k].later
  BY <1>3, <1>4
<1>6. ListTypes'
  BY <1>1, <1>2, <1>4, <1>t DEF ListTypes
<1>7. ScreenInv'
  BY <1>1, <1>4, <1>5, <1>t, PagesSame DEF ScreenInv, KeepsError
<1>8. CurrentInv'
  <2> SUFFICES ASSUME ~strayed, NoneDone, NEW p \in Parts, Shown(p), p \notin doubtful' PROVE Current(p)'
    BY <1>1 DEF CurrentInv, NoneDone, Shown
  <2>0. Current(p) /\ i \notin Bearers(p)
    BY <1>1, <1>t DEF CurrentInv, Bearers
  <2>1. Bearers(p)' = Bearers(p) /\ \A k \in Bearers(p) : asks'[k] = asks[k]
    BY <1>4, <1>5, <2>0 DEF Bearers
  <2>2. Now(p)' = Now(p) /\ Filtered' = Filtered /\ Part(p, shows)' = Part(p, shows)
    BY <1>1, NowSame, PagesSame DEF Part
  <2>3. \A k \in Bearers(p) : Part(p, asks[k])' = Part(p, asks[k])
    BY <2>1 DEF Part
  <2> QED
    BY <1>1, <2>0, <2>1, <2>2, <2>3 DEF Current
<1> QED
  BY <1>6, <1>7, <1>8 DEF ListInv

-----------------------------------------------------------------------------
(* The lists take the answers.                                             *)

\* What is left of the fetches when the i-th answers: those begun before it learn what it
\* has shown; it ends, or goes on to its later part.
Informed(w, s, i, parts) ==
  /\ w \in Seq(FetchRecords) /\ DOMAIN w = DOMAIN s
  /\ \A k \in DOMAIN s :
       /\ w[k].filter = s[k].filter /\ w[k].offset = s[k].offset /\ w[k].asked = s[k].asked
       /\ w[k].got = s[k].got /\ w[k].later = s[k].later /\ w[k].rows = s[k].rows
       /\ w[k].extra = s[k].extra /\ w[k].failed = s[k].failed
       /\ w[k].passed = IF k < i THEN s[k].passed \cup parts ELSE s[k].passed

LEMMA PassFacts ==
  ASSUME NEW s \in Seq(FetchRecords), NEW i \in DOMAIN s, NEW parts \in SUBSET Parts
  PROVE  Informed(Pass(s, i, parts), s, i, parts)
<1> DEFINE c(k) == IF k < i THEN [s[k] EXCEPT !.passed = @ \cup parts] ELSE s[k]
           w == Pass(s, i, parts)
<1>1. ASSUME NEW k \in DOMAIN s
      PROVE  /\ c(k) \in FetchRecords
             /\ c(k).filter = s[k].filter /\ c(k).offset = s[k].offset /\ c(k).asked = s[k].asked
             /\ c(k).got = s[k].got /\ c(k).later = s[k].later /\ c(k).rows = s[k].rows
             /\ c(k).extra = s[k].extra /\ c(k).failed = s[k].failed
             /\ c(k).passed = IF k < i THEN s[k].passed \cup parts ELSE s[k].passed
  <2> DEFINE a == s[k]
             all == a.passed \cup parts
  <2>1. a \in FetchRecords
    OBVIOUS
  <2>2. CASE k < i
    <3>1. c(k) = [a EXCEPT !.passed = all]
      BY <2>2
    <3>2. all \subseteq Parts
      BY <2>1 DEF FetchRecords
    <3> HIDE DEF a, all, c
    <3>3. /\ c(k) \in FetchRecords
          /\ c(k).filter = a.filter /\ c(k).offset = a.offset /\ c(k).asked = a.asked
          /\ c(k).got = a.got /\ c(k).later = a.later /\ c(k).rows = a.rows
          /\ c(k).extra = a.extra /\ c(k).failed = a.failed /\ c(k).passed = all
      BY <2>1, <3>1, <3>2 DEF FetchRecords
    <3> QED
      BY <2>2, <3>3 DEF a, all
  <2>3. CASE ~(k < i)
    BY <2>1, <2>3
  <2> QED
    BY <2>2, <2>3
<1>2. w = [k \in DOMAIN s |-> c(k)]
  BY DEF Pass
<1> HIDE DEF c, w
<1>3. DOMAIN s = 1 .. Len(s) /\ Len(s) \in Nat
  OBVIOUS
<1>4. w \in Seq(FetchRecords) /\ DOMAIN w = DOMAIN s
  <2>1. \A k \in DOMAIN s : c(k) \in FetchRecords
    BY <1>1
  <2> QED
    BY <1>2, <1>3, <2>1
<1>5. \A k \in DOMAIN s : w[k] = c(k)
  BY <1>2
<1>6. ASSUME NEW k \in DOMAIN s
      PROVE  /\ w[k].filter = s[k].filter /\ w[k].offset = s[k].offset /\ w[k].asked = s[k].asked
             /\ w[k].got = s[k].got /\ w[k].later = s[k].later /\ w[k].rows = s[k].rows
             /\ w[k].extra = s[k].extra /\ w[k].failed = s[k].failed
             /\ w[k].passed = IF k < i THEN s[k].passed \cup parts ELSE s[k].passed
  <2>1. w[k] = c(k)
    BY <1>5
  <2> QED
    BY <1>1, <2>1
<1> QED
  BY <1>4, <1>6 DEF w, Informed

\* The order of the fetches is kept.
LEMMA SkipOrder ==
  ASSUME NEW i \in Nat, NEW k \in Nat, NEW l \in Nat
  PROVE  /\ k <= l <=> Skip(i, k) <= Skip(i, l)
         /\ Skip(i, k) \in Nat
BY DEF Skip

\* From s, whose i-th entry ends or goes on, to asks'.  Of each fetch that is left `from`
\* tells which it was.
From(ends, i, k) == IF ends THEN Skip(i, k) ELSE k

Left(s, i, ends) ==
  /\ asks' \in Seq(FetchRecords)
  /\ \A k \in DOMAIN asks' :
       LET m == From(ends, i, k) IN
       /\ m \in DOMAIN s
       /\ m # i => asks'[k] = s[m]
       /\ m = i => /\ ~ends /\ asks'[k].asked = s[i].later /\ asks'[k].got = {} /\ asks'[k].later = {}
                   /\ asks'[k].filter = s[i].filter /\ asks'[k].offset = s[i].offset
                   /\ asks'[k].failed = s[i].failed /\ asks'[k].passed = s[i].passed
                   /\ asks'[k].rows = s[i].rows /\ asks'[k].extra = s[i].extra
  /\ \A k, l \in DOMAIN asks' : From(ends, i, k) <= From(ends, i, l) <=> k <= l
  /\ \A m \in DOMAIN s : (m # i \/ ~ends) => \E k \in DOMAIN asks' : From(ends, i, k) = m

LEMMA LeftFacts ==
  ASSUME NEW s \in Seq(FetchRecords), NEW i \in DOMAIN s, NEW ends \in BOOLEAN,
         asks' = IF ends THEN Without(s, i)
                 ELSE [s EXCEPT ![i].asked = s[i].later, ![i].got = {}, ![i].later = {}]
  PROVE  Left(s, i, ends)
<1>0. DOMAIN s = 1 .. Len(s) /\ Len(s) \in Nat /\ i \in Nat /\ s[i] \in FetchRecords
  OBVIOUS
<1>1. CASE ends
  <2> DEFINE w == Dropped(s, i)
  <2>1. asks' = w
    BY <1>1 DEF Without, Dropped
  <2>2. /\ w \in Seq(FetchRecords)
        /\ \A k \in DOMAIN w : Skip(i, k) \in DOMAIN s /\ Skip(i, k) # i /\ w[k] = s[Skip(i, k)]
        /\ \A m \in DOMAIN s : m # i => \E k \in DOMAIN w : Skip(i, k) = m
    BY DroppedFacts
  <2> HIDE DEF w
  <2>3. \A k \in DOMAIN w : k \in Nat
    BY <2>2
  <2>4. \A k, l \in DOMAIN w : Skip(i, k) <= Skip(i, l) <=> k <= l
    BY <1>0, <2>3, SkipOrder
  <2>5. \A k : From(ends, i, k) = Skip(i, k)
    BY <1>1 DEF From
  <2>6. \A k \in DOMAIN w : /\ From(ends, i, k) \in DOMAIN s /\ From(ends, i, k) # i
                            /\ w[k] = s[From(ends, i, k)]
    BY <2>2, <2>5
  <2>7. \A k, l \in DOMAIN w : From(ends, i, k) <= From(ends, i, l) <=> k <= l
    BY <2>4, <2>5
  <2>8. \A m \in DOMAIN s : m # i => \E k \in DOMAIN w : From(ends, i, k) = m
    BY <2>2, <2>5
  <2> HIDE DEF From
  <2> QED
    BY <1>1, <2>1, <2>2, <2>6, <2>7, <2>8 DEF Left
<1>2. CASE ~ends
  <2> DEFINE later == s[i].later
             a == [s[i] EXCEPT !.asked = later, !.got = {}, !.later = {}]
             w == [s EXCEPT ![i] = a]
  <2>1. asks' = w
    BY <1>2
  <2>2. later \subseteq Parts
    BY <1>0 DEF FetchRecords
  <2> HIDE DEF later
  <2>3. /\ a \in FetchRecords /\ a.asked = later /\ a.got = {} /\ a.later = {}
        /\ a.filter = s[i].filter /\ a.offset = s[i].offset /\ a.failed = s[i].failed
        /\ a.passed = s[i].passed /\ a.rows = s[i].rows /\ a.extra = s[i].extra
    BY <1>0, <2>2 DEF FetchRecords
  <2> HIDE DEF a
  <2>4. w \in Seq(FetchRecords) /\ DOMAIN w = DOMAIN s /\ w[i] = a /\ \A k \in DOMAIN s : k # i => w[k] = s[k]
    BY <2>3, AskChanged
  <2> HIDE DEF w
  <2>5. \A k : From(ends, i, k) = k
    BY <1>2 DEF From
  <2> QED
    BY <1>2, <2>1, <2>3, <2>4, <2>5 DEF Left, later
<1> QED
  BY <1>1, <1>2

\* Take: the i-th fetch has all it asked for, or is lost.
LEMMA TakeFailedKeeps == ASSUME ListInv, NEW i \in DOMAIN asks, Take(i), asks[i].failed PROVE ListInv'
<1> DEFINE a == asks[i]
           whole == "rows" \in a.asked \/ list = "redirects"
           loading == shows.loading /\ ~whole
           error == shows.error \/ (KeepsError /\ "rows" \in a.asked)
<1>t. /\ ListTypes /\ ScreenInv /\ CurrentInv /\ asks \in Seq(FetchRecords) /\ shows \in ScreenRecords
      /\ shows.loading \in BOOLEAN /\ shows.error \in BOOLEAN
      /\ a \in FetchRecords /\ a.asked \subseteq Parts /\ a.failed
  BY ScreenFacts, FetchFacts DEF ListInv
<1>1. UNCHANGED <<list, things, deeds, strayed, outrun>> /\ doubtful' = doubtful \cup a.asked
  BY DEF Take
<1>2. /\ shows' \in ScreenRecords /\ shows'.filter = shows.filter /\ shows'.offset = shows.offset
      /\ shows'.loading = loading /\ shows'.error = error /\ shows'.tab = shows.tab
      /\ shows'.rows = shows.rows /\ shows'.extra = shows.extra
  <2> DEFINE rows == shows.rows
             extra == shows.extra
  <2>1. shows' = [shows EXCEPT !.rows = rows, !.extra = extra, !.loading = loading, !.error = error]
    BY DEF Take
  <2>2. loading \in BOOLEAN /\ error \in BOOLEAN /\ rows \in Tables /\ extra \in Counts
    BY <1>t DEF ScreenRecords, KeepsError
  <2> HIDE DEF loading, error, rows, extra
  <2>3. /\ shows' \in ScreenRecords /\ shows'.filter = shows.filter /\ shows'.offset = shows.offset
        /\ shows'.loading = loading /\ shows'.error = error /\ shows'.tab = shows.tab
        /\ shows'.rows = rows /\ shows'.extra = extra
    BY <1>t, <2>1, <2>2 DEF ScreenRecords
  <2> QED
    BY <2>3 DEF rows, extra
<1>3. Left(asks, i, TRUE)
  <2>1. asks' = Without(asks, i)
    BY DEF Take
  <2> QED
    BY <1>t, <2>1, LeftFacts
<1>4. ListTypes'
  BY <1>1, <1>2, <1>3, <1>t DEF ListTypes, Left
<1>5. \A k \in DOMAIN asks' : Skip(i, k) \in DOMAIN asks /\ (Skip(i, k) # i => asks'[k] = asks[Skip(i, k)])
                              /\ Skip(i, k) # i
  BY <1>3 DEF Left, From
<1>6. /\ \A m \in DOMAIN asks : m # i => \E k \in DOMAIN asks' : Skip(i, k) = m
      /\ \A k, l \in DOMAIN asks' : Skip(i, k) <= Skip(i, l) <=> k <= l
  BY <1>3 DEF Left, From
<1>7. ScreenInv'
  <2>1. loading => \E k \in DOMAIN asks' : "rows" \in asks'[k].asked \/ list = "redirects"
    <3> SUFFICES ASSUME loading PROVE \E k \in DOMAIN asks' : "rows" \in asks'[k].asked \/ list = "redirects"
      OBVIOUS
    <3>1. PICK m \in DOMAIN asks : "rows" \in asks[m].asked \/ list = "redirects"
      BY <1>t DEF ScreenInv, KeepsError
    <3>2. m # i
      BY <3>1
    <3>3. PICK k \in DOMAIN asks' : Skip(i, k) = m
      BY <1>6, <3>2
    <3> QED
      BY <1>5, <3>1, <3>2, <3>3
  <2>2. error => "rows" \in doubtful'
    BY <1>1, <1>t DEF ScreenInv, KeepsError
  <2> QED
    <3>1. \A k \in DOMAIN asks' : asks'[k].later \subseteq Later /\ asks'[k].asked \cap asks'[k].later = {}
      BY <1>5, <1>t DEF ScreenInv, KeepsError
    <3> QED
      BY <1>1, <1>2, <1>t, <2>1, <2>2, <3>1, PagesSame DEF ScreenInv, KeepsError
<1>8. CurrentInv'
  <2> SUFFICES ASSUME ~strayed, NoneDone, NEW p \in Parts, Shown(p), p \notin doubtful, p \notin a.asked
               PROVE  Current(p)'
    BY <1>1, <1>2 DEF CurrentInv, NoneDone, Shown
  <2>0. Current(p)
    BY <1>t DEF CurrentInv
  <2>1. Now(p)' = Now(p) /\ Filtered' = Filtered /\ Part(p, shows)' = Part(p, shows)
    BY <1>1, <1>2, NowSame, PagesSame DEF Part
  <2>2. \A k \in Bearers(p)' : Skip(i, k) \in Bearers(p) /\ asks'[k] = asks[Skip(i, k)]
    BY <1>5 DEF Bearers
  <2>3. CASE /\ \A k \in Bearers(p) : p \in asks[k].passed
             /\ p \notin outrun => Part(p, shows) = Now(p)
    BY <1>1, <2>1, <2>2, <2>3 DEF Current
  <2>4. ASSUME NEW n \in Bearers(p), \A k \in Bearers(p) : k <= n,
               p \notin asks[n].passed, ~asks[n].failed,
               Filtered => asks[n].filter = shows.filter /\ asks[n].offset = shows.offset,
               p \in asks[n].got => Part(p, asks[n]) = Now(p)
        PROVE  Current(p)'
    <3>1. n # i /\ n \in DOMAIN asks
      BY <1>t, <2>4 DEF Bearers
    <3>2. PICK k \in DOMAIN asks' : Skip(i, k) = n
      BY <1>6, <3>1
    <3>3. asks'[k] = asks[n] /\ Part(p, asks'[k]) = Part(p, asks[n])
      BY <1>5, <3>1, <3>2
    <3>4. k \in Bearers(p)' /\ \A l \in Bearers(p)' : l <= k
      BY <1>6, <2>2, <2>4, <3>2, <3>3 DEF Bearers
    <3>5. (Part(p, asks[k]))' = Part(p, asks'[k])
      BY DEF Part
    <3> QED
      BY <1>2, <2>1, <2>4, <3>3, <3>4, <3>5 DEF Current
  <2> QED
    BY <2>0, <2>3, <2>4 DEF Current
<1> QED
  BY <1>4, <1>7, <1>8 DEF ListInv

LEMMA TakeShownKeeps == ASSUME ListInv, NEW i \in DOMAIN asks, Take(i), ~asks[i].failed PROVE ListInv'
<1> DEFINE a == asks[i]
           ends == a.later = {}
           whole == "rows" \in a.asked \/ list = "redirects"
           loading == shows.loading /\ ~(ends /\ whole)
           rows == IF "rows" \in a.got THEN a.rows ELSE shows.rows
           extra == IF "extra" \in a.got THEN a.extra ELSE shows.extra
           error == shows.error
           s == Pass(asks, i, a.got)
<1>t. /\ ListTypes /\ ScreenInv /\ CurrentInv /\ asks \in Seq(FetchRecords) /\ shows \in ScreenRecords
      /\ shows.loading \in BOOLEAN /\ shows.error \in BOOLEAN /\ shows.rows \in Tables /\ shows.extra \in Counts
      /\ a \in FetchRecords /\ a.asked \subseteq Parts /\ a.got \subseteq Parts /\ ~a.failed
      /\ a.rows \in Tables /\ a.extra \in Counts /\ a.passed \subseteq Parts
  BY ScreenFacts, FetchFacts DEF ListInv
<1>1. /\ UNCHANGED <<list, things, deeds, strayed, doubtful>> /\ a.got = a.asked
      /\ outrun' = (outrun \ a.got) \cup (a.passed \cap a.got)
  BY <1>t DEF Take
<1>2. /\ shows' \in ScreenRecords /\ shows'.filter = shows.filter /\ shows'.offset = shows.offset
      /\ shows'.loading = loading /\ shows'.error = shows.error /\ shows'.tab = shows.tab
      /\ shows'.rows = rows /\ shows'.extra = extra
  <2>1. shows' = [shows EXCEPT !.rows = rows, !.extra = extra, !.loading = loading, !.error = error]
    BY <1>t DEF Take
  <2>2. loading \in BOOLEAN /\ error \in BOOLEAN /\ rows \in Tables /\ extra \in Counts
    BY <1>t
  <2> HIDE DEF loading, error, rows, extra
  <2>3. /\ shows' \in ScreenRecords /\ shows'.filter = shows.filter /\ shows'.offset = shows.offset
        /\ shows'.loading = loading /\ shows'.error = error /\ shows'.tab = shows.tab
        /\ shows'.rows = rows /\ shows'.extra = extra
    BY <1>t, <2>1, <2>2 DEF ScreenRecords
  <2> QED
    BY <2>3 DEF error
<1>3. /\ s \in Seq(FetchRecords) /\ DOMAIN s = DOMAIN asks
      /\ \A k \in DOMAIN asks :
           /\ s[k].filter = asks[k].filter /\ s[k].offset = asks[k].offset /\ s[k].asked = asks[k].asked
           /\ s[k].got = asks[k].got /\ s[k].later = asks[k].later /\ s[k].rows = asks[k].rows
           /\ s[k].extra = asks[k].extra /\ s[k].failed = asks[k].failed
           /\ s[k].passed = IF k < i THEN asks[k].passed \cup a.got ELSE asks[k].passed
  <2>1. Informed(s, asks, i, a.got)
    BY <1>t, PassFacts
  <2> HIDE DEF s
  <2> QED
    BY <2>1 DEF Informed
<1>4. s[i].later = a.later /\ s[i].passed = a.passed
  <2>1. ~(i < i)
    BY <1>t
  <2> QED
    BY <1>3, <2>1
<1>5. Left(s, i, ends)
  <2>1. asks' = IF ends THEN Without(s, i)
                ELSE [s EXCEPT ![i].asked = a.later, ![i].got = {}, ![i].later = {}]
    BY <1>t DEF Take
  <2>2. i \in DOMAIN s /\ ends \in BOOLEAN
    BY <1>3
  <2> HIDE DEF s, ends
  <2> QED
    BY <1>3, <1>4, <2>1, <2>2, LeftFacts
<1> HIDE DEF s, ends
<1> DEFINE from(k) == From(ends, i, k)
<1>6. ASSUME NEW k \in DOMAIN asks'
      PROVE  /\ from(k) \in DOMAIN asks
             /\ from(k) # i => asks'[k] = s[from(k)]
  BY <1>3, <1>4, <1>5, <1>t DEF Left
<1>6a. ASSUME NEW k \in DOMAIN asks', from(k) = i
       PROVE  /\ ~ends /\ asks'[k].asked = a.later /\ asks'[k].got = {} /\ asks'[k].later = {}
              /\ asks'[k].filter = a.filter /\ asks'[k].offset = a.offset
              /\ ~asks'[k].failed /\ asks'[k].passed = a.passed
  BY <1>3, <1>4, <1>5, <1>6a, <1>t DEF Left
<1>7. /\ \A k, l \in DOMAIN asks' : from(k) <= from(l) <=> k <= l
      /\ \A m \in DOMAIN asks : (m # i \/ ~ends) => \E k \in DOMAIN asks' : from(k) = m
  BY <1>3, <1>5 DEF Left
<1> HIDE DEF from
<1>8. ListTypes'
  <2>1. outrun' \subseteq Parts
    BY <1>1, <1>t DEF ListTypes
  <2> QED
    BY <1>1, <1>2, <1>5, <1>t, <2>1 DEF ListTypes, Left
<1>9. ScreenInv'
  <2>1. \A k \in DOMAIN asks' : asks'[k].later \subseteq Later /\ asks'[k].asked \cap asks'[k].later = {}
    <3> SUFFICES ASSUME NEW k \in DOMAIN asks'
                 PROVE  asks'[k].later \subseteq Later /\ asks'[k].asked \cap asks'[k].later = {}
      OBVIOUS
    <3>1. CASE from(k) = i
      <4>1. asks'[k].later = {}
        BY <1>6a, <3>1
      <4>2. {} \subseteq Later /\ asks'[k].asked \cap {} = {}
        OBVIOUS
      <4> QED
        BY Zenon, <4>1, <4>2
    <3>2. CASE from(k) # i
      <4>1. from(k) \in DOMAIN asks /\ asks'[k] = s[from(k)]
        BY <1>6, <3>2
      <4>2. s[from(k)].later = asks[from(k)].later /\ s[from(k)].asked = asks[from(k)].asked
        BY <1>3, <4>1
      <4>3. asks[from(k)].later \subseteq Later /\ asks[from(k)].asked \cap asks[from(k)].later = {}
        BY <1>t, <4>1 DEF ScreenInv, KeepsError
      <4> QED
        BY Zenon, <4>1, <4>2, <4>3
    <3> QED
      BY <3>1, <3>2
  <2>2. loading => \E k \in DOMAIN asks' : "rows" \in asks'[k].asked \/ list = "redirects"
    <3> SUFFICES ASSUME loading PROVE \E k \in DOMAIN asks' : "rows" \in asks'[k].asked \/ list = "redirects"
      OBVIOUS
    <3>1. PICK m \in DOMAIN asks : "rows" \in asks[m].asked \/ list = "redirects"
      BY <1>t DEF ScreenInv, KeepsError
    <3>2. CASE ~ends
      <4>1. list = "redirects"
        BY <1>t, <3>2 DEF ScreenInv, Later, ends, KeepsError
      <4>2. PICK k \in DOMAIN asks' : from(k) = i
        BY <1>7, <3>2
      <4> QED
        BY <4>1
    <3>3. CASE ends
      <4>1. ~whole /\ m # i
        BY <3>1, <3>3
      <4>2. PICK k \in DOMAIN asks' : from(k) = m
        BY <1>7, <4>1
      <4>3. asks'[k].asked = asks[m].asked
        BY <1>3, <1>6, <4>1, <4>2
      <4> QED
        BY <3>1, <4>1, <4>3
    <3> QED
      BY <3>2, <3>3
  <2> QED
    BY <1>1, <1>2, <1>t, <2>1, <2>2, PagesSame DEF ScreenInv, KeepsError
<1>10. CurrentInv'
  <2> SUFFICES ASSUME ~strayed, NoneDone, NEW p \in Parts, Shown(p), p \notin doubtful PROVE Current(p)'
    BY <1>1, <1>2 DEF CurrentInv, NoneDone, Shown
  <2>0. Current(p)
    BY <1>t DEF CurrentInv
  <2>1. Now(p)' = Now(p) /\ Filtered' = Filtered
    BY <1>1, <1>2, NowSame, PagesSame
  <2>2. Part(p, shows)' = IF p \in a.got THEN Part(p, a) ELSE Part(p, shows)
    BY <1>2 DEF Part, Parts
  <2>3. ASSUME NEW k \in Bearers(p)'
        PROVE  k \in DOMAIN asks' /\ from(k) \in Bearers(p) /\ (from(k) = i => ~ends /\ p \in a.later)
    <3>1. k \in DOMAIN asks' /\ p \in asks'[k].asked \cup asks'[k].later
      BY DEF Bearers
    <3>2. CASE from(k) = i
      <4>1. ~ends /\ asks'[k].asked = a.later /\ asks'[k].later = {}
        BY <1>6a, <3>1, <3>2
      <4> QED
        BY <3>1, <3>2, <4>1 DEF Bearers
    <3>3. CASE from(k) # i
      BY <1>3, <1>6, <3>1, <3>3 DEF Bearers
    <3> QED
      BY <3>1, <3>2, <3>3
  <2>4. a.asked \cap a.later = {}
    BY <1>t DEF ScreenInv, KeepsError
  <2>5. CASE /\ \A k \in Bearers(p) : p \in asks[k].passed
             /\ p \notin outrun => Part(p, shows) = Now(p)
    <3>1. ASSUME NEW k \in Bearers(p)' PROVE p \in asks'[k].passed
      <4>1. k \in DOMAIN asks' /\ from(k) \in Bearers(p) /\ from(k) \in DOMAIN asks
        BY <2>3 DEF Bearers
      <4>2. p \in asks[from(k)].passed
        BY <2>5, <4>1
      <4>3. CASE from(k) = i
        BY <1>6a, <4>1, <4>2, <4>3
      <4>4. CASE from(k) # i
        BY <1>3, <1>6, <4>1, <4>2, <4>4
      <4> QED
        BY <4>3, <4>4
    <3>2. p \notin outrun' => Part(p, shows)' = Now(p)
      <4>1. p \in a.got => p \in a.passed
        BY <1>1, <2>5 DEF Bearers
      <4> QED
        BY <1>1, <2>2, <2>5, <4>1
    <3> QED
      BY <2>1, <3>1, <3>2 DEF Current
  <2>6. ASSUME NEW n \in Bearers(p), \A k \in Bearers(p) : k <= n,
               p \notin asks[n].passed, ~asks[n].failed,
               Filtered => asks[n].filter = shows.filter /\ asks[n].offset = shows.offset,
               p \in asks[n].got => Part(p, asks[n]) = Now(p)
        PROVE  Current(p)'
    <3>0. n \in DOMAIN asks /\ n \in Nat /\ i \in Nat /\ \A k \in DOMAIN asks : k \in Nat
      BY <1>t DEF Bearers
    <3>1. CASE n = i /\ p \in a.got
      <4>1. ASSUME NEW k \in Bearers(p)' PROVE p \in asks'[k].passed
        <5>1. k \in DOMAIN asks' /\ from(k) \in Bearers(p) /\ from(k) \in DOMAIN asks /\ from(k) # i
          BY <1>1, <2>3, <2>4, <3>1 DEF Bearers
        <5>2. from(k) < i
          BY <2>6, <3>0, <3>1, <5>1
        <5> QED
          BY <1>3, <1>6, <3>1, <5>1, <5>2
      <4>2. Part(p, shows)' = Now(p)
        BY <1>1, <2>2, <2>6, <3>1
      <4> QED
        BY <2>1, <4>1, <4>2 DEF Current
    <3>2. CASE n # i \/ p \notin a.got
      <4>1. n = i => ~ends
        BY <1>1, <3>2 DEF Bearers, ends
      <4>2. PICK k \in DOMAIN asks' : from(k) = n
        BY <1>7, <3>0, <4>1
      <4>3. p \in asks'[k].asked \cup asks'[k].later
        <5>1. CASE n = i
          <6>1. asks'[k].asked = a.later
            BY <1>6a, <4>2, <5>1
          <6> QED
            BY <1>1, <3>2, <5>1, <6>1 DEF Bearers
        <5>2. CASE n # i
          BY <1>3, <1>6, <3>0, <4>2, <5>2 DEF Bearers
        <5> QED
          BY <5>1, <5>2
      <4>4. k \in Bearers(p)' /\ \A l \in Bearers(p)' : l <= k
        <5>1. k \in Bearers(p)'
          BY <4>3 DEF Bearers
        <5>2. ASSUME NEW l \in Bearers(p)' PROVE l <= k
          <6>1. l \in DOMAIN asks' /\ from(l) \in Bearers(p)
            BY <2>3
          <6>2. from(l) <= from(k)
            BY <2>6, <4>2, <6>1
          <6> QED
            BY <1>7, <6>1, <6>2
        <5> QED
          BY <5>1, <5>2
      <4>5. /\ ~asks'[k].failed /\ asks'[k].filter = asks[n].filter /\ asks'[k].offset = asks[n].offset
            /\ p \in asks'[k].got => p \in asks[n].got /\ Part(p, asks'[k]) = Part(p, asks[n])
        <5>1. CASE n = i
          <6>1. ~asks'[k].failed /\ asks'[k].filter = a.filter /\ asks'[k].offset = a.offset /\ asks'[k].got = {}
            BY <1>6a, <4>2, <5>1
          <6>2. p \notin asks'[k].got
            BY <6>1
          <6> QED
            BY Zenon, <5>1, <6>1, <6>2
        <5>2. CASE n # i
          <6>1. asks'[k] = s[n]
            BY <1>6, <4>2, <5>2
          <6>2. /\ s[n].filter = asks[n].filter /\ s[n].offset = asks[n].offset /\ s[n].got = asks[n].got
                /\ s[n].rows = asks[n].rows /\ s[n].extra = asks[n].extra /\ s[n].failed = asks[n].failed
            BY <1>3, <3>0
          <6>3. Part(p, s[n]) = Part(p, asks[n])
            BY <6>2 DEF Part
          <6> QED
            BY Zenon, <2>6, <6>1, <6>2, <6>3
        <5> QED
          BY <5>1, <5>2
      <4>6. p \notin asks'[k].passed
        <5>1. CASE n = i
          BY <1>6a, <2>6, <4>2, <5>1
        <5>2. CASE n # i
          <6>1. asks'[k].passed = IF n < i THEN asks[n].passed \cup a.got ELSE asks[n].passed
            BY <1>3, <1>6, <3>0, <4>2, <5>2
          <6>2. n < i => p \notin a.got
            <7>1. p \in a.got => i \in Bearers(p)
              BY <1>1 DEF Bearers
            <7> QED
              BY <2>6, <3>0, <7>1
          <6> QED
            BY <2>6, <6>1, <6>2
        <5> QED
          BY <5>1, <5>2
      <4>7. (Part(p, asks[k]))' = Part(p, asks'[k])
        BY DEF Part
      <4> QED
        BY <1>2, <2>1, <2>6, <4>4, <4>5, <4>6, <4>7 DEF Current
    <3> QED
      BY <3>1, <3>2
  <2> QED
    BY <2>0, <2>5, <2>6 DEF Current
<1> QED
  BY <1>8, <1>9, <1>10 DEF ListInv

\* What is on the screen when the rows are those of the server.
LEMMA DisplayedFacts ==
  ASSUME shows.rows = Listing(shows.filter, shows.offset)
  PROVE  Displayed = {t \in Matching(shows.filter) : Paged => t \in OnScreen}
<1> DEFINE found == IF Filtered THEN Matching(shows.filter) ELSE Matching("all")
           Rank(t) == Cardinality({u \in found : u < t})
           window == IF Paged THEN {t \in found : Rank(t) \in shows.offset .. shows.offset + PageSize - 1} ELSE found
           table == [t \in window |-> things[t]]
<1>1. Listing(shows.filter, shows.offset) = [rows |-> table, total |-> Cardinality(found)]
  BY DEF Listing
<1>2. window \subseteq found /\ (~Paged => window = found)
  OBVIOUS
<1> DEFINE size == Cardinality(found)
<1> HIDE DEF window, found, size
<1>3. OnScreen = window /\ shows.rows.rows = table
  <2>1. shows.rows = [rows |-> table, total |-> size]
    BY <1>1 DEF size
  <2> QED
    BY <2>1 DEF OnScreen
<1>4. \A t \in window : shows.rows.rows[t] = things[t]
  BY <1>3
<1>5. Paged => Filtered
  BY DEF Paged, Filtered
<1>6. CASE Filtered
  <2>1. found = Matching(shows.filter) /\ Displayed = OnScreen
    BY <1>6 DEF found, Displayed
  <2> QED
    BY <1>2, <1>3, <2>1
<1>7. CASE ~Filtered
  <2>1. found = Matching("all") /\ window = found /\ ~Paged
    BY <1>2, <1>5, <1>7 DEF found
  <2>2. Displayed = {t \in window : shows.filter \in {"all", things[t]}}
    BY <1>3, <1>4, <1>7 DEF Displayed
  <2> QED
    BY <2>1, <2>2 DEF Matching
<1> QED
  BY <1>6, <1>7

LEMMA TakeKeeps == ASSUME ListInv, NEW i \in DOMAIN asks, Take(i) PROVE ListInv'
<1>1. CASE asks[i].failed
  BY <1>1, TakeFailedKeeps
<1>2. CASE ~asks[i].failed
  BY <1>2, TakeShownKeeps
<1> QED
  BY <1>1, <1>2

\* Learn: a refused change leaves the page alone, a change that was made has the list
\* fetched again.
LEMMA LearnKeeps == ASSUME ListInv, NEW i \in DOMAIN deeds, Learn(i) PROVE ListInv'
<1> DEFINE d == deeds[i]
           w == Dropped(deeds, i)
<1>t. /\ ListTypes /\ ScreenInv /\ CurrentInv /\ deeds \in Seq(DeedRecords) /\ ~KeepsError
      /\ shows \in ScreenRecords /\ shows.loading \in BOOLEAN /\ shows.dialog \in Things \cup {0, -1}
  BY NoDeeds, ScreenFacts DEF ListInv
<1>0. d \in DeedRecords
  BY <1>t
<1>1. d.filter \in Groups \cup {"all"} /\ d.offset \in Nat /\ d.state \in {"done", "refused"}
  BY <1>0 DEF DeedRecords, Learn
<1>2. /\ w \in Seq(DeedRecords)
      /\ \A m \in DOMAIN deeds : m # i => \E k \in DOMAIN w : w[k] = deeds[m]
  <2>1. /\ w \in Seq(DeedRecords)
        /\ \A k \in DOMAIN w : w[k] = deeds[Skip(i, k)]
        /\ \A m \in DOMAIN deeds : m # i => \E k \in DOMAIN w : Skip(i, k) = m
    BY <1>t, DroppedFacts
  <2> HIDE DEF w
  <2> QED
    BY <2>1
<1>3. deeds' = w /\ UNCHANGED <<list, things, outrun>>
  BY DEF Learn, Without, Dropped
<1> HIDE DEF w
<1>4. CASE d.state = "refused"
  <2>1. UNCHANGED <<shows, asks, doubtful, strayed>>
    BY <1>4 DEF Learn
  <2>2. NoneDone' => NoneDone
    BY <1>2, <1>3, <1>4 DEF NoneDone
  <2> QED
    BY <1>2, <1>3, <1>t, <2>1, <2>2, ScreenKeeps
<1>5. CASE d.state = "done"
  <2> DEFINE loading == shows.loading \/ Spins
             dialog == IF Asked(d.what) THEN 0 ELSE shows.dialog
             all == AtOnce \cup Later
  <2>1. /\ asks' = Append(asks, Fetch(d.filter, d.offset, AtOnce))
        /\ shows' = [shows EXCEPT !.loading = loading, !.dialog = dialog]
        /\ doubtful' = doubtful \ all
        /\ strayed' = (Filtered /\ <<d.filter, d.offset>> # <<shows.filter, shows.offset>>)
    BY <1>5 DEF Learn
  <2>2. loading \in BOOLEAN /\ dialog \in Things \cup {0, -1}
    BY <1>t DEF Spins
  <2> HIDE DEF loading, dialog
  <2>3. /\ shows' \in ScreenRecords /\ shows'.filter = shows.filter /\ shows'.offset = shows.offset
        /\ shows'.loading = loading /\ shows'.error = shows.error /\ shows'.tab = shows.tab
        /\ shows'.rows = shows.rows /\ shows'.extra = shows.extra
    BY <1>t, <2>1, <2>2 DEF ScreenRecords
  <2>4. /\ AtOnce \in SUBSET Parts /\ AtOnce \cap Later = {} /\ "rows" \in AtOnce
        /\ list \in {"newsletter", "redirects"} => "extra" \in all
    BY DEF AtOnce, Later, Parts
  <2>d. d.filter \in Groups \cup {"all"} /\ d.offset \in Nat /\ ListTypes
    BY <1>1, <1>t
  <2>5. BegunFor(d.filter, d.offset, all) /\ \E k \in DOMAIN asks' : asks'[k].asked = AtOnce
    BY <2>d, <2>1, <2>4, BegunOne, ZenonT(40)
  <2> HIDE DEF all
  <2>6. ListTypes'
    <3>1. asks' \in Seq(FetchRecords)
      BY <2>5 DEF BegunFor
    <3> QED
      BY <1>2, <1>3, <1>t, <2>1, <2>3, <3>1 DEF ListTypes
  <2>7. ScreenInv'
    <3>1. \A k \in DOMAIN asks' : asks'[k].later \subseteq Later /\ asks'[k].asked \cap asks'[k].later = {}
      <4> SUFFICES ASSUME NEW k \in DOMAIN asks'
                   PROVE  asks'[k].later \subseteq Later /\ asks'[k].asked \cap asks'[k].later = {}
        OBVIOUS
      <4>1. CASE k \in DOMAIN asks
        BY <1>t, <2>5, <4>1 DEF BegunFor, ScreenInv
      <4>2. CASE k \notin DOMAIN asks
        BY <2>5, <4>2 DEF BegunFor
      <4> QED
        BY <4>1, <4>2
    <3>2. \E k \in DOMAIN asks' : "rows" \in asks'[k].asked
      BY <2>4, <2>5
    <3>3. ~KeepsError' /\ ~shows'.error
      BY <1>3, <1>t, <2>3, PagesSame DEF ScreenInv
    <3> QED
      BY <1>3, <1>t, <2>3, <3>1, <3>2, <3>3, PagesSame DEF ScreenInv
  <2>8. CurrentInv'
    <3> SUFFICES ASSUME ~strayed', NEW p \in Parts, Shown(p)' PROVE Current(p)'
      BY DEF CurrentInv
    <3>1. p \in all
      <4>1. p = "rows" \/ (p = "extra" /\ list \in {"newsletter", "redirects"})
        BY <1>3, <1>t, <2>3 DEF Shown, Parts, ScreenInv, KeepsError
      <4> QED
        BY <2>4, <4>1 DEF all
    <3>2. Filtered => d.filter = shows'.filter /\ d.offset = shows'.offset
      BY <2>1, <2>3
    <3> QED
      BY <1>3, <1>t, <2>5, <3>1, <3>2, BegunCurrent
  <2> QED
    BY <2>6, <2>7, <2>8 DEF ListInv
<1> QED
  BY <1>1, <1>4, <1>5

LEMMA ListInitInv == ListInit => ListInv
<1> SUFFICES ASSUME ListInit PROVE ListInv
  OBVIOUS
<1> DEFINE a == Fetch(shows.filter, 0, AtOnce)
           s == [filter |-> IF list = "analytics" THEN "a" ELSE IF list = "schedule" THEN "b" ELSE "all",
                 offset |-> 0, loading |-> TRUE, error |-> FALSE, tab |-> FALSE, dialog |-> 0,
                 rows |-> Bare, extra |-> NoExtra]
<1>1. /\ list \in ListPages /\ things \in [Things -> Groups] /\ shows = s /\ asks = <<a>> /\ deeds = <<>>
      /\ outrun = {} /\ doubtful = {} /\ strayed = FALSE
  BY DEF ListInit
<1>2. AtOnce \in SUBSET Parts /\ AtOnce \cap Later = {} /\ "rows" \in AtOnce
      /\ (list \in {"newsletter", "redirects"} => "extra" \in AtOnce \cup Later)
  BY DEF AtOnce, Later, Parts
<1>3. Bare \in Tables /\ NoExtra \in Counts
  <2>1. Fetch("all", 0, {}) \in FetchRecords
    BY NewFetch
  <2> QED
    BY <2>1 DEF Fetch, FetchRecords
<1>4. /\ s \in ScreenRecords /\ s.filter \in Groups \cup {"all"} /\ s.offset = 0 /\ ~s.error /\ ~s.tab
  BY <1>3 DEF ScreenRecords, Groups
<1>5. /\ a \in FetchRecords /\ a.filter = shows.filter /\ a.offset = 0 /\ a.asked = AtOnce /\ a.got = {}
      /\ a.later = Later /\ ~a.failed /\ a.passed = {}
  <2> HIDE DEF s
  <2>1. shows.filter \in Groups \cup {"all"} /\ 0 \in Nat
    BY <1>1, <1>4
  <2> QED
    BY <1>2, <2>1, NewFetch
<1> HIDE DEF a, s
<1>6. asks \in Seq(FetchRecords) /\ DOMAIN asks = {1} /\ asks[1] = a
  BY <1>1, <1>5
<1>7. ListTypes
  <2>1. things \in [Things -> Groups \cup {"none"}] /\ deeds \in Seq(DeedRecords)
    BY <1>1
  <2> QED
    BY <1>1, <1>4, <1>6, <2>1 DEF ListTypes
<1>8. ScreenInv
  BY <1>1, <1>2, <1>4, <1>5, <1>6 DEF ScreenInv
<1>9. CurrentInv
  <2> SUFFICES ASSUME NEW p \in Parts, Shown(p) PROVE Current(p)
    BY DEF CurrentInv
  <2>1. p \in AtOnce \cup Later
    BY <1>1, <1>2, <1>4 DEF Shown, Parts
  <2>2. 1 \in Bearers(p) /\ \A k \in Bearers(p) : k <= 1
    BY <1>5, <1>6, <2>1 DEF Bearers
  <2> QED
    BY <1>1, <1>4, <1>5, <1>6, <2>2 DEF Current
<1> QED
  BY <1>7, <1>8, <1>9 DEF ListInv

LEMMA ListStep == ListInv /\ [ListNext]_listVars => ListInv'
<1> SUFFICES ASSUME ListInv, [ListNext]_listVars PROVE ListInv'
  OBVIOUS
<1>1. ASSUME NEW f \in Groups \cup {"all"}, SetFilter(f) PROVE ListInv'
  BY <1>1, SetFilterKeeps
<1>2. ASSUME NEW o \in 0 .. 1, TurnTo(o * PageSize) PROVE ListInv'
  <2>1. o * PageSize \in Nat
    <3>1. o = 0 \/ o = 1
      OBVIOUS
    <3> QED
      BY <3>1, ListConstants
  <2> QED
    BY <1>2, <2>1, TurnToKeeps
<1>3. CASE Refresh
  BY <1>3, RefreshKeeps
<1>4. ASSUME NEW t \in Things \cup {-1, 0}, SetDialog(t) PROVE ListInv'
  BY <1>4, SetDialogKeeps
<1>5. ASSUME NEW t \in Things \cup {-1, 0}, NEW what \in {"delete", "update", "create", "publish"}, Start(what, t)
      PROVE  ListInv'
  BY <1>5, StartKeeps
<1>6. CASE Elsewhere
  BY <1>6, ElsewhereKeeps
<1>7. ASSUME NEW i \in DOMAIN asks, ServeFetch(i) \/ FailFetch(i) \/ Take(i) PROVE ListInv'
  BY <1>7, ServeFetchKeeps, FailFetchKeeps, TakeKeeps
<1>8. ASSUME NEW i \in DOMAIN deeds, ServeDeed(i) \/ FailDeed(i) \/ Learn(i) PROVE ListInv'
  BY <1>8, ServeDeedKeeps, FailDeedKeeps, LearnKeeps
<1>9. CASE UNCHANGED listVars
  <2>1. UNCHANGED <<list, things, shows, asks, deeds, outrun, doubtful, strayed>>
    BY <1>9 DEF listVars
  <2>2. shows \in ScreenRecords /\ deeds \in Seq(DeedRecords) /\ (NoneDone' => NoneDone)
    BY <2>1, ScreenFacts DEF ListInv, NoneDone
  <2> QED
    BY <2>1, <2>2, ScreenKeeps
<1> QED
  BY <1>1, <1>2, <1>3, <1>4, <1>5, <1>6, <1>7, <1>8, <1>9 DEF ListNext

\* A page that has nothing under way shows what it should.
LEMMA InvHonest == ListInv => ListsHonest
<1> SUFFICES ASSUME ListInv PROVE ListsHonest
  OBVIOUS
<1>t. ListTypes /\ ScreenInv /\ CurrentInv /\ shows \in ScreenRecords /\ shows.offset \in Nat
      /\ shows.dialog \in Things \cup {0, -1}
  BY ScreenFacts DEF ListInv
<1>1. ListTypeOK
  BY <1>t DEF ListTypes, ListTypeOK, Parts
<1>2. ASSUME Settled
      PROVE  /\ ~shows.loading
             /\ "rows" \notin outrun \cup doubtful =>
                  /\ ~shows.error
                  /\ shows.rows = Listing(shows.filter, shows.offset)
                  /\ Displayed = {t \in Matching(shows.filter) : Paged => t \in OnScreen}
             /\ ("extra" \notin outrun \cup doubtful /\ (list \in {"newsletter", "redirects"} \/ shows.tab)) =>
                  shows.extra = Extra(shows.filter)
  <2>1. asks = <<>> /\ deeds = <<>> /\ ~strayed /\ DOMAIN asks = {}
    BY <1>2 DEF Settled
  <2>2. NoneDone /\ \A p : Bearers(p) = {}
    BY <2>1 DEF NoneDone, Bearers
  <2>3. ~shows.loading
    BY <1>t, <2>1 DEF ScreenInv
  <2>4. ASSUME NEW p \in Parts, Shown(p), p \notin outrun \cup doubtful PROVE Part(p, shows) = Now(p)
    BY <1>t, <2>1, <2>2, <2>4 DEF CurrentInv, Current
  <2>5. ASSUME "rows" \notin outrun \cup doubtful
        PROVE  /\ ~shows.error
               /\ shows.rows = Listing(shows.filter, shows.offset)
               /\ Displayed = {t \in Matching(shows.filter) : Paged => t \in OnScreen}
    <3>1. ~shows.error
      BY <1>t, <2>5 DEF ScreenInv
    <3>2. shows.rows = Listing(shows.filter, shows.offset)
      BY <2>4, <2>5 DEF Parts, Shown, Part, Now
    <3> QED
      BY <3>1, <3>2, DisplayedFacts
  <2>6. ASSUME "extra" \notin outrun \cup doubtful, list \in {"newsletter", "redirects"} \/ shows.tab
        PROVE  shows.extra = Extra(shows.filter)
    BY <2>4, <2>6 DEF Parts, Shown, Part, Now
  <2> QED
    BY <2>3, <2>5, <2>6
<1> QED
  BY <1>1, <1>2 DEF ListsHonest, UpToDate

\* The lists: types, and an idle page shows what the server holds for its filter.
THEOREM ListsTheorem == ListSpec => []ListsHonest
<1>1. ListInit => ListInv
  BY ListInitInv
<1>2. ListInv /\ [ListNext]_listVars => ListInv'
  BY ListStep
<1>3. ListInv => ListsHonest
  BY InvHonest
<1> QED
  BY <1>1, <1>2, <1>3, PTL DEF ListSpec
-----------------------------------------------------------------------------
(***************************************************************************)
(* The pages side by side, as MCPages composes them: each of them moves by  *)
(* itself or stays.  The store of the PDF resources alone is the exception: *)
(* requests reach it while the page of a resource has not begun.            *)
(***************************************************************************)
Unopened ==
  /\ sheet = [at |-> "new", of |-> Nil, loading |-> FALSE, saving |-> FALSE,
              publishing |-> FALSE, form |-> EmptyForm]
  /\ calls = <<>> /\ others = 0 /\ agreed = FALSE

StoreSideInv == StoreInv /\ (side = "resource pages" => PageInv) /\ (side # "resource pages" => Unopened)

LEMMA PagesBegin ==
  PagesInit => /\ side \in Sides /\ EditInit /\ ListInit /\ ReaderInit
               /\ ResourcePageInit
BY DEF PagesInit

LEMMA PagesMove ==
  [PagesNext]_pagesVars =>
    /\ UNCHANGED side
    /\ [EditNext]_editVars /\ [ListNext]_listVars /\ [ReaderNext]_readerVars
    /\ side = "resource pages" => [ResourcePageNext]_resourcePageVars
    /\ side # "resource pages" =>
         [ResourceNext]_resourceVars /\ UNCHANGED <<sheet, calls, others, agreed>>
<1> SUFFICES ASSUME [PagesNext]_pagesVars
             PROVE  /\ UNCHANGED side
                    /\ [EditNext]_editVars /\ [ListNext]_listVars /\ [ReaderNext]_readerVars
                    /\ side = "resource pages" => [ResourcePageNext]_resourcePageVars
                    /\ side # "resource pages" =>
                         [ResourceNext]_resourceVars /\ UNCHANGED <<sheet, calls, others, agreed>>
  OBVIOUS
<1>1. CASE UNCHANGED pagesVars
  BY <1>1 DEF pagesVars, resourcePageVars
<1>2. CASE PagesNext
  <2>1. UNCHANGED side /\ [EditNext]_editVars /\ [ListNext]_listVars /\ [ReaderNext]_readerVars
    BY <1>2 DEF PagesNext
  <2>2. CASE side = "resources"
    BY <1>2, <2>1, <2>2 DEF PagesNext
  <2>3. CASE side = "resource pages"
    BY <1>2, <2>1, <2>3 DEF PagesNext
  <2>4. CASE side # "resources" /\ side # "resource pages"
    <3>1. UNCHANGED resourcePageVars
      BY <1>2, <2>4 DEF PagesNext
    <3> QED
      BY <2>1, <2>4, <3>1 DEF resourcePageVars
  <2> QED
    BY <2>2, <2>3, <2>4
<1> QED
  BY <1>1, <1>2

\* An unopened page is one whose invariant holds with any sound store.
LEMMA UnopenedSound == StoreInv /\ Unopened => PageInv
<1> SUFFICES ASSUME StoreInv, Unopened PROVE PageInv
  OBVIOUS
<1>1. calls = <<>> /\ others = 0 /\ agreed = FALSE /\ DOMAIN calls = {} /\ \A kinds : Kinds(kinds) = {}
  BY DEF Unopened, Kinds
<1>2. sheet \in SheetRecords /\ ~sheet.loading /\ ~sheet.saving /\ ~sheet.publishing /\ sheet.at = "new"
  BY FormFacts DEF Unopened, SheetRecords
<1>3. SheetTypes
  <2>1. calls \in Seq(CallRecords) /\ others \in 0 .. MaxOthers
    BY <1>1, SheetConstants
  <2> QED
    BY <1>1, <1>2, <2>1 DEF SheetTypes
<1>4. FlagInv
  BY <1>1, <1>2 DEF FlagInv
<1>5. CleanInv
  BY <1>1, <1>2 DEF CleanInv
<1> QED
  BY <1>3, <1>4, <1>5 DEF PageInv

LEMMA StoreSideBegins == PagesInit => StoreSideInv
<1> SUFFICES ASSUME PagesInit PROVE StoreSideInv
  OBVIOUS
<1>1. PageInv /\ StoreInv
  BY PagesBegin, PageBegins DEF PageInv
<1>2. Unopened
  BY PagesBegin DEF Unopened, ResourcePageInit
<1> QED
  BY <1>1, <1>2 DEF StoreSideInv

LEMMA StoreSideKept == StoreSideInv /\ [PagesNext]_pagesVars => StoreSideInv'
<1> SUFFICES ASSUME StoreSideInv, [PagesNext]_pagesVars PROVE StoreSideInv'
  OBVIOUS
<1>1. side' = side
  BY PagesMove
<1>2. CASE side = "resource pages"
  <2>1. PageInv'
    BY <1>2, PagesMove, PageKept DEF StoreSideInv
  <2>2. StoreInv'
    BY <2>1 DEF PageInv
  <2> QED
    BY <1>1, <1>2, <2>1, <2>2 DEF StoreSideInv
<1>3. CASE side # "resource pages"
  <2>1. [ResourceNext]_resourceVars /\ UNCHANGED <<sheet, calls, others, agreed>>
    BY <1>3, PagesMove
  <2>2. StoreInv'
    BY <2>1, StoreKept DEF StoreSideInv
  <2>3. Unopened'
    BY <1>3, <2>1 DEF StoreSideInv, Unopened
  <2> QED
    BY <1>1, <1>3, <2>2, <2>3 DEF StoreSideInv
<1> QED
  BY <1>2, <1>3

(* Every page keeps what it promises in the specification that the run      *)
(* pages checks: the lists, what a reader's browser tells, the page that    *)
(* edits an item, and the resources with or without a page before them.     *)
THEOREM PagesTheorem ==
  PagesSpec => [](ListsHonest /\ ReaderHonest /\ ResourcePagesSound) /\ EditorSound
<1>1. PagesSpec => []ListsHonest
  BY PagesBegin, PagesMove, ListsTheorem, PTL DEF PagesSpec, ListSpec
<1>2. PagesSpec => []ReaderHonest
  BY PagesBegin, PagesMove, ReaderTheorem, PTL DEF PagesSpec, ReaderSpec
<1>3. PagesSpec => EditorSound
  BY PagesBegin, PagesMove, EditorTheorem, PTL DEF PagesSpec, EditSpec
<1>4. PagesSpec => []ResourcePagesSound
  <2>1. StoreSideInv => PageInv
    BY UnopenedSound DEF StoreSideInv
  <2> QED
    BY <2>1, StoreSideBegins, StoreSideKept, PageTells, PTL DEF PagesSpec
<1> QED
  BY <1>1, <1>2, <1>3, <1>4, PTL

=============================================================================
