--------------------------- MODULE Compositor_proofs ---------------------------
(***************************************************************************)
(* Theorems about Compositor, for any tracks, ids and number of videos.    *)
(*                                                                         *)
(* Nothing protects the cleanup of a track from that of another one, or    *)
(* from AddInputTrack.  The argument is that two goroutines meet in the    *)
(* maps only if they have the same id, so as long as no id was used again  *)
(* too early, a track finds what it stored.  The picture needs more: a     *)
(* relayout that met no other one counted the pads it then walks, and what *)
(* it writes stays until the list of pads changes.                         *)
(***************************************************************************)
EXTENDS CompositorLayout_proofs

-------------------------------------------------------------------------------
\* The parts of the inductive invariant

\* TypeOK, except for the pads, the picture and how the process ended.
BasicType ==
  /\ pc \in [Tracks -> {"none", "link", "count", "walk", "store", "reading", "ended", "remove",
                        "forget", "done"}]
  /\ mu \in Tracks \cup {None}
  /\ bin \in [Tracks -> Tracks \cup {None}]
  /\ trackBins \in [Ids -> Tracks \cup {None}]
  /\ callbacks \subseteq Ids
  /\ inPipeline \subseteq Tracks
  /\ unbuilt \subseteq Tracks

\* A bin is put into the pipeline once, and its pad into the list at the same time.
FreshIsUnlinked ==
  \A t \in Tracks : /\ pc[t] \in {"none", "link"} => t \notin inPipeline /\ t \notin Range(pads)
                    /\ pc[t] = "none" => bin[t] = None

PadsAreVideos ==
  /\ pads \in Seq(AllPads) /\ IsInjective(pads)
  /\ Range(pads) \cap Tracks \subseteq Videos

MutexHeld ==
  /\ \A t \in Tracks : mu = t => pc[t] \in {"link", "count", "walk", "store"}
  /\ \A t \in Tracks : pc[t] \in {"link", "store"} => mu = t

\* What the maps hold belongs to a track that was not cleaned up yet.
EntryHasUser ==
  \A i \in Ids : trackBins[i] # None \/ i \in callbacks => \E t \in Tracks : InUse(t) /\ Id[t] = i

OneUser == \A t, u \in Tracks : InUse(t) /\ InUse(u) /\ Id[t] = Id[u] => t = u

\* The bin of t, NULL if it could not be built.
Own(t) == IF t \in unbuilt THEN None ELSE t

\* A relayout for t is part of AddInputTrack, or of the cleanup.
Adding(t)  == pc[t] \in {"count", "walk"} /\ mu = t
Removed(t) == pc[t] \in {"forget", "done"} \/ (pc[t] \in {"count", "walk"} /\ mu # t)

Stage(t) ==
  /\ pc[t] \in {"none", "link"} \/ Adding(t) => t \notin unbuilt
  /\ pc[t] \in {"link", "store", "remove"} \/ Adding(t) => bin[t] = Own(t)
  /\ pc[t] \in {"reading", "ended", "remove"} => trackBins[Id[t]] = Own(t)
  /\ pc[t] \in {"store", "reading", "ended", "remove"} \/ Adding(t)
       => t \in inPipeline \/ t \in unbuilt
  /\ Removed(t) => t \notin inPipeline

PadsAreLinked == Range(pads) \cap Tracks \subseteq inPipeline

\* Before an id was used again too early.
StageInv == ~reused => OneUser /\ PadsAreLinked /\ \A t \in Tracks : Stage(t)

\* The process did not fail to find a bin without a reason.
CrashInv == crashed = "noBin" => unbuilt # {} \/ reused

CompositorInv ==
  /\ BasicType /\ FreshIsUnlinked /\ PadsAreVideos /\ MutexHeld /\ EntryHasUser
  /\ reused \in BOOLEAN /\ StageInv /\ CrashInv

-------------------------------------------------------------------------------
\* The list of pads

\* One pad leaves the list, the others stay.
LEMMA ReleasedPads ==
  ASSUME NEW S, NEW ps \in Seq(S), IsInjective(ps), NEW b
  PROVE  /\ Released(ps, b) \in Seq(S) /\ IsInjective(Released(ps, b))
         /\ Range(Released(ps, b)) = Range(ps) \ {b}
<1> DEFINE i == CHOOSE j \in DOMAIN ps : ps[j] = b
           q == SubSeq(ps, 1, i - 1)
           r == SubSeq(ps, i + 1, Len(ps))
<1>1. CASE b \notin Range(ps)
  BY <1>1 DEF Released
<1>2. CASE b \in Range(ps)
  <2>1. Released(ps, b) = q \o r BY <1>2 DEF Released
  <2>2. DOMAIN ps = 1 .. Len(ps) /\ Len(ps) \in Nat BY LenProperties
  <2>3. i \in 1 .. Len(ps) /\ ps[i] = b
    <3>1. \E j \in DOMAIN ps : ps[j] = b BY <1>2 DEF Range
    <3> QED BY <2>2, <3>1
  <2>4. \A j \in 1 .. Len(ps) : ps[j] \in S BY ElementOfSeq
  <2> HIDE DEF i
  <2>5. /\ q \in Seq(S) /\ Len(q) = i - 1
        /\ \A j \in 1 .. i - 1 : q[j] = ps[j]
    BY <2>2, <2>3, <2>4, SubSeqProperties
  <2>6. /\ r \in Seq(S) /\ Len(r) = Len(ps) - i
        /\ \A j \in 1 .. Len(ps) - i : r[j] = ps[i + j]
    <3>1. i + 1 \in Int /\ Len(ps) \in Int /\ \A j \in i + 1 .. Len(ps) : ps[j] \in S
      BY <2>2, <2>3, <2>4
    <3>2. /\ r \in Seq(S) /\ Len(r) = IF i + 1 <= Len(ps) THEN Len(ps) - (i + 1) + 1 ELSE 0
          /\ \A j \in 1 .. Len(ps) - (i + 1) + 1 : r[j] = ps[i + 1 + j - 1]
      BY <3>1, SubSeqProperties
    <3> HIDE DEF r
    <3>3. Len(r) = Len(ps) - i
      <4>1. ASSUME NEW l \in Nat, NEW k \in 1 .. l
            PROVE  (IF k + 1 <= l THEN l - (k + 1) + 1 ELSE 0) = l - k
        OBVIOUS
      <4>2. (IF i + 1 <= Len(ps) THEN Len(ps) - (i + 1) + 1 ELSE 0) = Len(ps) - i
        BY <2>2, <2>3, <4>1
      <4> QED BY <3>2, <4>2
    <3>4. \A j \in 1 .. Len(ps) - i : /\ j \in 1 .. Len(ps) - (i + 1) + 1
                                     /\ i + 1 + j - 1 = i + j
      BY <2>2, <2>3
    <3> QED BY <3>2, <3>3, <3>4
  <2> HIDE DEF q, r
  <2> DEFINE z == q \o r
             f(j) == IF j < i THEN j ELSE j + 1
  <2>7. z \in Seq(S) /\ Len(z) = Len(ps) - 1 /\ DOMAIN z = 1 .. Len(ps) - 1
    <3>1. z \in Seq(S) /\ Len(z) = Len(q) + Len(r) BY <2>5, <2>6, ConcatProperties
    <3> HIDE DEF z
    <3> QED BY <2>2, <2>3, <2>5, <2>6, <3>1, LenProperties
  <2>8. ASSUME NEW j \in 1 .. Len(ps) - 1
        PROVE  z[j] = ps[f(j)] /\ f(j) \in 1 .. Len(ps) /\ f(j) # i
    <3>1. z[j] = IF j <= Len(q) THEN q[j] ELSE r[j - Len(q)]
      BY <2>2, <2>3, <2>5, <2>6, ConcatProperties
    <3> HIDE DEF z
    <3>2. CASE j < i
      <4>1. j \in 1 .. i - 1 /\ j <= Len(q) BY <2>3, <2>5, <3>2
      <4> QED BY <2>2, <2>3, <2>5, <3>1, <3>2, <4>1
    <3>3. CASE j >= i
      <4>1. j - (i - 1) \in 1 .. Len(ps) - i /\ ~(j <= i - 1) /\ i + (j - (i - 1)) = j + 1
        BY <2>2, <2>3, <3>3
      <4>2. z[j] = r[j - (i - 1)] BY <2>5, <3>1, <4>1
      <4>3. r[j - (i - 1)] = ps[i + (j - (i - 1))] BY <2>6, <4>1
      <4> QED BY <2>2, <2>3, <3>3, <4>1, <4>2, <4>3
    <3> QED BY <2>3, <3>2, <3>3
  <2> HIDE DEF z
  <2>9. IsInjective(z)
    <3> SUFFICES ASSUME NEW j \in 1 .. Len(ps) - 1, NEW k \in 1 .. Len(ps) - 1, z[j] = z[k]
                 PROVE  j = k
      BY <2>7 DEF IsInjective
    <3>1. ps[f(j)] = ps[f(k)] /\ f(j) \in DOMAIN ps /\ f(k) \in DOMAIN ps BY <2>2, <2>8
    <3>2. f(j) = f(k) BY <3>1 DEF IsInjective
    <3> QED BY <2>2, <2>3, <3>2
  <2>10. Range(z) = Range(ps) \ {b}
    <3>1. ASSUME NEW x \in Range(z) PROVE x \in Range(ps) \ {b}
      <4>1. PICK j \in 1 .. Len(ps) - 1 : x = z[j] BY <2>7 DEF Range
      <4>2. x = ps[f(j)] /\ f(j) \in DOMAIN ps /\ f(j) # i BY <2>2, <2>8, <4>1
      <4> HIDE DEF f
      <4>3. x # b BY <2>2, <2>3, <4>2 DEF IsInjective
      <4> QED BY <4>2, <4>3 DEF Range
    <3>2. ASSUME NEW x \in Range(ps), x # b PROVE x \in Range(z)
      <4>1. PICK k \in 1 .. Len(ps) : x = ps[k] BY <2>2 DEF Range
      <4>2. k # i BY <2>3, <3>2, <4>1
      <4>3. \E j \in 1 .. Len(ps) - 1 : f(j) = k
        <5>1. CASE k < i BY <2>2, <2>3, <5>1
        <5>2. CASE k > i
          <6>1. k - 1 \in 1 .. Len(ps) - 1 /\ f(k - 1) = k BY <2>2, <2>3, <5>2
          <6> QED BY <6>1
        <5> QED BY <2>3, <4>2, <5>1, <5>2
      <4>4. PICK j \in 1 .. Len(ps) - 1 : f(j) = k BY <4>3
      <4>5. z[j] = x BY <2>8, <4>1, <4>4
      <4> QED BY <2>7, <4>5 DEF Range
    <3> QED BY <3>1, <3>2
  <2> QED BY <2>1, <2>7, <2>9, <2>10 DEF z
<1> QED BY <1>1, <1>2

\* A pad that is not in the list is put at its end.
LEMMA AppendedPads ==
  ASSUME NEW S, NEW ps \in Seq(S), IsInjective(ps), NEW b \in S, b \notin Range(ps)
  PROVE  /\ Append(ps, b) \in Seq(S) /\ IsInjective(Append(ps, b))
         /\ Range(Append(ps, b)) = Range(ps) \cup {b}
<1> DEFINE z == Append(ps, b)
<1>1. DOMAIN ps = 1 .. Len(ps) /\ Len(ps) \in Nat BY LenProperties
<1>2. /\ z \in Seq(S) /\ Len(z) = Len(ps) + 1
      /\ \A j \in 1 .. Len(ps) : z[j] = ps[j]
      /\ z[Len(ps) + 1] = b
  BY AppendProperties
<1> HIDE DEF z
<1>3. DOMAIN z = 1 .. Len(ps) + 1 BY <1>2, LenProperties
<1>4. \A j \in 1 .. Len(ps) : ps[j] # b BY <1>1 DEF Range
<1>5. \A j \in 1 .. Len(ps) + 1 : j \in 1 .. Len(ps) \/ j = Len(ps) + 1 BY <1>1
<1>6. IsInjective(z)
  BY <1>1, <1>2, <1>3, <1>4, <1>5 DEF IsInjective
<1>7. Range(z) = Range(ps) \cup {b}
  BY <1>1, <1>2, <1>3, <1>5 DEF Range
<1> QED BY <1>2, <1>6, <1>7 DEF z
-------------------------------------------------------------------------------
\* The steps of a track

LEMMA SmallConstants ==
  Videos \subseteq Tracks /\ Id \in [Tracks -> Ids] /\ None \notin Tracks
BY CompositorConstants

USE SmallConstants

\* A step of other goroutines that leaves t's own things alone.
LEMMA StageFrame ==
  ASSUME NEW t \in Tracks, Stage(t), pc'[t] = pc[t], bin'[t] = bin[t], mu' = t <=> mu = t,
         t \in unbuilt' <=> t \in unbuilt, t \in inPipeline' <=> t \in inPipeline,
         pc[t] \in {"reading", "ended", "remove"} => trackBins'[Id[t]] = trackBins[Id[t]]
  PROVE  Stage(t)'
BY DEF Stage, Own, Adding, Removed

\* A step of a track that is in use already keeps the ids apart.
LEMMA SameUsers ==
  ASSUME BasicType, OneUser, NEW t \in Tracks, InUse(t),
         \A u \in Tracks \ {t} : pc'[u] = pc[u]
  PROVE  OneUser'
BY DEF OneUser, InUse

LEMMA GotoPc ==
  ASSUME BasicType, NEW t \in Tracks, NEW l, Goto(t, l)
  PROVE  pc'[t] = l /\ \A u \in Tracks \ {t} : pc'[u] = pc[u]
BY DEF BasicType, Goto

\* The maps change for t only.
LEMMA EntryFrame ==
  ASSUME BasicType, EntryHasUser, NEW t \in Tracks, InUse(t),
         \A u \in Tracks \ {t} : pc'[u] = pc[u],
         \A i \in Ids : i # Id[t] =>
           /\ trackBins'[i] # None => trackBins[i] # None
           /\ i \in callbacks' => i \in callbacks,
         InUse(t)' \/ (trackBins'[Id[t]] = None /\ Id[t] \notin callbacks')
  PROVE  EntryHasUser'
<1> SUFFICES ASSUME NEW i \in Ids, trackBins'[i] # None \/ i \in callbacks'
             PROVE  \E u \in Tracks : InUse(u)' /\ Id[u] = i
  BY DEF EntryHasUser
<1>1. CASE i = Id[t] BY <1>1
<1>2. CASE i # Id[t]
  <2>1. PICK u \in Tracks : InUse(u) /\ Id[u] = i BY <1>2 DEF EntryHasUser
  <2>2. u # t /\ pc'[u] = pc[u] BY <1>2, <2>1
  <2> QED BY <2>1, <2>2 DEF InUse
<1> QED BY <1>1, <1>2

LEMMA BuildInv ==
  ASSUME CompositorInv, NEW t \in Tracks, Build(t)
  PROVE  CompositorInv'
<1> USE DEF CompositorInv
<1>1. /\ pc[t] = "none" /\ mu = None /\ mu' = t
      /\ UNCHANGED <<trackBins, callbacks, inPipeline, pads, crashed>>
      /\ reused' = (reused \/ \E u \in Tracks \ {t} : Id[u] = Id[t] /\ InUse(u))
      /\ \/ bin' = [bin EXCEPT ![t] = t] /\ Goto(t, "link") /\ UNCHANGED unbuilt
         \/ unbuilt' = unbuilt \cup {t} /\ Goto(t, "store") /\ UNCHANGED bin
  BY DEF Build, At
<1>2. pc'[t] \in {"link", "store"} /\ \A u \in Tracks \ {t} : pc'[u] = pc[u]
  BY <1>1, GotoPc
<1>3. BasicType' BY <1>1 DEF BasicType, Goto
<1>4. FreshIsUnlinked'
  <2>1. \A u \in Tracks \ {t} : bin'[u] = bin[u] BY <1>1 DEF BasicType
  <2> QED BY <1>1, <1>2, <2>1 DEF FreshIsUnlinked
<1>5. PadsAreVideos' BY <1>1 DEF PadsAreVideos
<1>6. MutexHeld' BY <1>1, <1>2 DEF MutexHeld
<1>7. EntryHasUser'
  <2>1. \A u \in Tracks : InUse(u) => InUse(u)' BY <1>1, <1>2 DEF InUse
  <2> QED BY <1>1, <2>1 DEF EntryHasUser
<1>8. reused' \in BOOLEAN BY <1>1
<1>9. ASSUME ~reused' PROVE OneUser' /\ PadsAreLinked' /\ \A u \in Tracks : Stage(u)'
  <2>1. ~reused /\ \A u \in Tracks \ {t} : Id[u] = Id[t] => ~InUse(u) BY <1>1, <1>9
  <2>2. OneUser'
    <3>1. \A u \in Tracks \ {t} : InUse(u)' <=> InUse(u) BY <1>2 DEF InUse
    <3> QED BY <2>1, <3>1 DEF StageInv, OneUser
  <2>3. t \notin unbuilt BY <1>1, <2>1 DEF StageInv, Stage
  <2>4. Stage(t)'
    <3>1. CASE bin' = [bin EXCEPT ![t] = t] /\ Goto(t, "link") /\ UNCHANGED unbuilt
      <4>1. pc'[t] = "link" /\ bin'[t] = t BY <3>1, GotoPc DEF BasicType
      <4> QED BY <2>3, <3>1, <4>1 DEF Stage, Own, Adding, Removed
    <3>2. CASE unbuilt' = unbuilt \cup {t} /\ Goto(t, "store") /\ UNCHANGED bin
      <4>1. pc'[t] = "store" BY <3>2, GotoPc
      <4>2. bin'[t] = None
        BY <1>1, <3>2 DEF FreshIsUnlinked
      <4> QED BY <3>2, <4>1, <4>2 DEF Stage, Own, Adding, Removed
    <3> QED BY <1>1, <3>1, <3>2
  <2>5. ASSUME NEW u \in Tracks \ {t} PROVE Stage(u)'
    <3>1. Stage(u) BY <2>1 DEF StageInv
    <3>2. bin'[u] = bin[u] /\ (u \in unbuilt' <=> u \in unbuilt) BY <1>1 DEF BasicType
    <3> QED BY <1>1, <1>2, <3>1, <3>2, StageFrame
  <2>6. PadsAreLinked' BY <1>1, <2>1 DEF StageInv, PadsAreLinked
  <2> QED BY <2>2, <2>4, <2>5, <2>6
<1>10. CrashInv' BY <1>1 DEF CrashInv
<1> QED BY <1>3, <1>4, <1>5, <1>6, <1>7, <1>8, <1>9, <1>10 DEF StageInv

LEMMA LinkInv ==
  ASSUME CompositorInv, NEW t \in Tracks, Link(t)
  PROVE  CompositorInv'
<1> USE DEF CompositorInv
<1>1. /\ pc[t] = "link" /\ inPipeline' = inPipeline \cup {t}
      /\ pads' = IF t \in Videos THEN Append(pads, t) ELSE pads
      /\ Goto(t, IF t \in Videos THEN "count" ELSE "store")
      /\ UNCHANGED <<mu, bin, trackBins, callbacks, crashed, unbuilt, reused>>
  BY DEF Link, Linked, At
<1>2. pc'[t] \in {"count", "store"} /\ \A u \in Tracks \ {t} : pc'[u] = pc[u]
  BY <1>1, GotoPc
<1>3. BasicType' BY <1>1 DEF BasicType, Goto
<1>4. t \in AllPads /\ t \notin Range(pads) BY <1>1 DEF FreshIsUnlinked, AllPads
<1>5. /\ pads' \in Seq(AllPads) /\ IsInjective(pads')
      /\ Range(pads') = IF t \in Videos THEN Range(pads) \cup {t} ELSE Range(pads)
  <2>1. CASE t \in Videos
    <3>1. pads' = Append(pads, t) BY <1>1, <2>1
    <3> QED BY <1>4, <2>1, <3>1, AppendedPads DEF PadsAreVideos
  <2>2. CASE t \notin Videos BY <1>1, <2>2 DEF PadsAreVideos
  <2> QED BY <2>1, <2>2
<1>6. PadsAreVideos' BY <1>5 DEF PadsAreVideos, AllPads
<1>7. FreshIsUnlinked' BY <1>1, <1>2, <1>5 DEF FreshIsUnlinked
<1>8. MutexHeld' BY <1>1, <1>2 DEF MutexHeld
<1>9. EntryHasUser'
  <2>1. InUse(t) /\ InUse(t)' BY <1>1, <1>2 DEF InUse
  <2> QED BY <1>1, <1>2, <2>1, EntryFrame
<1>10. ASSUME ~reused PROVE OneUser' /\ PadsAreLinked' /\ \A u \in Tracks : Stage(u)'
  <2>1. OneUser' BY <1>1, <1>2, <1>10, SameUsers DEF StageInv, InUse
  <2>2. Stage(t)'
    <3>1. mu' = t BY <1>1 DEF MutexHeld
    <3>2. t \notin unbuilt /\ bin[t] = Own(t) BY <1>1, <1>10 DEF StageInv, Stage
    <3> QED BY <1>1, <1>2, <3>1, <3>2 DEF Stage, Own, Adding, Removed
  <2>3. ASSUME NEW u \in Tracks \ {t} PROVE Stage(u)'
    <3>1. Stage(u) BY <1>10 DEF StageInv
    <3> QED BY <1>1, <1>2, <3>1, StageFrame
  <2>4. PadsAreLinked'
    <3>1. PadsAreLinked BY <1>10 DEF StageInv
    <3> QED BY <1>1, <1>5, <3>1 DEF PadsAreLinked
  <2> QED BY <2>1, <2>2, <2>3, <2>4
<1>11. CrashInv' BY <1>1 DEF CrashInv
<1> QED BY <1>1, <1>3, <1>8, <1>9, <1>10, <1>11, <1>6, <1>7 DEF StageInv

\* Counting and walking change neither the bins nor the maps.
LEMMA RelayoutInv ==
  ASSUME CompositorInv, NEW t \in Tracks,
         Count(t) \/ (Walk(t) /\ UNCHANGED crashed)
  PROVE  CompositorInv'
<1> USE DEF CompositorInv
<1>1. /\ UNCHANGED <<mu, bin, trackBins, callbacks, inPipeline, pads, crashed, unbuilt, reused>>
      /\ \/ pc[t] = "count" /\ Goto(t, "walk")
         \/ pc[t] = "walk" /\ Goto(t, IF mu = t THEN "store" ELSE "forget")
  <2>1. CASE Count(t) BY <2>1 DEF Count, At
  <2>2. CASE Walk(t) /\ UNCHANGED crashed
    <3>1. pc[t] = "walk" /\ crashed = "no" BY <2>2 DEF Walk, At
    <3> QED BY <2>2, <3>1 DEF Walk, Crash
  <2> QED BY <2>1, <2>2
<1>2. /\ \A u \in Tracks \ {t} : pc'[u] = pc[u]
      /\ \/ pc[t] = "count" /\ pc'[t] = "walk"
         \/ pc[t] = "walk" /\ mu = t /\ pc'[t] = "store"
         \/ pc[t] = "walk" /\ mu # t /\ pc'[t] = "forget"
  BY <1>1, GotoPc
<1>3. BasicType' BY <1>1 DEF BasicType, Goto
<1>4. FreshIsUnlinked' BY <1>1, <1>2 DEF FreshIsUnlinked
<1>5. PadsAreVideos' BY <1>1 DEF PadsAreVideos
<1>6. MutexHeld' BY <1>1, <1>2 DEF MutexHeld
<1>7. EntryHasUser'
  <2>1. InUse(t) /\ InUse(t)' BY <1>2 DEF InUse
  <2> QED BY <1>1, <1>2, <2>1, EntryFrame
<1>8. ASSUME ~reused PROVE OneUser' /\ PadsAreLinked' /\ \A u \in Tracks : Stage(u)'
  <2>1. OneUser' BY <1>2, <1>8, SameUsers DEF StageInv, InUse
  <2>2. Stage(t)'
    <3>1. Stage(t) BY <1>8 DEF StageInv
    <3> QED BY <1>1, <1>2, <3>1 DEF Stage, Own, Adding, Removed
  <2>3. ASSUME NEW u \in Tracks \ {t} PROVE Stage(u)'
    <3>1. Stage(u) BY <1>8 DEF StageInv
    <3> QED BY <1>1, <1>2, <3>1, StageFrame
  <2>4. PadsAreLinked' BY <1>1, <1>8 DEF StageInv, PadsAreLinked
  <2> QED BY <2>1, <2>2, <2>3, <2>4
<1>9. CrashInv' BY <1>1 DEF CrashInv
<1> QED BY <1>1, <1>3, <1>4, <1>5, <1>6, <1>7, <1>8, <1>9 DEF StageInv

LEMMA StoreInv ==
  ASSUME CompositorInv, NEW t \in Tracks, Store(t)
  PROVE  CompositorInv'
<1> USE DEF CompositorInv
<1>1. /\ pc[t] = "store" /\ Goto(t, "reading") /\ mu' = None
      /\ trackBins' = [trackBins EXCEPT ![Id[t]] = bin[t]]
      /\ callbacks' = IF t \in Videos THEN callbacks \cup {Id[t]} ELSE callbacks
      /\ UNCHANGED <<bin, inPipeline, pads, crashed, unbuilt, reused>>
  BY DEF Store, At
<1>2. pc'[t] = "reading" /\ \A u \in Tracks \ {t} : pc'[u] = pc[u] BY <1>1, GotoPc
<1>3. BasicType' BY <1>1 DEF BasicType, Goto
<1>4. FreshIsUnlinked' BY <1>1, <1>2 DEF FreshIsUnlinked
<1>5. PadsAreVideos' BY <1>1 DEF PadsAreVideos
<1>6. mu = t BY <1>1 DEF MutexHeld
<1>7. MutexHeld' BY <1>1, <1>2, <1>6 DEF MutexHeld
<1>8. EntryHasUser'
  <2>1. InUse(t) /\ InUse(t)' BY <1>1, <1>2 DEF InUse
  <2>2. \A i \in Ids : i # Id[t] => /\ trackBins'[i] # None => trackBins[i] # None
                                    /\ i \in callbacks' => i \in callbacks
    BY <1>1 DEF BasicType
  <2> QED BY <1>2, <2>1, <2>2, EntryFrame
<1>9. ASSUME ~reused PROVE OneUser' /\ PadsAreLinked' /\ \A u \in Tracks : Stage(u)'
  <2>1. OneUser /\ \A u \in Tracks : Stage(u) BY <1>9 DEF StageInv
  <2>2. OneUser' BY <1>1, <1>2, <2>1, SameUsers DEF InUse
  <2>3. Stage(t)'
    <3>1. trackBins'[Id[t]] = bin[t] BY <1>1 DEF BasicType
    <3> QED BY <1>1, <1>2, <2>1, <3>1 DEF Stage, Own, Adding, Removed
  <2>4. ASSUME NEW u \in Tracks \ {t} PROVE Stage(u)'
    <3>1. pc[u] \in {"reading", "ended", "remove"} => Id[u] # Id[t]
      BY <1>1, <2>1 DEF OneUser, InUse
    <3>2. pc[u] \in {"reading", "ended", "remove"} => trackBins'[Id[u]] = trackBins[Id[u]]
      BY <1>1, <3>1 DEF BasicType
    <3> QED BY <1>1, <1>2, <1>6, <2>1, <3>2, StageFrame
  <2>5. PadsAreLinked' BY <1>1, <1>9 DEF StageInv, PadsAreLinked
  <2> QED BY <2>2, <2>3, <2>4, <2>5
<1>10. CrashInv' BY <1>1 DEF CrashInv
<1> QED BY <1>1, <1>3, <1>4, <1>5, <1>7, <1>8, <1>9, <1>10 DEF StageInv

LEMMA EndInv ==
  ASSUME CompositorInv, NEW t \in Tracks, TrackEnds(t) \/ FindBin(t)
  PROVE  CompositorInv'
<1> USE DEF CompositorInv
<1>1. /\ UNCHANGED <<mu, trackBins, callbacks, inPipeline, pads, crashed, unbuilt, reused>>
      /\ \/ pc[t] = "reading" /\ Goto(t, "ended") /\ UNCHANGED bin
         \/ pc[t] = "ended" /\ Goto(t, "remove") /\ bin' = [bin EXCEPT ![t] = trackBins[Id[t]]]
  BY DEF TrackEnds, Reading, FindBin, At
<1>2. /\ \A u \in Tracks \ {t} : pc'[u] = pc[u] /\ bin'[u] = bin[u]
      /\ \/ pc[t] = "reading" /\ pc'[t] = "ended"
         \/ pc[t] = "ended" /\ pc'[t] = "remove" /\ bin'[t] = trackBins[Id[t]]
  BY <1>1, GotoPc DEF BasicType
<1>3. BasicType' BY <1>1 DEF BasicType, Goto
<1>4. FreshIsUnlinked' BY <1>1, <1>2 DEF FreshIsUnlinked
<1>5. PadsAreVideos' BY <1>1 DEF PadsAreVideos
<1>6. MutexHeld' BY <1>1, <1>2 DEF MutexHeld
<1>7. EntryHasUser'
  <2>1. InUse(t) /\ InUse(t)' BY <1>2 DEF InUse
  <2> QED BY <1>1, <1>2, <2>1, EntryFrame
<1>8. ASSUME ~reused PROVE OneUser' /\ PadsAreLinked' /\ \A u \in Tracks : Stage(u)'
  <2>1. OneUser' BY <1>2, <1>8, SameUsers DEF StageInv, InUse
  <2>2. Stage(t)'
    <3>1. Stage(t) BY <1>8 DEF StageInv
    <3> QED BY <1>1, <1>2, <3>1 DEF Stage, Own, Adding, Removed
  <2>3. ASSUME NEW u \in Tracks \ {t} PROVE Stage(u)'
    <3>1. Stage(u) BY <1>8 DEF StageInv
    <3> QED BY <1>1, <1>2, <3>1, StageFrame
  <2>4. PadsAreLinked' BY <1>1, <1>8 DEF StageInv, PadsAreLinked
  <2> QED BY <2>1, <2>2, <2>3, <2>4
<1>9. CrashInv' BY <1>1 DEF CrashInv
<1> QED BY <1>1, <1>3, <1>4, <1>5, <1>6, <1>7, <1>8, <1>9 DEF StageInv

LEMMA RemoveInv ==
  ASSUME CompositorInv, NEW t \in Tracks, Remove(t)
  PROVE  CompositorInv'
<1> USE DEF CompositorInv
<1>1. /\ pc[t] = "remove" /\ bin[t] \in inPipeline
      /\ inPipeline' = inPipeline \ {bin[t]}
      /\ pads' = IF t \in Videos THEN Released(pads, bin[t]) ELSE pads
      /\ Goto(t, AfterRemove(t))
      /\ UNCHANGED <<mu, bin, trackBins, callbacks, crashed, unbuilt, reused>>
  BY DEF Remove, ReleasedBy, At
<1>2. pc'[t] \in {"count", "forget"} /\ \A u \in Tracks \ {t} : pc'[u] = pc[u]
  BY <1>1, GotoPc DEF AfterRemove
<1>3. BasicType' BY <1>1 DEF BasicType, Goto, AfterRemove
<1>4. /\ pads' \in Seq(AllPads) /\ IsInjective(pads')
      /\ Range(pads') = IF t \in Videos THEN Range(pads) \ {bin[t]} ELSE Range(pads)
  <2>1. CASE t \in Videos BY <1>1, <2>1, ReleasedPads DEF PadsAreVideos
  <2>2. CASE t \notin Videos BY <1>1, <2>2 DEF PadsAreVideos
  <2> QED BY <2>1, <2>2
<1>5. PadsAreVideos' BY <1>4 DEF PadsAreVideos
<1>6. FreshIsUnlinked' BY <1>1, <1>2, <1>4 DEF FreshIsUnlinked
<1>7. MutexHeld' BY <1>1, <1>2 DEF MutexHeld
<1>8. EntryHasUser'
  <2>1. InUse(t) /\ InUse(t)' BY <1>1, <1>2 DEF InUse
  <2> QED BY <1>1, <1>2, <2>1, EntryFrame
<1>9. ASSUME ~reused PROVE OneUser' /\ PadsAreLinked' /\ \A u \in Tracks : Stage(u)'
  <2>1. OneUser /\ \A u \in Tracks : Stage(u) BY <1>9 DEF StageInv
  <2>2. OneUser' BY <1>1, <1>2, <2>1, SameUsers DEF InUse
  <2>3. bin[t] = t
    BY <1>1, <2>1 DEF Stage, Own, BasicType
  <2>4. Stage(t)'
    <3>1. mu # t BY <1>1 DEF MutexHeld
    <3> QED BY <1>1, <1>2, <2>3, <3>1 DEF Stage, Own, Adding, Removed
  <2>5. ASSUME NEW u \in Tracks \ {t} PROVE Stage(u)'
    BY <1>1, <1>2, <2>1, <2>3, StageFrame
  <2>6. PadsAreLinked'
    <3>1. PadsAreLinked BY <1>9 DEF StageInv
    <3>2. t \notin Range(pads') BY <1>4, <2>3 DEF PadsAreVideos
    <3> QED BY <1>1, <1>4, <2>3, <3>1, <3>2 DEF PadsAreLinked
  <2> QED BY <2>2, <2>4, <2>5, <2>6
<1>10. CrashInv' BY <1>1 DEF CrashInv
<1> QED BY <1>1, <1>3, <1>7, <1>8, <1>9, <1>10, <1>5, <1>6 DEF StageInv

LEMMA ForgetInv ==
  ASSUME CompositorInv, NEW t \in Tracks, Forget(t)
  PROVE  CompositorInv'
<1> USE DEF CompositorInv
<1>1. /\ pc[t] = "forget" /\ Goto(t, "done")
      /\ trackBins' = [trackBins EXCEPT ![Id[t]] = None]
      /\ callbacks' = callbacks \ {Id[t]}
      /\ bin' = [bin EXCEPT ![t] = None]
      /\ UNCHANGED <<mu, inPipeline, pads, crashed, unbuilt, reused>>
  BY DEF Forget, Forgotten, At
<1>2. pc'[t] = "done" /\ \A u \in Tracks \ {t} : pc'[u] = pc[u] /\ bin'[u] = bin[u]
  BY <1>1, GotoPc DEF BasicType
<1>3. BasicType' BY <1>1 DEF BasicType, Goto
<1>4. FreshIsUnlinked' BY <1>1, <1>2 DEF FreshIsUnlinked
<1>5. PadsAreVideos' BY <1>1 DEF PadsAreVideos
<1>6. MutexHeld' BY <1>1, <1>2 DEF MutexHeld
<1>7. EntryHasUser'
  <2>1. InUse(t) /\ trackBins'[Id[t]] = None /\ Id[t] \notin callbacks'
    BY <1>1 DEF InUse, BasicType
  <2>2. \A i \in Ids : i # Id[t] => /\ trackBins'[i] # None => trackBins[i] # None
                                    /\ i \in callbacks' => i \in callbacks
    BY <1>1 DEF BasicType
  <2> QED BY <1>2, <2>1, <2>2, EntryFrame
<1>8. ASSUME ~reused PROVE OneUser' /\ PadsAreLinked' /\ \A u \in Tracks : Stage(u)'
  <2>1. OneUser /\ \A u \in Tracks : Stage(u) BY <1>8 DEF StageInv
  <2>2. OneUser' BY <1>1, <1>2, <2>1, SameUsers DEF InUse
  <2>3. Stage(t)' BY <1>1, <1>2, <2>1 DEF Stage, Own, Adding, Removed
  <2>4. ASSUME NEW u \in Tracks \ {t} PROVE Stage(u)'
    <3>1. pc[u] \in {"reading", "ended", "remove"} => Id[u] # Id[t]
      BY <1>1, <2>1 DEF OneUser, InUse
    <3>2. pc[u] \in {"reading", "ended", "remove"} => trackBins'[Id[u]] = trackBins[Id[u]]
      BY <1>1, <3>1 DEF BasicType
    <3> QED BY <1>1, <1>2, <2>1, <3>2, StageFrame
  <2>5. PadsAreLinked' BY <1>1, <1>8 DEF StageInv, PadsAreLinked
  <2> QED BY <2>2, <2>3, <2>4, <2>5
<1>9. CrashInv' BY <1>1 DEF CrashInv
<1> QED BY <1>1, <1>3, <1>4, <1>5, <1>6, <1>7, <1>8, <1>9 DEF StageInv

\* The process ends; nothing else changes.
LEMMA CrashKeeps ==
  ASSUME CompositorInv, NEW why, Crash(why), why = "noBin" => unbuilt # {} \/ reused
  PROVE  CompositorInv'
<1>1. /\ crashed' = why
      /\ UNCHANGED <<pc, mu, bin, trackBins, callbacks, inPipeline, pads, unbuilt, reused>>
  BY DEF Crash
<1>2. BasicType' /\ FreshIsUnlinked' /\ PadsAreVideos' /\ MutexHeld'
  BY <1>1 DEF CompositorInv, BasicType, FreshIsUnlinked, PadsAreVideos, MutexHeld
<1>3. EntryHasUser' BY <1>1 DEF CompositorInv, EntryHasUser, InUse
<1>4. StageInv'
  BY <1>1 DEF CompositorInv, StageInv, PadsAreLinked, OneUser, InUse, Stage, Own, Adding, Removed
<1> QED BY <1>1, <1>2, <1>3, <1>4 DEF CompositorInv, CrashInv

LEMMA CompositorInvariant == Spec => []CompositorInv
<1>1. Init => CompositorInv
  <2> SUFFICES ASSUME Init PROVE CompositorInv
    OBVIOUS
  <2>1. BasicType /\ MutexHeld BY DEF Init, BasicType, MutexHeld
  <2>2. pads \in Seq(AllPads) /\ IsInjective(pads) /\ Range(pads) \cap Tracks = {}
    <3>1. PICK k \in Residents : pads = [i \in 1 .. k |-> i] BY DEF Init
    <3>2. k \in Nat /\ \A i \in 1 .. k : i \in 1 .. MaxResidents BY CompositorConstants
    <3>3. pads \in Seq(AllPads)
      <4>1. \A i \in 1 .. k : i \in AllPads BY <3>2 DEF AllPads
      <4> QED BY <3>1, <3>2, <4>1, IsASeq
    <3>4. IsInjective(pads) BY <3>1 DEF IsInjective
    <3>5. Range(pads) \subseteq 1 .. MaxResidents BY <3>1, <3>2 DEF Range
    <3>6. Tracks \cap 1 .. MaxResidents = {} BY CompositorConstants
    <3>7. Range(pads) \cap Tracks = {} BY <3>5, <3>6
    <3> QED BY <3>3, <3>4, <3>7
  <2>3. PadsAreVideos /\ FreshIsUnlinked BY <2>2 DEF Init, PadsAreVideos, FreshIsUnlinked
  <2>4. EntryHasUser BY DEF Init, EntryHasUser
  <2>5. OneUser /\ \A t \in Tracks : Stage(t)
    BY DEF Init, OneUser, InUse, Stage, Own, Adding, Removed
  <2>6. PadsAreLinked BY <2>2 DEF PadsAreLinked
  <2> QED BY <2>1, <2>3, <2>4, <2>5, <2>6 DEF StageInv, Init, CompositorInv, CrashInv
<1>2. CompositorInv /\ [Next]_vars => CompositorInv'
  <2> SUFFICES ASSUME CompositorInv, [Next]_vars PROVE CompositorInv'
    OBVIOUS
  <2>1. ASSUME NEW t \in Tracks, Walk(t) PROVE CompositorInv'
    <3>1. Crash("divisionByZero") \/ UNCHANGED crashed BY <2>1 DEF Walk
    <3> QED BY <2>1, <3>1, CrashKeeps, RelayoutInv
  <2>2. ASSUME NEW t \in Tracks, RemoveCrashes(t) PROVE CompositorInv'
    <3>1. pc[t] = "remove" /\ bin[t] \notin inPipeline /\ Crash("noBin")
      BY <2>2 DEF RemoveCrashes, At
    <3>2. ~reused => t \in unbuilt
      BY <3>1 DEF CompositorInv, StageInv, Stage, Own
    <3> QED BY <3>1, <3>2, CrashKeeps
  <2>3. CASE RaceCrashes BY <2>3, CrashKeeps DEF RaceCrashes
  <2>4. CASE UNCHANGED vars
    <3>1. /\ UNCHANGED <<pc, mu, bin, trackBins, callbacks, inPipeline, pads, crashed, unbuilt,
                         reused>>
      BY <2>4 DEF vars
    <3>2. BasicType' /\ FreshIsUnlinked' /\ PadsAreVideos' /\ MutexHeld'
      BY <3>1 DEF CompositorInv, BasicType, FreshIsUnlinked, PadsAreVideos, MutexHeld
    <3>3. EntryHasUser' BY <3>1 DEF CompositorInv, EntryHasUser, InUse
    <3>4. StageInv'
      BY <3>1 DEF CompositorInv, StageInv, PadsAreLinked, OneUser, InUse, Stage, Own, Adding, Removed
    <3> QED BY <3>1, <3>2, <3>3, <3>4 DEF CompositorInv, CrashInv
  <2> QED BY <2>1, <2>2, <2>3, <2>4, BuildInv, LinkInv, RelayoutInv, StoreInv, EndInv, RemoveInv,
             ForgetInv DEF Next
<1> QED BY <1>1, <1>2, PTL DEF Spec

-------------------------------------------------------------------------------
(***************************************************************************)
(* bindTrackToAppsrc: at the end of a track its own bin is in trackBins,   *)
(* and the process dies for want of a bin only if one could not be built   *)
(* or an id was used again too early, however the tracks come and go.      *)
(***************************************************************************)
THEOREM OwnBinIsFound == Spec => []BinIsFound
<1>1. CompositorInv => BinIsFound
  BY DEF CompositorInv, CrashInv, StageInv, Stage, Own, BinIsFound, At
<1> QED BY <1>1, CompositorInvariant, PTL

(***************************************************************************)
(* bindTrackToAppsrc, gstreamer_compositor_remove_input_track: when every  *)
(* track that came is gone, there is no bin, pad, callback or map entry    *)
(* left of them, unless an id was used again too early.                    *)
(***************************************************************************)
THEOREM TracksLeaveNothing == Spec => []NothingLeft
<1>1. CompositorInv => NothingLeft
  <2> SUFFICES ASSUME CompositorInv, ~reused, \A t \in Tracks : ~InUse(t)
               PROVE  /\ inPipeline = {} /\ callbacks = {}
                      /\ Range(pads) \cap Tracks = {}
                      /\ \A i \in Ids : trackBins[i] = None
    BY DEF NothingLeft
  <2>1. \A t \in Tracks : t \notin inPipeline
    <3> SUFFICES ASSUME NEW t \in Tracks PROVE t \notin inPipeline
      OBVIOUS
    <3>1. pc[t] \in {"none", "done"} BY DEF InUse
    <3> QED BY <3>1 DEF CompositorInv, FreshIsUnlinked, StageInv, Stage, Removed
  <2>2. inPipeline = {} BY <2>1 DEF CompositorInv, BasicType
  <2>3. Range(pads) \cap Tracks = {} BY <2>2 DEF CompositorInv, StageInv, PadsAreLinked
  <2>4. callbacks = {} /\ \A i \in Ids : trackBins[i] = None
    BY DEF CompositorInv, EntryHasUser, BasicType
  <2> QED BY <2>2, <2>3, <2>4
<1> QED BY <1>1, CompositorInvariant, PTL
-------------------------------------------------------------------------------
\* The picture

PictureType ==
  /\ tile \in [AllPads -> Tiles]
  /\ num \in [Tracks -> Nat]
  /\ crashed \in {"no", "divisionByZero", "noBin", "race"}
  /\ overlapped \in BOOLEAN

\* A relayout that met no other one, nor a change, counted the pads that are there.
WalksAlone ==
  crashed = "no" /\ ~overlapped =>
    \A t \in Tracks : pc[t] = "walk" => num[t] = Len(pads) /\ ~OthersWalk(t)

Relaying(t) == pc[t] \in {"count", "walk"}

Placed ==
  LET n == Side(Len(pads)) IN \A p \in Range(pads) : tile[p] = Layout(pads, n, n)[p]

\* The list of pads changes only where a relayout follows.
PictureStays ==
  crashed = "no" /\ ~overlapped /\ Len(pads) <= MaxVideos /\ (\A t \in Tracks : ~Relaying(t))
    => Placed

PictureInv == PictureType /\ WalksAlone /\ PictureStays

\* Neither the list of pads nor the picture changes.
LEMMA PictureFrame ==
  ASSUME PictureInv, UNCHANGED <<pads, num, crashed, overlapped>>,
         tile' \in [AllPads -> Tiles], \A p \in Range(pads) : tile'[p] = tile[p],
         \A u \in Tracks : /\ pc'[u] = "walk" <=> pc[u] = "walk"
                           /\ Relaying(u) => Relaying(u)'
  PROVE  PictureInv'
<1>1. PictureType' BY DEF PictureInv, PictureType
<1>2. WalksAlone' BY DEF PictureInv, WalksAlone, OthersWalk
<1>3. PictureStays'
  <2> SUFFICES ASSUME PictureStays, crashed = "no", ~overlapped, Len(pads) <= MaxVideos,
                      \A u \in Tracks : ~Relaying(u)'
               PROVE  Placed'
    BY DEF PictureInv, PictureStays
  <2>1. Placed BY DEF PictureStays
  <2> QED BY <2>1 DEF Placed
<1> QED BY <1>1, <1>2, <1>3 DEF PictureInv

\* A pad is asked for or released: a relayout follows.
LEMMA PadsChange ==
  ASSUME PictureInv, NEW t \in Tracks, UNCHANGED <<num, crashed>>, tile' \in [AllPads -> Tiles],
         pc'[t] = "count", \A u \in Tracks \ {t} : pc'[u] = pc[u],
         pc[t] # "walk", overlapped' = (overlapped \/ OthersWalk(t))
  PROVE  PictureInv'
<1>1. overlapped' \in BOOLEAN BY DEF PictureInv, PictureType, OthersWalk
<1>2. PictureType' BY <1>1 DEF PictureInv, PictureType
<1>3. WalksAlone'
  <2> SUFFICES ASSUME ~overlapped', NEW u \in Tracks, pc'[u] = "walk" PROVE FALSE
    BY DEF WalksAlone
  <2>1. u # t /\ pc[u] = "walk" OBVIOUS
  <2>2. OthersWalk(t) BY <2>1 DEF OthersWalk
  <2> QED BY <2>2
<1>4. PictureStays' BY DEF PictureStays, Relaying
<1> QED BY <1>2, <1>3, <1>4 DEF PictureInv

LEMMA CrashKeepsPicture ==
  ASSUME PictureInv, NEW why \in {"divisionByZero", "noBin", "race"}, Crash(why)
  PROVE  PictureInv'
<1>1. crashed' = why /\ UNCHANGED <<tile, num, overlapped>> BY DEF Crash
<1>2. crashed' # "no" BY <1>1
<1> QED BY <1>1, <1>2 DEF PictureInv, PictureType, WalksAlone, PictureStays

\* A relayout counts the pads.
LEMMA CountKeepsPicture ==
  ASSUME CompositorInv, PictureInv, NEW t \in Tracks, Count(t)
  PROVE  PictureInv'
<1>1. /\ pc[t] = "count" /\ num' = [num EXCEPT ![t] = Len(pads)]
      /\ overlapped' = OthersWalk(t) /\ Goto(t, "walk")
      /\ UNCHANGED <<pads, tile, crashed>>
  BY DEF Count, At
<1>2. pc'[t] = "walk" /\ \A u \in Tracks \ {t} : pc'[u] = pc[u]
  BY <1>1, GotoPc DEF CompositorInv
<1>3. Len(pads) \in Nat BY LenProperties DEF CompositorInv, PadsAreVideos
<1>4. PictureType'
  <2>1. overlapped' \in BOOLEAN BY <1>1 DEF OthersWalk
  <2> QED BY <1>1, <1>3, <2>1 DEF PictureInv, PictureType
<1>5. WalksAlone'
  <2> SUFFICES ASSUME ~overlapped', NEW u \in Tracks, pc'[u] = "walk"
               PROVE  num'[u] = Len(pads') /\ ~OthersWalk(u)'
    BY DEF WalksAlone
  <2>1. \A v \in Tracks \ {t} : pc[v] # "walk" BY <1>1 DEF OthersWalk
  <2>2. u = t BY <1>2, <2>1
  <2>3. num'[t] = Len(pads) BY <1>1 DEF PictureInv, PictureType
  <2> QED BY <1>1, <1>2, <2>1, <2>2, <2>3 DEF OthersWalk
<1>6. PictureStays' BY <1>2 DEF PictureStays, Relaying
<1> QED BY <1>4, <1>5, <1>6 DEF PictureInv

\* A relayout that met nothing puts the picture right, any other one puts it somewhere.
LEMMA WalkKeepsPicture ==
  ASSUME CompositorInv, PictureInv, NEW t \in Tracks, Walk(t)
  PROVE  PictureInv'
<1>1. pc[t] = "walk" /\ crashed = "no" BY DEF Walk, At
<1>2. PICK g \in Grids(num[t]) :
        IF 0 \in {g[1], g[2]}
          THEN Crash("divisionByZero")
          ELSE /\ tile' = [p \in AllPads |-> IF p \in Range(pads) THEN Layout(pads, g[1], g[2])[p]
                                                                 ELSE Unplaced]
               /\ num' = [num EXCEPT ![t] = 0]
               /\ Goto(t, IF mu = t THEN "store" ELSE "forget")
               /\ UNCHANGED <<pads, crashed, overlapped>>
  BY DEF Walk
<1>3. CASE 0 \in {g[1], g[2]} BY <1>2, <1>3, CrashKeepsPicture
<1>4. CASE ~(0 \in {g[1], g[2]})
  <2>1. /\ tile' = [p \in AllPads |-> IF p \in Range(pads) THEN Layout(pads, g[1], g[2])[p]
                                                           ELSE Unplaced]
        /\ num' = [num EXCEPT ![t] = 0]
        /\ Goto(t, IF mu = t THEN "store" ELSE "forget")
        /\ UNCHANGED <<pads, crashed, overlapped>>
    BY <1>2, <1>4
  <2>2. /\ pc'[t] \in {"store", "forget"}
        /\ \A u \in Tracks \ {t} : pc'[u] = pc[u]
    BY <2>1, GotoPc DEF CompositorInv
  <2>3. pads \in Seq(AllPads) /\ IsInjective(pads) /\ Len(pads) \in Nat
    BY LenProperties DEF CompositorInv, PadsAreVideos
  <2>4. num[t] \in Nat BY DEF PictureInv, PictureType
  <2>5. g[1] \in Int /\ g[2] \in Int /\ g[1] # 0 /\ g[2] # 0
    <3>1. CASE num[t] <= MaxVideos
      <4>1. g = <<Side(num[t]), Side(num[t])>> BY <3>1 DEF Grids
      <4>2. Side(num[t]) \in Int BY DEF Side
      <4> QED BY <1>4, <4>1, <4>2
    <3>2. CASE ~(num[t] <= MaxVideos)
      <4>1. g \in Garbage \X Garbage BY <3>2 DEF Grids
      <4>2. Garbage \subseteq Int BY CompositorConstants
      <4> QED BY <1>4, <4>1, <4>2
    <3> QED BY <3>1, <3>2
  <2>6. tile' \in [AllPads -> Tiles]
    <3>1. \A p \in Range(pads) : Layout(pads, g[1], g[2])[p] \in Tiles BY <2>3, <2>5, LayoutType
    <3>2. Unplaced \in Tiles BY DEF Unplaced, Tiles
    <3> QED BY <2>1, <3>1, <3>2
  <2>7. PictureType' BY <2>1, <2>6 DEF PictureInv, PictureType
  <2>8. WalksAlone'
    <3> SUFFICES ASSUME ~overlapped, NEW u \in Tracks, pc'[u] = "walk" PROVE FALSE
      BY <2>1 DEF WalksAlone
    <3>1. u # t /\ pc[u] = "walk" BY <2>2
    <3>2. ~OthersWalk(t) BY <1>1 DEF PictureInv, WalksAlone
    <3> QED BY <3>1, <3>2 DEF OthersWalk
  <2>9. PictureStays'
    <3> SUFFICES ASSUME ~overlapped, Len(pads) <= MaxVideos PROVE Placed'
      BY <2>1 DEF PictureStays
    <3>1. num[t] = Len(pads) BY <1>1 DEF PictureInv, WalksAlone
    <3>2. g = <<Side(Len(pads)), Side(Len(pads))>> BY <3>1 DEF Grids
    <3>3. Range(pads) \subseteq AllPads BY <2>3, ElementOfSeq, LenProperties DEF Range
    <3>4. g[1] = Side(Len(pads)) /\ g[2] = Side(Len(pads)) BY <3>2
    <3> QED BY <2>1, <3>3, <3>4 DEF Placed
  <2> QED BY <2>7, <2>8, <2>9 DEF PictureInv
<1> QED BY <1>3, <1>4

LEMMA LinkKeepsPicture ==
  ASSUME CompositorInv, PictureInv, NEW t \in Tracks, Link(t)
  PROVE  PictureInv'
<1>1. /\ pc[t] = "link" /\ UNCHANGED <<tile, num, crashed>>
      /\ pads' = IF t \in Videos THEN Linked(pads, t) ELSE pads
      /\ overlapped' = (overlapped \/ (t \in Videos /\ OthersWalk(t)))
      /\ Goto(t, IF t \in Videos THEN "count" ELSE "store")
  BY DEF Link, At
<1>2. tile' \in [AllPads -> Tiles] /\ overlapped \in BOOLEAN BY <1>1 DEF PictureInv, PictureType
<1>3. CASE t \in Videos
  <2>1. pc'[t] = "count" /\ \A u \in Tracks \ {t} : pc'[u] = pc[u]
    BY <1>1, <1>3, GotoPc DEF CompositorInv
  <2> QED BY <1>1, <1>2, <1>3, <2>1, PadsChange
<1>4. CASE t \notin Videos
  <2>1. pc'[t] = "store" /\ \A u \in Tracks \ {t} : pc'[u] = pc[u]
    BY <1>1, <1>4, GotoPc DEF CompositorInv
  <2>2. overlapped' = overlapped BY <1>1, <1>2, <1>4
  <2>3. \A u \in Tracks : (pc'[u] = "walk" <=> pc[u] = "walk") /\ (Relaying(u) => Relaying(u)')
    BY <1>1, <2>1 DEF Relaying
  <2> QED BY <1>1, <1>2, <1>4, <2>2, <2>3, PictureFrame
<1> QED BY <1>3, <1>4

LEMMA RemoveKeepsPicture ==
  ASSUME CompositorInv, PictureInv, NEW t \in Tracks, Remove(t)
  PROVE  PictureInv'
<1>1. /\ pc[t] = "remove" /\ UNCHANGED <<num, crashed>>
      /\ pads' = ReleasedBy(t)
      /\ tile' = [p \in AllPads |-> IF p \in Range(pads') THEN tile[p] ELSE Unplaced]
      /\ overlapped' = (overlapped \/ (t \in Videos /\ OthersWalk(t)))
      /\ Goto(t, AfterRemove(t))
  BY DEF Remove, At
<1>2. overlapped \in BOOLEAN BY DEF PictureInv, PictureType
<1>3. tile' \in [AllPads -> Tiles]
  <2>1. Unplaced \in Tiles BY DEF Unplaced, Tiles
  <2> QED BY <1>1, <2>1 DEF PictureInv, PictureType
<1>4. CASE t \in Videos
  <2>1. pc'[t] = "count" /\ \A u \in Tracks \ {t} : pc'[u] = pc[u]
    BY <1>1, <1>4, GotoPc DEF CompositorInv, AfterRemove
  <2> QED BY <1>1, <1>3, <1>4, <2>1, PadsChange
<1>5. CASE t \notin Videos
  <2>1. pc'[t] = "forget" /\ \A u \in Tracks \ {t} : pc'[u] = pc[u]
    BY <1>1, <1>5, GotoPc DEF CompositorInv, AfterRemove
  <2>2. overlapped' = overlapped BY <1>1, <1>2, <1>5
  <2>3. pads' = pads BY <1>1, <1>5 DEF ReleasedBy
  <2>4. Range(pads) \subseteq AllPads
    BY ElementOfSeq, LenProperties DEF CompositorInv, PadsAreVideos, Range
  <2>5. \A p \in Range(pads) : tile'[p] = tile[p] BY <1>1, <2>3, <2>4
  <2>6. \A u \in Tracks : (pc'[u] = "walk" <=> pc[u] = "walk") /\ (Relaying(u) => Relaying(u)')
    BY <1>1, <2>1 DEF Relaying
  <2> QED BY <1>1, <1>3, <2>2, <2>3, <2>5, <2>6, PictureFrame
<1> QED BY <1>4, <1>5

\* The steps that have nothing to do with the picture.
LEMMA OthersKeepPicture ==
  ASSUME CompositorInv, PictureInv, NEW t \in Tracks,
         Build(t) \/ Store(t) \/ TrackEnds(t) \/ FindBin(t) \/ Forget(t)
  PROVE  PictureInv'
<1>1. /\ UNCHANGED <<pads, tile, num, crashed, overlapped>>
      /\ \E l \in {"link", "store", "reading", "ended", "remove", "done"} : Goto(t, l)
      /\ pc[t] \in {"none", "store", "reading", "ended", "forget"}
  BY DEF Build, Store, TrackEnds, Reading, FindBin, Forget, At
<1>2. /\ pc'[t] \in {"link", "store", "reading", "ended", "remove", "done"}
      /\ \A u \in Tracks \ {t} : pc'[u] = pc[u]
  BY <1>1, GotoPc DEF CompositorInv
<1>3. \A u \in Tracks : (pc'[u] = "walk" <=> pc[u] = "walk") /\ (Relaying(u) => Relaying(u)')
  BY <1>1, <1>2 DEF Relaying
<1>4. tile' \in [AllPads -> Tiles] BY <1>1 DEF PictureInv, PictureType
<1> QED BY <1>1, <1>3, <1>4, PictureFrame

LEMMA PictureInvariant == Spec => []PictureInv
<1>1. Init => PictureInv
  <2> SUFFICES ASSUME Init PROVE PictureInv
    OBVIOUS
  <2>1. PICK k \in Residents : pads = [i \in 1 .. k |-> i] BY DEF Init
  <2>2. k \in Nat /\ k <= 16 /\ \A i \in 1 .. k : i \in AllPads BY CompositorConstants DEF AllPads
  <2>3. pads \in Seq(AllPads) /\ Len(pads) = k BY <2>1, <2>2, IsASeq
  <2>4. IsInjective(pads) BY <2>1 DEF IsInjective
  <2>5. Range(pads) \subseteq AllPads BY <2>1, <2>2 DEF Range
  <2> DEFINE n == Side(Len(pads))
  <2>6. n \in Int /\ n # 0 BY <2>2, <2>3 DEF Side
  <2>7. tile = [p \in AllPads |-> IF p \in Range(pads) THEN Layout(pads, n, n)[p] ELSE Unplaced]
    BY DEF Init
  <2>8. PictureType
    <3>1. \A p \in Range(pads) : Layout(pads, n, n)[p] \in Tiles
      BY <2>3, <2>4, <2>6, LayoutType
    <3>2. Unplaced \in Tiles BY DEF Unplaced, Tiles
    <3>3. tile \in [AllPads -> Tiles]
      <4> HIDE DEF n
      <4> QED BY <2>7, <3>1, <3>2
    <3> QED BY <3>3 DEF Init, PictureType
  <2>9. WalksAlone BY DEF Init, WalksAlone
  <2>10. PictureStays BY <2>5, <2>7 DEF PictureStays, Placed
  <2> QED BY <2>8, <2>9, <2>10 DEF PictureInv
<1>2. CompositorInv /\ PictureInv /\ [Next]_vars => PictureInv'
  <2> SUFFICES ASSUME CompositorInv, PictureInv, [Next]_vars PROVE PictureInv'
    OBVIOUS
  <2>1. ASSUME NEW t \in Tracks, RemoveCrashes(t) PROVE PictureInv'
    BY <2>1, CrashKeepsPicture DEF RemoveCrashes
  <2>2. CASE RaceCrashes BY <2>2, CrashKeepsPicture DEF RaceCrashes
  <2>3. CASE UNCHANGED vars
    <3>1. UNCHANGED <<pc, pads, tile, num, crashed, overlapped>> BY <2>3 DEF vars
    <3>2. tile' \in [AllPads -> Tiles] BY <3>1 DEF PictureInv, PictureType
    <3>3. \A u \in Tracks : (pc'[u] = "walk" <=> pc[u] = "walk") /\ (Relaying(u) => Relaying(u)')
      BY <3>1 DEF Relaying
    <3> QED BY <3>1, <3>2, <3>3, PictureFrame
  <2> QED BY <2>1, <2>2, <2>3, LinkKeepsPicture, CountKeepsPicture, WalkKeepsPicture,
             RemoveKeepsPicture, OthersKeepPicture DEF Next
<1> QED BY <1>1, <1>2, CompositorInvariant, PTL DEF Spec

-------------------------------------------------------------------------------
(***************************************************************************)
(* Every variable keeps its type, whatever an uninitialized grid was: no   *)
(* bin has two pads in the video mixer, and every pad has a position.      *)
(***************************************************************************)
THEOREM TypeCorrect == Spec => []TypeOK
<1>1. CompositorInv /\ PictureInv => TypeOK
  <2> SUFFICES ASSUME CompositorInv, PictureInv PROVE TypeOK
    OBVIOUS
  <2>1. Range(pads) \subseteq AllPads
    BY ElementOfSeq, LenProperties DEF CompositorInv, PadsAreVideos, Range
  <2> QED BY <2>1 DEF CompositorInv, PictureInv, BasicType, PadsAreVideos, PictureType, TypeOK
<1> QED BY <1>1, CompositorInvariant, PictureInvariant, PTL

(***************************************************************************)
(* gstreamer_compositor_relayout_videos: however often relayouts of the    *)
(* goroutines met, or the grid was not initialized, one that runs alone    *)
(* puts the picture right: when nothing is under way, up to 16 videos lie  *)
(* inside the frame, and none covers another.                              *)
(***************************************************************************)
THEOREM PictureComesRight == Spec => []PictureIsRight
<1>1. CompositorInv /\ PictureInv => PictureIsRight
  <2> SUFFICES ASSUME CompositorInv, PictureInv, crashed = "no", Quiet, ~overlapped,
                      Len(pads) <= MaxVideos, NEW i \in DOMAIN pads, NEW j \in DOMAIN pads
               PROVE  InFrame(tile[pads[i]]) /\ (i # j => Apart(tile[pads[i]], tile[pads[j]]))
    BY DEF PictureIsRight
  <2>1. Placed BY DEF PictureInv, PictureStays, Quiet, Relaying
  <2>2. pads \in Seq(AllPads) /\ IsInjective(pads) BY DEF CompositorInv, PadsAreVideos
  <2>3. DOMAIN pads = 1 .. Len(pads) BY <2>2, LenProperties
  <2> DEFINE n == Side(Len(pads))
             placed == Layout(pads, n, n)
  <2>4. tile[pads[i]] = placed[pads[i]] /\ tile[pads[j]] = placed[pads[j]]
    BY <2>1 DEF Placed, Range
  <2>5. InFrame(placed[pads[i]]) /\ (i # j => Apart(placed[pads[i]], placed[pads[j]]))
    BY <2>2, <2>3, LayoutIsRight
  <2> HIDE DEF placed
  <2> QED BY <2>4, <2>5
<1> QED BY <1>1, CompositorInvariant, PictureInvariant, PTL
===============================================================================
