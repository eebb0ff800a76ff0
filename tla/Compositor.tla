------------------------------- MODULE Compositor -------------------------------
(***************************************************************************)
(* The compositor of the client (pkg/client/gst/compositor.go, gst.c, fed  *)
(* by the OnTrack of cmd/composite.go): every remote track gets a bin in   *)
(* one gstreamer pipeline, and the videos share a frame of 1920 x 1080.    *)
(*                                                                         *)
(* Two goroutines work for a track t: AddInputTrack, called by OnTrack,    *)
(* which holds c.mu, and bindTrackToAppsrc, which reads the track and, at  *)
(* its end, removes the bin again, without c.mu.  pc[t] is where whichever *)
(* of them runs is.  The sink pads of the video mixer are a list that both *)
(* change, count and walk; trackBins and boundRemoteTrackKeyframeCallbacks *)
(* are Go maps that both write, and the second is read by the streaming    *)
(* threads that ask for a key frame.  What is not protected may end the    *)
(* process: the Go runtime kills a process that it catches in concurrent   *)
(* map accesses, and a list of pads may be freed under the walk.           *)
(*                                                                         *)
(* Some videos ("residents") are there from the beginning and stay, so     *)
(* that every size of the layout is met.                                   *)
(*                                                                         *)
(* Left out: the media; codecs other than the two the client negotiates    *)
(* (opus and h264); Play and Stop, which set the state of the pipeline.    *)
(***************************************************************************)
EXTENDS Integers, Sequences, Functions

CONSTANTS Tracks, Videos,  \* the tracks that come and go, and those with video
          Ids, Id,         \* Id[t]: t.ID(), which its sender chose
          Residents,       \* how many videos may be there already
          MaxResidents,    \* at most as many as the layout has room for
          Garbage,         \* what an uninitialized int may hold
          None

ASSUME CompositorConstants ==
  /\ Videos \subseteq Tracks /\ Id \in [Tracks -> Ids]
  /\ MaxResidents \in 0 .. 16 /\ Residents \subseteq 0 .. MaxResidents
  /\ Garbage \subseteq Int /\ None \notin Tracks
  /\ Tracks \cap 1 .. MaxResidents = {}

VARIABLES
  pc,
  mu,             \* the AddInputTrack that holds c.mu, or None
  bin,            \* the bin t's goroutine has at hand, named by the track it was built for
  trackBins, callbacks,
  inPipeline,     \* the bins in the pipeline
  pads,           \* compositor->sinkpads, named by their bins
  tile,           \* position and size of each pad
  num,            \* num_videos of the relayout t is in
  crashed,        \* why the process ended, or "no"
  \* history
  unbuilt,        \* the tracks whose bin could not be built
  reused,         \* whether a track came whose id was still in use
  overlapped      \* whether the latest relayout met another one, or a change

vars == <<pc, mu, bin, trackBins, callbacks, inPipeline, pads, tile, num, crashed, unbuilt,
          reused, overlapped>>

-------------------------------------------------------------------------------
\* gstreamer_compositor_relayout_videos

Width  == 1920
Height == 1080

\* The side of the grid for n videos, if there is one.
Side(n) == IF n <= 1 THEN 1 ELSE IF n <= 4 THEN 2 ELSE IF n <= 9 THEN 3 ELSE 4

MaxVideos == 16

\* rows, cols: beyond 16 videos they are not initialized.
Grids(n) == IF n <= MaxVideos THEN {<<Side(n), Side(n)>>} ELSE Garbage \X Garbage

\* The division of C, which rounds towards zero, of an a that is not negative.
Quotient(a, b) == IF b > 0 THEN a \div b ELSE -(a \div (-b))

\* The position after p: to the right, or at the beginning of the next row.
Step(p, w, h) ==
  IF p.x + w >= Width THEN [x |-> 0, y |-> p.y + h] ELSE [x |-> p.x + w, y |-> p.y]

\* The first k positions.
Positions(k, w, h) ==
  LET at[i \in 1 .. k] == IF i = 1 THEN [x |-> 0, y |-> 0] ELSE Step(at[i - 1], w, h) IN at

\* What the walk over the pads writes.
Layout(ps, rows, cols) ==
  LET w == Quotient(Width, cols)
      h == Quotient(Height, rows)
      at == Positions(Len(ps), w, h) IN
  [p \in Range(ps) |-> LET i == CHOOSE j \in DOMAIN ps : ps[j] = p IN
     [x |-> at[i].x, y |-> at[i].y, w |-> w, h |-> h]]

\* A pad that was not laid out yet has no size.
Unplaced == [x |-> 0, y |-> 0, w |-> 0, h |-> 0]

-------------------------------------------------------------------------------
AllPads == Tracks \cup 1 .. MaxResidents

Init ==
  /\ pc = [t \in Tracks |-> "none"]
  /\ mu = None
  /\ bin = [t \in Tracks |-> None]
  /\ trackBins = [i \in Ids |-> None]
  /\ callbacks = {}
  /\ inPipeline = {}
  /\ \E k \in Residents : pads = [i \in 1 .. k |-> i]
  /\ tile = LET n == Len(pads)
                placed == Layout(pads, Side(n), Side(n)) IN
            [p \in AllPads |-> IF p \in Range(pads) THEN placed[p] ELSE Unplaced]
  /\ num = [t \in Tracks |-> 0]
  /\ crashed = "no"
  /\ unbuilt = {}
  /\ reused = FALSE
  /\ overlapped = FALSE

At(t, l) == crashed = "no" /\ pc[t] = l
Goto(t, l) == pc' = [pc EXCEPT ![t] = l]
Crash(why) ==
  /\ crashed' = why
  /\ UNCHANGED <<pc, mu, bin, trackBins, callbacks, inPipeline, pads, tile, num, unbuilt,
                 reused, overlapped>>

\* Another goroutine is between counting the pads and laying them out.
OthersWalk(t) == \E u \in Tracks \ {t} : pc[u] = "walk"

-------------------------------------------------------------------------------
\* AddInputTrack

InUse(t) == pc[t] \notin {"none", "done"}

\* c.mu.Lock; the bin is built, or gst_parse_bin_from_description returns NULL.
Build(t) ==
  /\ At(t, "none") /\ mu = None
  /\ mu' = t
  /\ reused' = (reused \/ \E u \in Tracks \ {t} : Id[u] = Id[t] /\ InUse(u))
  /\ \/ bin' = [bin EXCEPT ![t] = t] /\ Goto(t, "link") /\ UNCHANGED unbuilt
     \/ unbuilt' = unbuilt \cup {t} /\ Goto(t, "store") /\ UNCHANGED bin
  /\ UNCHANGED <<trackBins, callbacks, inPipeline, pads, tile, num, crashed, overlapped>>

\* Seeded fault: the mixer is asked for a pad, and gst_element_link asks again.
Linked_Twice(ps, b) == ps \o <<b, b>>

\* gst_element_link: the mixer gets a pad for bin b.
Linked(ps, b) == Append(ps, b)

\* Into the pipeline and onto a new pad of the mixer.
Link(t) ==
  /\ At(t, "link")
  /\ inPipeline' = inPipeline \cup {t}
  /\ pads' = IF t \in Videos THEN Linked(pads, t) ELSE pads
  /\ overlapped' = (overlapped \/ (t \in Videos /\ OthersWalk(t)))
  /\ Goto(t, IF t \in Videos THEN "count" ELSE "store")
  /\ UNCHANGED <<mu, bin, trackBins, callbacks, tile, num, crashed, unbuilt, reused>>

\* relayout: num_videos = compositor->numsinkpads
Count(t) ==
  /\ At(t, "count")
  /\ num' = [num EXCEPT ![t] = Len(pads)]
  /\ overlapped' = OthersWalk(t)
  /\ Goto(t, "walk")
  /\ UNCHANGED <<mu, bin, trackBins, callbacks, inPipeline, pads, tile, crashed, unbuilt, reused>>

\* relayout: the grid, and the walk over the pads.
Walk(t) ==
  /\ At(t, "walk")
  /\ \E g \in Grids(num[t]) :
       IF 0 \in {g[1], g[2]}
         THEN Crash("divisionByZero")
         ELSE /\ LET placed == Layout(pads, g[1], g[2]) IN
                   tile' = [p \in AllPads |-> IF p \in Range(pads) THEN placed[p] ELSE Unplaced]
              /\ num' = [num EXCEPT ![t] = 0]
              /\ Goto(t, IF mu = t THEN "store" ELSE "forget")
              /\ UNCHANGED <<mu, bin, trackBins, callbacks, inPipeline, pads, crashed, unbuilt,
                             reused, overlapped>>

\* The bin (or NULL) and the callback are stored, bindTrackToAppsrc starts, c.mu.Unlock.
Store(t) ==
  /\ At(t, "store")
  /\ trackBins' = [trackBins EXCEPT ![Id[t]] = bin[t]]
  /\ callbacks' = IF t \in Videos THEN callbacks \cup {Id[t]} ELSE callbacks
  /\ mu' = None
  /\ Goto(t, "reading")
  /\ UNCHANGED <<bin, inPipeline, pads, tile, num, crashed, unbuilt, reused, overlapped>>

-------------------------------------------------------------------------------
\* bindTrackToAppsrc, at the end of the track

\* Seeded fault: the goroutine is started before the bin is stored.
Reading_Early(t) == pc[t] \in {"store", "reading"}

Reading(t) == pc[t] = "reading"

TrackEnds(t) ==
  /\ crashed = "no" /\ Reading(t)
  /\ Goto(t, "ended")
  /\ UNCHANGED <<mu, bin, trackBins, callbacks, inPipeline, pads, tile, num, crashed, unbuilt,
                 reused, overlapped>>

FindBin(t) ==
  /\ At(t, "ended")
  /\ bin' = [bin EXCEPT ![t] = trackBins[Id[t]]]
  /\ Goto(t, "remove")
  /\ UNCHANGED <<mu, trackBins, callbacks, inPipeline, pads, tile, num, crashed, unbuilt, reused,
                 overlapped>>

\* gstreamer_compositor_remove_input_track, of a bin that is NULL or was removed.
RemoveCrashes(t) ==
  /\ At(t, "remove") /\ bin[t] \notin inPipeline
  /\ Crash("noBin")

\* Seeded fault: the videos are not laid out again.
AfterRemove_NoRelayout(t) == "forget"

AfterRemove(t) == IF t \in Videos THEN "count" ELSE "forget"

\* gst_element_release_request_pad: the pad of bin b, if it has one, leaves the list.
Released(ps, b) ==
  LET i == CHOOSE j \in DOMAIN ps : ps[j] = b IN
  IF b \in Range(ps) THEN SubSeq(ps, 1, i - 1) \o SubSeq(ps, i + 1, Len(ps)) ELSE ps

\* Asked of the audio mixer, which has no such pad, for the bin of a video.
ReleasedBy(t) == IF t \in Videos THEN Released(pads, bin[t]) ELSE pads

Remove(t) ==
  /\ At(t, "remove") /\ bin[t] \in inPipeline
  /\ inPipeline' = inPipeline \ {bin[t]}
  /\ pads' = ReleasedBy(t)
  /\ tile' = [p \in AllPads |-> IF p \in Range(pads') THEN tile[p] ELSE Unplaced]
  /\ overlapped' = (overlapped \/ (t \in Videos /\ OthersWalk(t)))
  /\ Goto(t, AfterRemove(t))
  /\ UNCHANGED <<mu, bin, trackBins, callbacks, num, crashed, unbuilt, reused>>

\* Seeded fault: the callback stays.
Forgotten_KeepsCallback(i) == callbacks

Forgotten(i) == callbacks \ {i}

Forget(t) ==
  /\ At(t, "forget")
  /\ trackBins' = [trackBins EXCEPT ![Id[t]] = None]
  /\ callbacks' = Forgotten(Id[t])
  /\ bin' = [bin EXCEPT ![t] = None]
  /\ Goto(t, "done")
  /\ UNCHANGED <<mu, inPipeline, pads, tile, num, crashed, unbuilt, reused, overlapped>>

-------------------------------------------------------------------------------
\* The races

Writes(t) == pc[t] \in {"store", "forget"}

\* A map is written while another goroutine accesses it: another track's, or
\* goHandleAppsrcForceKeyUnit, which any video in the pipeline may call.
MapRace ==
  \E t \in Tracks :
    /\ Writes(t)
    /\ \/ \E u \in Tracks \ {t} : Writes(u) \/ pc[u] = "ended"
       \/ pads # << >>

\* The list of pads changes under a walk.
ListRace ==
  \E t \in Videos : pc[t] = "walk" /\ \E u \in Videos \ {t} : pc[u] \in {"link", "remove"}

RaceCrashes == crashed = "no" /\ (MapRace \/ ListRace) /\ Crash("race")

-------------------------------------------------------------------------------
Next ==
  \/ \E t \in Tracks :
       \/ Build(t) \/ Link(t) \/ Count(t) \/ Walk(t) \/ Store(t)
       \/ TrackEnds(t) \/ FindBin(t) \/ Remove(t) \/ RemoveCrashes(t) \/ Forget(t)
  \/ RaceCrashes

Spec == Init /\ [][Next]_vars

-------------------------------------------------------------------------------
\* Properties

Tiles == [x : Int, y : Int, w : Int, h : Int]

TypeOK ==
  /\ pc \in [Tracks -> {"none", "link", "count", "walk", "store", "reading", "ended", "remove",
                        "forget", "done"}]
  /\ mu \in Tracks \cup {None}
  /\ bin \in [Tracks -> Tracks \cup {None}]
  /\ trackBins \in [Ids -> Tracks \cup {None}]
  /\ callbacks \subseteq Ids
  /\ inPipeline \subseteq Tracks
  /\ Range(pads) \subseteq AllPads /\ IsInjective(pads)
  /\ tile \in [AllPads -> Tiles]
  /\ num \in [Tracks -> Nat]
  /\ crashed \in {"no", "divisionByZero", "noBin", "race"}
  /\ unbuilt \subseteq Tracks
  /\ reused \in BOOLEAN /\ overlapped \in BOOLEAN

(***************************************************************************)
(* A relayout that no other one overlaps puts the picture right, whatever  *)
(* earlier ones that did overlap, or had too many videos, left: when       *)
(* nothing is under way, up to 16 videos lie inside the frame, none covers *)
(* another, and none is invisible.                                         *)
(***************************************************************************)
Quiet == \A t \in Tracks : pc[t] \in {"none", "reading", "done"}

InFrame(r) ==
  /\ r.w > 0 /\ r.h > 0 /\ r.x >= 0 /\ r.y >= 0
  /\ r.x + r.w <= Width /\ r.y + r.h <= Height
Apart(r, q) == r.x + r.w <= q.x \/ q.x + q.w <= r.x \/ r.y + r.h <= q.y \/ q.y + q.h <= r.y

PictureIsRight ==
  crashed = "no" /\ Quiet /\ ~overlapped /\ Len(pads) <= MaxVideos =>
    \A i, j \in DOMAIN pads :
      InFrame(tile[pads[i]]) /\ (i # j => Apart(tile[pads[i]], tile[pads[j]]))

(***************************************************************************)
(* Tracks that came and went leave nothing: no bin, no pad, no callback,   *)
(* although their goroutines clean up side by side and without c.mu;       *)
(* unless the id of a track was used again before it was cleaned up.       *)
(***************************************************************************)
NothingLeft ==
  crashed = "no" /\ ~reused /\ (\A t \in Tracks : ~InUse(t)) =>
    /\ inPipeline = {} /\ callbacks = {}
    /\ Range(pads) \cap Tracks = {}
    /\ \A i \in Ids : trackBins[i] = None

(***************************************************************************)
(* A goroutine that cleans up finds its own track's bin.  It is NULL, and  *)
(* the process dies, only if the bin could not be built or the id was used *)
(* again too early.                                                        *)
(***************************************************************************)
BinIsFound ==
  /\ crashed = "noBin" => unbuilt # {} \/ reused
  /\ \A t \in Tracks : At(t, "remove") /\ t \notin unbuilt /\ ~reused => bin[t] = t
===============================================================================
