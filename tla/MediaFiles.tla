------------------------------ MODULE MediaFiles ------------------------------
(***************************************************************************)
(* One uploaded file: its row in media_files, its object in the storage,   *)
(* the client that uploads, confirms and deletes it, and the weekly sweep  *)
(* J-32.  Row and object live in different systems: every call of the      *)
(* storage stands between two statements of the database.                  *)
(***************************************************************************)
CONSTANTS
    Confirmers,    \* confirmations that may be in flight together
    StorageFaults  \* of "refuse", "crash", "unsure"

ASSUME MediaAssumption == StorageFaults \subseteq {"refuse", "crash", "unsure"}

VARIABLES
    media,        \* media_files.status; "new" before the row, "gone" after it
    object,       \* the object exists in the storage
    old,          \* created more than 24 hours ago
    url,          \* the presigned PUT: "none", "refused", "valid" or "expired"
    confirming,   \* confirmations that have seen a row and its object
    deleteRequest,\* deleteMedia: "idle", or "marked" before the storage call
    sweep,        \* J-32: what it is doing with the file
    doubtful      \* the storage removed the object and reported an error

mediaVars == <<media, object, old, url, confirming, deleteRequest, sweep, doubtful>>

-----------------------------------------------------------------------------
NoSweep == [step |-> "idle", was |-> "new"]
SweepSteps == {"idle", "listed", "claimed", "removed", "refused"}

MediaInit ==
    /\ media = "new" /\ object = FALSE /\ old = FALSE /\ url = "none"
    /\ confirming = {}
    /\ deleteRequest = "idle"
    /\ sweep = NoSweep
    /\ doubtful = FALSE

(* presignMediaUpload: the row first; without a URL it is deleted again, if *)
(* the process lives to do it.                                              *)
PresignMediaUpload ==
    /\ media = "new"
    /\ media' = "pending"
    /\ url' \in {"valid"} \cup (IF "refuse" \in StorageFaults THEN {"refused"} ELSE {})
    /\ UNCHANGED <<object, old, confirming, deleteRequest, sweep, doubtful>>

DeletePendingMedia ==
    /\ url = "refused" /\ ~old
    /\ media' = IF media = "pending" THEN "gone" ELSE media
    /\ url' = "none"
    /\ UNCHANGED <<object, old, confirming, deleteRequest, sweep, doubtful>>

\* The client uses the URL, and may use it again.
Upload ==
    /\ url = "valid"
    /\ object' = TRUE
    /\ UNCHANGED <<media, old, url, confirming, deleteRequest, sweep, doubtful>>

\* The URL lives 10 minutes, a pending row at least 24 hours.
UrlExpires ==
    /\ url = "valid"
    /\ url' = "expired"
    /\ UNCHANGED <<media, object, old, confirming, deleteRequest, sweep, doubtful>>

GrowOld ==
    /\ media \notin {"new", "gone"} /\ ~old /\ url # "valid"
    /\ old' = TRUE
    /\ UNCHANGED <<media, object, url, confirming, deleteRequest, sweep, doubtful>>

-----------------------------------------------------------------------------
(* confirmMediaUpload: row and object are read, then one UPDATE.            *)
HeadObject(c) ==
    /\ c \notin confirming
    /\ media = "pending" /\ object
    /\ confirming' = confirming \cup {c}
    /\ UNCHANGED <<media, object, old, url, deleteRequest, sweep, doubtful>>

MarkMediaReady(c) ==
    /\ c \in confirming
    /\ confirming' = confirming \ {c}
    /\ media' = IF media = "pending" THEN "ready" ELSE media
    /\ UNCHANGED <<object, old, url, deleteRequest, sweep, doubtful>>

(* deleteMedia: the row is hidden at once, the object removed after it.     *)
MarkMediaDeleted ==
    /\ deleteRequest = "idle"
    /\ media \in {"pending", "ready"}
    /\ media' = "deleted"
    /\ deleteRequest' = "marked"
    /\ UNCHANGED <<object, old, url, confirming, sweep, doubtful>>

DeleteObject ==
    /\ deleteRequest = "marked"
    /\ deleteRequest' = "idle"
    /\ object' \in {FALSE} \cup (IF StorageFaults = {} THEN {} ELSE {object})
    /\ UNCHANGED <<media, old, url, confirming, sweep, doubtful>>

-----------------------------------------------------------------------------
SweepTo(step) == sweep' = [sweep EXCEPT !.step = step]

\* Faulty: only uploads that were never confirmed are looked for.
Unconfirmed == media = "pending" /\ old
CleanupCandidate == (media = "pending" /\ old) \/ media = "deleted"

(* listMediaCleanupCandidates                                               *)
ListMediaCleanupCandidates ==
    /\ sweep = NoSweep
    /\ CleanupCandidate
    /\ sweep' = [step |-> "listed", was |-> media]
    /\ UNCHANGED <<media, object, old, url, confirming, deleteRequest, doubtful>>

\* Faulty: the file stays pending while its object is removed.
StaysPending(was) == was
StatusWhileRemoved(was) == "deleted"

\* A pending file is claimed, unless it was confirmed or deleted meanwhile.
ClaimForCleanup ==
    /\ sweep.step = "listed"
    /\ IF sweep.was = "pending" /\ media # "pending"
       THEN /\ sweep' = NoSweep
            /\ UNCHANGED media
       ELSE /\ SweepTo("claimed")
            /\ media' = IF sweep.was = "pending" THEN StatusWhileRemoved(sweep.was) ELSE media
    /\ UNCHANGED <<object, old, url, confirming, deleteRequest, doubtful>>

\* "unsure": the object is gone, but the call reports an error.
SweepObject ==
    /\ sweep.step = "claimed"
    /\ \/ object' = FALSE /\ SweepTo("removed") /\ UNCHANGED doubtful
       \/ /\ "refuse" \in StorageFaults
          /\ SweepTo("refused") /\ UNCHANGED <<object, doubtful>>
       \/ /\ "unsure" \in StorageFaults
          /\ object' = FALSE /\ SweepTo("refused") /\ doubtful' = TRUE
    /\ UNCHANGED <<media, old, url, confirming, deleteRequest>>

PermanentlyDeleteMedia ==
    /\ sweep.step = "removed"
    /\ media' = "gone"
    /\ sweep' = NoSweep
    /\ UNCHANGED <<object, old, url, confirming, deleteRequest, doubtful>>

\* A claimed file goes back to pending, so that the next sweep finds it.
RestoreMediaPending ==
    /\ sweep.step = "refused"
    /\ media' = IF sweep.was = "pending" /\ media = "deleted" THEN "pending" ELSE media
    /\ sweep' = NoSweep
    /\ UNCHANGED <<object, old, url, confirming, deleteRequest, doubtful>>

\* The process dies in the middle of a request or of the sweep.
Crash ==
    /\ "crash" \in StorageFaults
    /\ sweep # NoSweep \/ deleteRequest # "idle" \/ confirming # {}
    /\ sweep' = NoSweep /\ deleteRequest' = "idle" /\ confirming' = {}
    /\ UNCHANGED <<media, object, old, url, doubtful>>

-----------------------------------------------------------------------------
SweepStep ==
    \/ ListMediaCleanupCandidates \/ ClaimForCleanup \/ SweepObject
    \/ PermanentlyDeleteMedia \/ RestoreMediaPending

MediaNext ==
    \/ PresignMediaUpload \/ DeletePendingMedia
    \/ Upload \/ UrlExpires \/ GrowOld
    \/ \E c \in Confirmers : HeadObject(c) \/ MarkMediaReady(c)
    \/ MarkMediaDeleted \/ DeleteObject
    \/ SweepStep
    \/ Crash

(* J-32 comes back every week, and some time the storage answers it and it  *)
(* lives to the end.  Time passes.                                          *)
MediaFairness ==
    /\ WF_mediaVars(UrlExpires) /\ WF_mediaVars(GrowOld)
    /\ WF_mediaVars(ListMediaCleanupCandidates) /\ SF_mediaVars(ClaimForCleanup)
    /\ SF_mediaVars(SweepObject /\ object' = FALSE /\ sweep'.step = "removed")
    /\ SF_mediaVars(PermanentlyDeleteMedia)
    /\ WF_mediaVars(RestoreMediaPending)

-----------------------------------------------------------------------------
MediaTypeOK ==
    /\ media \in {"new", "pending", "ready", "deleted", "gone"}
    /\ object \in BOOLEAN /\ old \in BOOLEAN /\ doubtful \in BOOLEAN
    /\ url \in {"none", "refused", "valid", "expired"}
    /\ confirming \subseteq Confirmers
    /\ deleteRequest \in {"idle", "marked"}
    /\ sweep \in [step : SweepSteps, was : {"new", "pending", "deleted"}]

\* 02 J-32: a file that is shown as ready has its object, although the sweep
\* removes objects of files that are being confirmed at the same moment;
\* except where the storage reports an error for what it has removed.
ReadyHasObject == media = "ready" => object \/ doubtful

\* 02 J-32: a file that was deleted leaves the database, whatever refused or
\* crashed on the way, unless it was put back to pending and confirmed.
DeletedGoesAway == media = "deleted" ~> media \in {"gone", "ready"}
=============================================================================
