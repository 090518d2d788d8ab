------------------------------ MODULE Attachments -----------------------------
(***************************************************************************)
(* Photos of reflections: a file, and a row that refers to it.             *)
(*   app/modules/reflections/service.py (add_reflection_attachment),       *)
(*   app/utils/file_upload.py, app/services/attachment_cleanup_service.py, *)
(*   app/cli/cleanup_attachments.py.                                       *)
(*                                                                         *)
(* The file is written before its row is committed and unlinked before the *)
(* row's deletion is. The cleanup job is a process beside the reminder     *)
(* jobs; it reads the rows and their owners' preferences once.             *)
(***************************************************************************)
EXTENDS Reminders

CONSTANTS
    Photos,
    Lives,          \* bound: the times to live that users choose, in days; 7
                    \* is the column's default
    MaxActors       \* bound: requests, jobs and photos of a behaviour

PhotoRow == [id : Ids, day : 0 .. LastDay, pc : {"old", "saving", "done", "failed"}]

ASSUME AttachmentsAssumption ==
    /\ 7 \in Lives /\ Lives \subseteq {1, 5, 7}
    /\ None \notin PhotoRow
    /\ MaxActors \in Nat

VARIABLES
    photo,       \* what an upload knows: users.id, the day, and how far it is
    posts,       \* photos whose reflection is there
    files,       \* photos on disk
    rows,        \* photos with a reflection_attachments row
    expiry,      \* user_preferences.photo_expiration, by users.id
    cleanup,     \* the progress of the cleanup job
    atStart,     \* history: expiry when the cleanup job read it
    broken,      \* history: photos a killed job had unlinked
    stuck        \* history: photos whose file could not be unlinked

uploads == <<photo, posts>>
histories == <<atStart, broken, stuck>>
vars    == <<reminderVars, uploads, files, rows, expiry, cleanup, histories>>

NoCleanup == [pc |-> "idle", left |-> {}, gone |-> {}]
Default   == [id \in Ids |-> 7]

\* A photo, its upload and its cleanup count as one.
Actors == Cardinality({r \in Requests : request[r].pc # "idle"})
          + Cardinality({j \in Jobs : job[j].pc # "idle"})
          + Cardinality({f \in Photos : photo[f] # None})

-----------------------------------------------------------------------------
(* add_reflection_attachment *)

\* The reflection is read and the file written.
Upload(f, e) ==
    /\ photo[f] = None /\ users[e] # None
    /\ photo' = [photo EXCEPT ![f] = [id |-> users[e].id, day |-> day, pc |-> "saving"]]
    /\ posts' = posts \cup {f} /\ files' = files \cup {f}
    /\ UNCHANGED <<rows, expiry, cleanup, histories>>

\* The insert fails when the reflection has gone, and may fail otherwise.
InsertPhoto(f) ==
    /\ photo[f] # None /\ photo[f].pc = "saving"
    /\ \/ /\ f \in posts
          /\ rows' = rows \cup {f}
          /\ photo' = [photo EXCEPT ![f].day = day, ![f].pc = "done"]
       \/ photo' = [photo EXCEPT ![f].pc = "failed"] /\ UNCHANGED rows
    /\ UNCHANGED <<posts, files, expiry, cleanup, histories>>

-----------------------------------------------------------------------------
(* AttachmentCleanupService *)

\* An owner without a row of preferences is not in the join. Without rows the job
\* has nothing to do.
StartCleanup ==
    /\ cleanup.pc \in {"idle", "dead"} /\ rows # {}
    /\ cleanup' = [pc |-> "next", gone |-> {},
                   left |-> {[photo |-> f, life |-> expiry[photo[f].id]] :
                                f \in {x \in rows : prefs[photo[x].id] # None}}]
    /\ atStart' = expiry
    /\ UNCHANGED <<uploads, files, rows, expiry, broken, stuck>>

Age(f) == day - photo[f].day

FaultyOutlived(c) == Age(c.photo) >= c.life - 1

\* On the last of its days it depends on the hour.
Outlived(c) == Age(c.photo) >= c.life

\* The file goes at once, the row at the end. A file that has gone is no error,
\* and one that cannot be unlinked is none to the job either: its row goes.
CleanupNext ==
    /\ cleanup.pc = "next"
    /\ \E c \in cleanup.left :
          \/ /\ Outlived(c)
             /\ cleanup' = [cleanup EXCEPT !.left = @ \ {c}, !.gone = @ \cup {c.photo}]
             /\ \/ files' = files \ {c.photo} /\ UNCHANGED stuck
                \/ c.photo \in files /\ stuck' = stuck \cup {c.photo} /\ UNCHANGED files
          \/ /\ Age(c.photo) <= c.life
             /\ cleanup' = [cleanup EXCEPT !.left = @ \ {c}]
             /\ UNCHANGED <<files, stuck>>
    /\ UNCHANGED <<uploads, rows, expiry, atStart, broken>>

CleanupEnd ==
    /\ cleanup.pc = "next" /\ cleanup.left = {}
    /\ rows' = rows \ cleanup.gone
    /\ cleanup' = [cleanup EXCEPT !.pc = "done", !.gone = {}]
    /\ atStart' = Default
    /\ UNCHANGED <<uploads, files, expiry, broken, stuck>>

KillCleanup ==
    /\ cleanup.pc = "next"
    /\ cleanup' = [cleanup EXCEPT !.pc = "dead", !.left = {}, !.gone = {}]
    /\ broken' = broken \cup cleanup.gone
    /\ atStart' = Default
    /\ UNCHANGED <<uploads, files, rows, expiry, stuck>>

-----------------------------------------------------------------------------

\* update_user_preferences: photo_expiration, of those who have a photo
SetExpiry(id, t) ==
    /\ prefs[id] # None /\ expiry[id] # t
    /\ expiry' = [expiry EXCEPT ![id] = t]
    /\ UNCHANGED <<uploads, files, rows, cleanup, histories>>

\* delete_reflection: the rows of its photos go, the files stay.
DeletePost(f) ==
    /\ f \in posts
    /\ posts' = posts \ {f} /\ rows' = rows \ {f}
    /\ UNCHANGED <<photo, files, expiry, cleanup, histories>>

\* The account's reflections go with it, and their photos' rows.
SweepPhotos ==
    /\ UNCHANGED <<photo, files, expiry, cleanup, histories>>
    /\ posts' = {f \in posts : Live(photo[f].id)'}
    /\ rows' = {f \in rows : Live(photo[f].id)'}

\* A photo may have been there for a while, with the default expiration.
Init ==
    /\ ReminderInit
    /\ photo \in [Photos -> {None} \cup [id : {e \in Movers : Live(e)}, day : {0}, pc : {"old"}]]
    /\ posts = {f \in Photos : photo[f] # None} /\ files = posts /\ rows = posts
    /\ expiry = Default /\ atStart = Default
    /\ cleanup = NoCleanup /\ broken = {} /\ stuck = {}

PhotoNext ==
    \/ \E f \in Photos, e \in Movers : Upload(f, e)
    \/ \E f \in Photos : InsertPhoto(f) \/ DeletePost(f)
    \/ \E f \in Photos, t \in Lives : photo[f] # None /\ SetExpiry(photo[f].id, t)
    \/ StartCleanup \/ CleanupNext \/ CleanupEnd \/ KillCleanup

Next ==
    /\ \/ ReminderNext /\ SweepPhotos
       \/ PhotoNext /\ UNCHANGED reminderVars
    /\ Actors' <= MaxActors

Spec == Init /\ [][Next]_vars

-----------------------------------------------------------------------------
(* Properties *)

\* Every row has an account, and a photo's row its reflection: the deletion of
\* one leaves no row behind.
TypeOK ==
    /\ ReminderTypeOK
    /\ rows \subseteq posts
    /\ \A f \in posts : photo[f] # None /\ Live(photo[f].id)
    /\ \A f \in files : photo[f] # None

\* A row without its file is one the job is about to delete or was killed over; a
\* file without its row is one of an upload under way or failed, of a reflection
\* that was deleted, or one the job could not unlink.
FilesTied ==
    \A f \in Photos : photo[f] # None =>
        /\ f \in rows \ files => f \in cleanup.gone \cup broken
        /\ f \in files \ rows => \/ photo[f].pc \in {"saving", "failed"}
                                 \/ f \notin posts \/ f \in stuck

\* A photo is kept as long as its owner wished when the job began (a wish that
\* changes while it runs is not heard): no file goes before, and no step parts
\* files and rows but in the ways FilesTied names.
PhotosKept ==
    [][/\ \A f \in files \ files' : Age(f) >= atStart[photo[f].id]
       /\ FilesTied']_vars
=============================================================================
