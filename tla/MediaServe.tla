----------------------------- MODULE MediaServe -----------------------------
(***************************************************************************)
(* The `locast://` protocol of the desktop client (library/protocol.rs and  *)
(* its adapter in lib.rs): the webview's video element asks for a stretch   *)
(* of a library file, the handler finds the file through its row and says   *)
(* which bytes it will send, and the adapter reads them.  Bytes are         *)
(* numbered from 0.  The handler is one lock wide; the reading is outside   *)
(* the lock, and the item may be deleted at any moment.                     *)
(***************************************************************************)
EXTENDS Integers, FiniteSets

CONSTANTS MaxRange,     \* MAX_RANGE_BYTES
          Sizes,        \* bound: the sizes of the file
          Requests,     \* requests of the webview, under way side by side
          Asks          \* bound: what each may ask, <<request, target, Range>>

(* A Range header: absent; bytes=a-b, bytes=a-, bytes=-a; or any other text.  *)
Headers == [kind: {"absent", "span", "from", "last", "other"}, a: Nat, b: Nat]
Absent == [kind |-> "absent", a |-> 0, b |-> 0]
Targets == {"media", "meta", "subtitle", "elsewhere"}
NoRequest == "none"

ASSUME MediaAssumption ==
    /\ MaxRange \in Nat \ {0} /\ Sizes \subseteq Nat
    /\ Asks \subseteq Requests \X Targets \X Headers

VARIABLES size,         \* of the file: content-addressed, so it never changes
          itemRow,      \* the media_items row is there
          onDisk,       \* the file is where its row says
          busy,         \* per_media_lock: the request inside, or NoRequest
          asked,        \* what each request asks, or Silent
          answer        \* how far each request's answer has come

mediaVars == <<size, itemRow, onDisk, busy, asked, answer>>

Silent == [target |-> "nothing", range |-> Absent]
Status == {200, 206, 400, 404, 405, 416, 500}

\* A request as it is answered: the place it has reached, the status and the range.
Answer == [at: {"asked", "lookup", "path", "body", "done"},
           status: Status \cup {0}, first: Int, last: Int]

Least(a, b) == IF a <= b THEN a ELSE b

(* The single range a header asks of a file, or none: it is refused with 416. *)
ParseSingleRange(h, total) ==
    LET end == IF h.kind = "span" THEN h.b
               ELSE IF total = 0 THEN 0 ELSE total - 1     \* saturating_sub
    IN  CASE h.kind = "last" ->
                IF h.a = 0 \/ total = 0 THEN {}
                ELSE {<<total - Least(h.a, total), total - 1>>}
          [] h.kind \in {"from", "span"} ->
                IF h.a > end \/ h.a >= total THEN {}
                ELSE {<<h.a, Least(end, total - 1)>>}
          [] OTHER -> {}

\* A plausible slip: the window's end is taken as exclusive.
WindowOneLong(r) == <<r[1], Least(r[2], r[1] + MaxRange)>>
(* One answer carries at most MaxRange bytes, the first of the range.         *)
Window(r) == <<r[1], Least(r[2], r[1] + (MaxRange - 1))>>

(* The head of an answer and the bytes its body is to hold, first and last.   *)
Waiting == [at |-> "asked", status |-> 0, first |-> 0, last |-> -1]
Told(status) == [at |-> "done", status |-> status, first |-> 0, last |-> -1]
Sending(status, w) == [at |-> "body", status |-> status, first |-> w[1], last |-> w[2]]
Stretch(a) == a.first..a.last

\* What of a file is sent: a small file whole, anything else by windows.
Headed(h, total) ==
    LET parsed == ParseSingleRange(h, total)
    IN  CASE h.kind = "absent" /\ total <= MaxRange -> Sending(200, <<0, total - 1>>)
          [] h.kind = "absent" /\ total > MaxRange  -> Sending(206, Window(<<0, total - 1>>))
          [] h.kind # "absent" /\ parsed = {}       -> Told(416)
          [] OTHER -> Sending(206, Window(CHOOSE r \in parsed: TRUE))

-----------------------------------------------------------------------------
MediaInit ==
    /\ size \in Sizes /\ itemRow = TRUE /\ onDisk = TRUE /\ busy = NoRequest
    /\ asked = [q \in Requests |-> Silent]
    /\ answer = [q \in Requests |-> Told(200)]

Reply(q, a) == answer' = [answer EXCEPT ![q] = a]

(* The element asks: to play on, to seek, to retry.  Each request is a task.  *)
Ask(q, target, h) ==
    /\ answer[q].at = "done" /\ <<q, target, h>> \in Asks
    /\ asked' = [asked EXCEPT ![q] = [target |-> target, range |-> h]]
    /\ Reply(q, Waiting)
    /\ UNCHANGED <<size, itemRow, onDisk, busy>>

(* A URL of no known shape is refused, and so is any method but GET and HEAD, *)
(* before the lock is taken.                                                  *)
Unparsed(q) ==
    /\ answer[q].at = "asked" /\ asked[q].target = "elsewhere"
    /\ \E status \in {400, 405}: Reply(q, Told(status))
    /\ UNCHANGED <<size, itemRow, onDisk, busy, asked>>

Enter(q) ==
    /\ answer[q].at = "asked" /\ asked[q].target # "elsewhere" /\ busy = NoRequest
    /\ busy' = q
    /\ Reply(q, [answer[q] EXCEPT !.at = "lookup"])
    /\ UNCHANGED <<size, itemRow, onDisk, asked>>

(* media_items by the digest's prefix and the file's name.                    *)
ServeMedia(q) ==
    /\ answer[q].at = "lookup" /\ asked[q].target = "media"
    /\ IF itemRow THEN /\ Reply(q, [answer[q] EXCEPT !.at = "path"])
                       /\ UNCHANGED busy
                  ELSE Reply(q, Told(404)) /\ busy' = NoRequest
    /\ UNCHANGED <<size, itemRow, onDisk, asked>>

(* Nothing in the client fills media_subtitles: there is no row to be found.  *)
ServeSubtitle(q) ==
    /\ answer[q].at = "lookup" /\ asked[q].target = "subtitle"
    /\ Reply(q, Told(404)) /\ busy' = NoRequest
    /\ UNCHANGED <<size, itemRow, onDisk, asked>>

(* The sidecar is made from the row; the disk is not touched.                 *)
ServeMeta(q) ==
    /\ answer[q].at = "lookup" /\ asked[q].target = "meta"
    /\ Reply(q, Told(IF itemRow THEN 200 ELSE 404)) /\ busy' = NoRequest
    /\ UNCHANGED <<size, itemRow, onDisk, asked>>

(* The stored path is checked and the file measured; the answer's head is now *)
(* fixed and the lock is free.                                                *)
ServePath(q) ==
    /\ answer[q].at = "path"
    /\ Reply(q, IF onDisk THEN Headed(asked[q].range, size) ELSE Told(404))
    /\ busy' = NoRequest
    /\ UNCHANGED <<size, itemRow, onDisk, asked>>

(* The body of a window: the file is opened again, sought and read.  One that *)
(* has gone meanwhile turns the answer into an error.                         *)
StreamRange(q) ==
    /\ answer[q].at = "body" /\ answer[q].status = 206
    /\ Reply(q, IF onDisk THEN [answer[q] EXCEPT !.at = "done"] ELSE Told(500))
    /\ UNCHANGED <<size, itemRow, onDisk, busy, asked>>

(* The body of a whole file: one that has gone reads as an empty one.         *)
ReadWhole(q) ==
    /\ answer[q].at = "body" /\ answer[q].status = 200
    /\ Reply(q, IF onDisk THEN [answer[q] EXCEPT !.at = "done"] ELSE Told(200))
    /\ UNCHANGED <<size, itemRow, onDisk, busy, asked>>

(* library_delete: the file to the trash, then the row or the file back.      *)
FileGoes == onDisk /\ onDisk' = FALSE /\ UNCHANGED <<size, itemRow, busy, asked, answer>>
RowGoes ==
    /\ itemRow /\ ~onDisk
    /\ \/ itemRow' = FALSE /\ UNCHANGED onDisk
       \/ onDisk' = TRUE /\ UNCHANGED itemRow
    /\ UNCHANGED <<size, busy, asked, answer>>

(* An import or a download brings the same bytes to the same place.           *)
Comes ==
    /\ ~itemRow /\ itemRow' = TRUE /\ onDisk' = TRUE
    /\ UNCHANGED <<size, busy, asked, answer>>

MediaNext ==
    \/ \E a \in Asks: Ask(a[1], a[2], a[3])
    \/ \E q \in Requests: \/ Unparsed(q) \/ Enter(q) \/ ServeMedia(q) \/ ServeSubtitle(q)
                          \/ ServeMeta(q) \/ ServePath(q) \/ StreamRange(q) \/ ReadWhole(q)
    \/ FileGoes \/ RowGoes \/ Comes

MediaSpec == MediaInit /\ [][MediaNext]_mediaVars

-----------------------------------------------------------------------------
MediaTypeOK ==
    /\ size \in Sizes /\ itemRow \in BOOLEAN /\ onDisk \in BOOLEAN
    /\ busy \in Requests \cup {NoRequest}
    /\ asked \in [Requests -> [target: Targets \cup {"nothing"}, range: Headers]]
    /\ answer \in [Requests -> [at: {"asked", "lookup", "path", "body", "done"},
                                status: Status \cup {0}, first: Int, last: Int]]

\* The bytes of a file of `total` bytes a header names, by its definition.
Named(h, total) ==
    {b \in 0..(total - 1): \/ h.kind = "last" /\ b >= total - h.a
                           \/ h.kind = "from" /\ b >= h.a
                           \/ h.kind = "span" /\ b >= h.a /\ b <= h.b
                           \/ h.kind = "absent"}

(* A window says and sends what was asked: it begins at the first byte of the *)
(* file the header names, holds none it does not name, is never empty and     *)
(* never longer than MaxRange, so an element that asks on from where a window *)
(* ended gets every byte; and a range is refused just when it names no byte.  *)
WindowsAreExact ==
    \A q \in Requests:
        LET a == answer[q]
            named == Named(asked[q].range, size)
        IN  /\ a.status = 206 =>
                 /\ a.first \in named /\ \A b \in named: a.first <= b
                 /\ Stretch(a) \subseteq named
                 /\ a.last - a.first < MaxRange /\ a.first <= a.last
                 /\ a.last + 1 \in named => a.last - a.first = MaxRange - 1
            /\ a.status = 416 => named = {}
            /\ asked[q].target = "media" /\ a.at = "body" /\ named = {} =>
                 a.status = 200 /\ size = 0
=============================================================================
