---------------------------- MODULE PostCopies ----------------------------
(***************************************************************************)
(* The copies of one post of the author: the versions the server took, the *)
(* one it publishes, the file "<sig>.ansiwave" this program keeps of what  *)
(* it sent last, and the one the open page shows.                          *)
(*                                                                         *)
(* The server takes its time to publish ("They may take some time to appear*)
(* on the board"), so post.getFromLocalOrRemote chooses between the file   *)
(* and the answer by the time each was signed.  The post may be edited from*)
(* another computer too.                                                   *)
(***************************************************************************)
EXTENDS Integers

CONSTANTS
    Week,       \* deleteFromStorageSeconds
    MaxTime     \* bound on the clock

ASSUME WeekAssumption == Week \in Nat \ {0}
ASSUME MaxTimeAssumption == MaxTime \in Nat

Time    == 0..MaxTime
Version == [time: Time, from: {"here", "there"}]

(* A parsed copy.  One that was cut short keeps the headers, and its time, *)
(* but lost the end of its content.                                        *)
Copy  == [kind: {"copy"}, version: Version, whole: BOOLEAN]
Error == [kind |-> "error"]

Whole(v) == [kind |-> "copy", version |-> v, whole |-> TRUE]
Cut(v)   == [kind |-> "copy", version |-> v, whole |-> FALSE]

(* A file or a body is missing, or cannot be parsed, or is a copy.         *)
Missing == [kind |-> "missing"]
Junk    == [kind |-> "junk"]
File    == Copy \cup {Missing, Junk}

VARIABLES
    now,        \* the clock, in steps of the signing times
    pending,    \* the versions signed here and not yet answered, at most one
    accepted,   \* the versions the server took
    published,  \* the file the server serves, Missing at first
    local,      \* storage: "<sig>.ansiwave"
    channel,    \* postContent: "none", "sent" or "answered"
    body,       \* and the answer: a file, Missing for an error
    view,       \* what the page shows and keeps: nothing, Error or a copy
    filed       \* history: the version filed last, if no write failed since

vars == <<now, pending, accepted, published, local, channel, body, view, filed>>

TypeOK ==
    /\ now \in Time
    /\ pending \subseteq Version
    /\ accepted \subseteq Version
    /\ published \in File
    /\ local \in File
    /\ channel \in {"none", "sent", "answered"}
    /\ body \in File
    /\ view \in Copy \cup {Missing, Error}
    /\ filed \subseteq Version

Init ==
    /\ now = 0
    /\ pending = {} /\ accepted = {} /\ published = Missing
    /\ local = Missing
    /\ channel = "none" /\ body = Missing /\ view = Missing
    /\ filed = {}

-----------------------------------------------------------------------------
(* parseAnsiwave                                                           *)
Parse(file) == IF file \in Copy THEN file ELSE Error

(* mutant: the copy from the server is always preferred                    *)
RemoteFirst(file, answer) ==
    IF Parse(answer) # Error THEN Parse(answer) ELSE Parse(file)

(* mutant: the file is forgotten                                           *)
RemoteOnly(file, answer) == Parse(answer)

(* mutant: of two copies signed at the same time the file is used          *)
LocalOnTie(file, answer) ==
    LET l == Parse(file)
        r == Parse(answer)
    IN  IF l # Error /\ (r = Error \/ l.version.time >= r.version.time)
        THEN l ELSE r

(* Of two copies the one signed later, the server's on a tie; else the one *)
(* there is.                                                               *)
GetFromLocalOrRemote(file, answer) ==
    LET l == Parse(file)
        r == Parse(answer)
    IN  IF l # Error /\ (r = Error \/ l.version.time > r.version.time)
        THEN l ELSE r

(* A page opened anew: its channel asks again, nothing is shown.           *)
Open ==
    /\ channel' = "sent" /\ body' = Missing /\ view' = Missing

Close ==
    /\ channel' = "none" /\ body' = Missing /\ view' = Missing

(* show-post, and refresh.                                                 *)
OpenPage ==
    /\ Open
    /\ UNCHANGED <<now, pending, accepted, published, local, filed>>

(* The server answers with the file it has by now, with an error, or with  *)
(* something that is no post.                                              *)
Answer ==
    /\ channel = "sent" /\ channel' = "answered"
    /\ body' \in {published, Missing, Junk}
    /\ UNCHANGED <<now, pending, accepted, published, local, view, filed>>

(* The tick that finds the page complete and caches its view.              *)
ShowPage ==
    /\ channel = "answered" /\ view = Missing
    /\ view' = GetFromLocalOrRemote(local, body)
    /\ UNCHANGED <<now, pending, accepted, published, local, channel, body, filed>>

(* The editor signs a text and sends it.                                   *)
Sign ==
    /\ pending = {}
    /\ pending' = {[time |-> now, from |-> "here"]}
    /\ UNCHANGED <<now, accepted, published, local, channel, body, view, filed>>

EditElsewhere ==
    /\ accepted' = accepted \cup {[time |-> now, from |-> "there"]}
    /\ UNCHANGED <<now, pending, published, local, channel, body, view, filed>>

Accept(v) ==
    /\ v \in pending
    /\ accepted' = accepted \cup {v}
    /\ UNCHANGED <<now, pending, published, local, channel, body, view, filed>>

(* The server publishes a version it took, never an older one than before. *)
Publish(v) ==
    /\ v \in accepted
    /\ published \in Copy => v.time >= published.version.time
    /\ published' = Whole(v)
    /\ UNCHANGED <<now, pending, accepted, local, channel, body, view, filed>>

(* bbs.tick on a valid answer.  If the file cannot be written, which may   *)
(* leave a part of it, the page is not opened.                             *)
Deliver(v) ==
    /\ v \in pending \cap accepted
    /\ pending' = {}
    /\ \/ local' = Whole(v) /\ filed' = {v} /\ Open
       \/ /\ local' \in {local, Junk, Cut(v)} /\ filed' = {}
          /\ UNCHANGED <<channel, body, view>>
    /\ UNCHANGED <<now, accepted, published>>

Elapse ==
    /\ now < MaxTime
    /\ now' = now + 1
    /\ UNCHANGED <<pending, accepted, published, local, channel, body, view, filed>>

(* The program ends, the write of a delivered post perhaps half done ...   *)
Crash ==
    /\ \/ UNCHANGED <<local, filed>>
       \/ /\ \E v \in pending \cap accepted : local' \in {Junk, Cut(v)}
          /\ filed' = {}
    /\ pending' = {}
    /\ Close
    /\ UNCHANGED <<now, accepted, published>>

(* mutant: files are removed that are not yet a week old                   *)
RestartEager ==
    /\ channel = "none" /\ pending = {}
    /\ local \in Copy
    /\ local' = Missing
    /\ UNCHANGED <<now, pending, accepted, published, channel, body, view, filed>>

(* ... and starts again: init removes what was sent a week ago.            *)
Restart ==
    /\ channel = "none" /\ pending = {}
    /\ local \in Copy /\ now - Week >= local.version.time
    /\ local' = Missing
    /\ UNCHANGED <<now, pending, accepted, published, channel, body, view, filed>>

Next ==
    \/ OpenPage
    \/ Answer
    \/ ShowPage
    \/ Sign
    \/ EditElsewhere
    \/ \E v \in pending : Accept(v)
    \/ \E v \in accepted : Publish(v)
    \/ \E v \in pending : Deliver(v)
    \/ Elapse
    \/ Crash
    \/ Restart

Spec == Init /\ [][Next]_vars

-----------------------------------------------------------------------------
(* The author never sees a text older than the whole copy on disk of what  *)
(* was sent last, nor one older than the server answered with, however the *)
(* two were published, refreshed, edited elsewhere or reopened meanwhile.  *)
NeverOlder ==
    view \in Copy =>
        /\ local \in Copy /\ local.whole =>
              view.version.time >= local.version.time
        /\ body \in Copy => view.version.time >= body.version.time

(* A page shows something as long as there is anything to show.            *)
ShowsWhatThereIs ==
    view = Error => body \notin Copy /\ ~(local \in Copy /\ local.whole)

(* A copy cut short by a failed write is shown only until the server       *)
(* answers with that version: on a tie its copy is taken.                  *)
CutHeals ==
    view \in Copy /\ ~view.whole /\ body \in Copy =>
        body.version.time < view.version.time

(* What a page shows was taken by the server.                              *)
ShownWasAccepted == view \in Copy => view.version \in accepted

(* What was sent and filed here is never followed by an older text, or by  *)
(* none, on any page opened within a week, restarts included.              *)
ReadYourWrites ==
    \A v \in filed :
        view # Missing /\ now < v.time + Week =>
            view \in Copy /\ view.version.time >= v.time
=============================================================================
