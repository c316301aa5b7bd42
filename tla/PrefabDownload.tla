---------------------------- MODULE PrefabDownload ----------------------------
(***************************************************************************)
(* PrefabCore.file_download and file_expand: a file is fetched with curl,  *)
(* resumed when a part of it is there, and remembered as complete by an    *)
(* empty file <name>.downloadok beside it; an archive is then unpacked,    *)
(* and the files of its top directory moved up.  Every command is a step   *)
(* that may fail, or be the last one of an agent that dies; an rm of       *)
(* dir_remove fails unnoticed.  Agents repeat their calls.                 *)
(***************************************************************************)
EXTENDS Naturals

CONSTANTS
    Agent,      \* the processes that download
    Url,
    Name,       \* the files on the target, and the directories unpacked into
    Nowhere,    \* the destination of a call that unpacks nothing
    Absent,     \* the URLs that the site may answer with an error page
    CallsOf,    \* agent -> the calls it may make
    Repeated,   \* the calls that an agent repeats until it has its file
    MaxFaults   \* bound on failing commands and crashes

(***************************************************************************)
(* A call: what it fetches, the file it fetches into, the directory it     *)
(* unpacks into, and whether it                                            *)
(*   overwrite  starts from nothing (the default),                         *)
(*   clear      empties the directory first (overwrite, with "to" given),  *)
(*   deletedest removes the file first,                                    *)
(*   guarded    takes a file below minsizekb for an error page (default),  *)
(*   flatten    moves the files of the top directory up (removeTopDir).    *)
(***************************************************************************)
CallRecord ==
    [url : Url, file : Name, dest : Name \cup {Nowhere}, overwrite : BOOLEAN, clear : BOOLEAN,
     deletedest : BOOLEAN, guarded : BOOLEAN, flatten : BOOLEAN]

ASSUME DownloadAssumption ==
    /\ CallsOf \in [Agent -> (SUBSET CallRecord) \ {{}}]
    /\ Nowhere \notin Name
    /\ MaxFaults \in Nat

Calls == UNION {CallsOf[a] : a \in Agent}

VARIABLES
    file,       \* what the file of a name holds
    marker,     \* the names with a .downloadok
    top, flat,  \* what a directory holds: in the archive's top directory, and
                \* of its files moved up
    pc, call,   \* agent -> the command it is at, its call
    resume,     \* agent -> it asks curl to continue a file (-C -)
    rc,         \* agent -> what curl returned
    uncleared,  \* the agents in a call that has not emptied its directory, though
                \* told to (nothing reads it: it is what dir_remove does not say)
    faults

target == <<file, marker, top, flat>>
local == <<pc, call, resume, rc, uncleared>>
vars == <<target, local, faults>>

\* Contents of a file.  A page is what a server sends for an unknown URL: it is
\* below minsizekb, every download above.
None == <<"none", "none">>
Page == <<"page", "none">>
Mixed == <<"mixed", "none">>
Part(u) == <<"part", u>>
Whole(u) == <<"whole", u>>
Content == {None, Page, Mixed} \cup {Part(u) : u \in Url} \cup {Whole(u) : u \in Url}

Label ==
    {"idle", "clear", "delete", "unlink", "unmark", "look", "resume", "drop", "curl", "again",
     "anew", "size", "judge", "touch", "tar", "find", "copy", "remove", "done"}

NoRc == 0
Cut == 7        \* curl was interrupted
NoRange == 33   \* the server does not continue

Init ==
    /\ file = [n \in Name |-> None]
    /\ marker = {}
    /\ top = [n \in Name |-> "none"]
    /\ flat = [n \in Name |-> "none"]
    /\ pc = [a \in Agent |-> "idle"]
    /\ call = [a \in Agent |-> CHOOSE c \in CallsOf[a] : TRUE]
    /\ resume = [a \in Agent |-> FALSE]
    /\ rc = [a \in Agent |-> NoRc]
    /\ uncleared = {}
    /\ faults = 0

-------------------------------------------------------------------------------
(* Steps. *)

Goto(a, label) == pc' = [pc EXCEPT ![a] = label]
InCall(a) == UNCHANGED <<call, uncleared, faults>>
Silent(a) == UNCHANGED <<resume, rc>> /\ InCall(a)
SetFile(n, x) == file' = [file EXCEPT ![n] = x]

Begin(a, c) ==
    /\ pc[a] = "idle"
    /\ call' = [call EXCEPT ![a] = c]
    /\ resume' = [resume EXCEPT ![a] = FALSE]
    /\ rc' = [rc EXCEPT ![a] = NoRc]
    /\ uncleared' = uncleared \ {a}
    /\ Goto(a, "clear")
    /\ UNCHANGED <<target, faults>>

\* The directory is emptied, if it is to be unpacked anew.
Clear(a) ==
    /\ pc[a] = "clear"
    /\ LET c == call[a] IN
         IF c.clear /\ c.dest # Nowhere
         THEN /\ top' = [top EXCEPT ![c.dest] = "none"]
              /\ flat' = [flat EXCEPT ![c.dest] = "none"]
         ELSE UNCHANGED <<top, flat>>
    /\ Goto(a, "delete")
    /\ UNCHANGED <<file, marker>> /\ Silent(a)

\* deletedest takes the file away and leaves its marker.
Delete(a) ==
    /\ pc[a] = "delete"
    /\ IF call[a].deletedest THEN SetFile(call[a].file, None) ELSE UNCHANGED file
    /\ Goto(a, "unlink")
    /\ UNCHANGED <<marker, top, flat>> /\ Silent(a)

UnlinkAlways(a) ==          \* mutated: whether it is to be overwritten or not
    /\ pc[a] = "unlink"
    /\ SetFile(call[a].file, None)
    /\ Goto(a, "unmark")
    /\ UNCHANGED <<marker, top, flat>> /\ Silent(a)
Unlink(a) ==
    /\ pc[a] = "unlink"
    /\ LET c == call[a] IN
         IF c.overwrite /\ file[c.file] # None
         THEN SetFile(c.file, None) /\ Goto(a, "unmark")
         ELSE UNCHANGED file /\ Goto(a, "look")
    /\ UNCHANGED <<marker, top, flat>> /\ Silent(a)

Unmark(a) ==
    /\ pc[a] = "unmark"
    /\ marker' = marker \ {call[a].file}
    /\ Goto(a, "look")
    /\ UNCHANGED <<file, top, flat>> /\ Silent(a)

\* Nothing is fetched when the file and its marker are there.
LookForFile(a) ==           \* mutated: a file without a marker will do
    /\ pc[a] = "look"
    /\ IF file[call[a].file] # None THEN Goto(a, "tar") ELSE Goto(a, "resume")
    /\ UNCHANGED target /\ Silent(a)
LookForNothing(a) ==        \* mutated: it is fetched again
    /\ pc[a] = "look"
    /\ Goto(a, "resume")
    /\ UNCHANGED target /\ Silent(a)
Look(a) ==
    /\ pc[a] = "look"
    /\ LET n == call[a].file IN
         IF file[n] # None /\ n \in marker THEN Goto(a, "tar") ELSE Goto(a, "resume")
    /\ UNCHANGED target /\ Silent(a)

\* A file that is there, without a marker, is continued.
Resume(a) ==
    /\ pc[a] = "resume"
    /\ resume' = [resume EXCEPT ![a] = file[call[a].file] # None]
    /\ Goto(a, "drop")
    /\ UNCHANGED <<target, rc>> /\ InCall(a)

DropNothing(a) ==           \* mutated: the marker stays
    /\ pc[a] = "drop"
    /\ Goto(a, "curl")
    /\ UNCHANGED target /\ Silent(a)
Drop(a) ==
    /\ pc[a] = "drop"
    /\ marker' = marker \ {call[a].file}
    /\ Goto(a, "curl")
    /\ UNCHANGED <<file, top, flat>> /\ Silent(a)

-------------------------------------------------------------------------------
(* curl writes what the server sends.  (It is run without -f: an error page  *)
(* is a success.)                                                            *)

Answered(a, n, x, code, label) ==
    /\ SetFile(n, x)
    /\ rc' = [rc EXCEPT ![a] = code]
    /\ Goto(a, label)
    /\ UNCHANGED <<marker, top, flat, resume, call, uncleared>>

\* From the start: the file, or a page.
Fetch(a, label) ==
    LET c == call[a] IN
      \/ Answered(a, c.file, Whole(c.url), 0, label)
      \/ c.url \in Absent /\ Answered(a, c.file, Page, 0, label)

\* From where the file ends: a part of the same file becomes whole, at the end
\* of a whole one there is nothing to send, and the rest of the file behind
\* anything else is neither.
Continued(x, u) == IF x \in {Part(u), Whole(u)} THEN Whole(u) ELSE Mixed
Continue(a) ==
    LET c == call[a] IN
      \/ Answered(a, c.file, Continued(file[c.file], c.url), 0, "size")
      \/ Answered(a, c.file, file[c.file], NoRange, "again")

\* The connection breaks: what has come so far, if anything, stays.
Begun(x, u) ==
    IF x \in {None, Part(u)} THEN Part(u) ELSE IF x = Whole(u) THEN x ELSE Mixed
Broken(a, label) ==
    /\ faults < MaxFaults
    /\ faults' = faults + 1
    /\ LET c == call[a] IN
         \E x \in {file[c.file], Begun(file[c.file], c.url)} :
           Answered(a, c.file, x, Cut, label)

Curl(a) ==
    /\ pc[a] = "curl"
    /\ \/ /\ IF resume[a] /\ file[call[a].file] # None THEN Continue(a) ELSE Fetch(a, "size")
          /\ UNCHANGED faults
       \/ Broken(a, "size")

\* rc 33: the file is taken away and fetched from the start.
AgainAlike(a) ==            \* mutated: it is left there, and the rc kept
    /\ pc[a] = "again"
    /\ Goto(a, "size")
    /\ UNCHANGED target /\ Silent(a)
Again(a) ==
    /\ pc[a] = "again"
    /\ SetFile(call[a].file, None)
    /\ Goto(a, "anew")
    /\ UNCHANGED <<marker, top, flat>> /\ Silent(a)
Anew(a) ==
    /\ pc[a] = "anew"
    /\ \/ Fetch(a, "size") /\ UNCHANGED faults
       \/ Broken(a, "size")

\* An exception ends the call.
Raise(a) == Goto(a, "idle")

\* du fails without a file; a page is too small; a part may be.
Size(a) ==
    /\ pc[a] = "size"
    /\ LET c == call[a]
           x == file[c.file]
       IN \/ /\ x = None \/ (c.guarded /\ x \in {Page, Part(c.url)})
             /\ Raise(a)
          \/ x # None /\ ~(c.guarded /\ x = Page) /\ Goto(a, "judge")
    /\ UNCHANGED target /\ Silent(a)

JudgeNot(a) ==              \* mutated: the rc is not looked at
    /\ pc[a] = "judge"
    /\ Goto(a, "touch")
    /\ UNCHANGED target /\ Silent(a)
Judge(a) ==
    /\ pc[a] = "judge"
    /\ IF rc[a] > 0 THEN Raise(a) ELSE Goto(a, "touch")
    /\ UNCHANGED target /\ Silent(a)

Touch(a) ==
    /\ pc[a] = "touch"
    /\ marker' = marker \cup {call[a].file}
    /\ Goto(a, "tar")
    /\ UNCHANGED <<file, top, flat>> /\ Silent(a)

-------------------------------------------------------------------------------
(* file_expand, for the archives that tar unpacks. *)

\* tar writes over what is there; of anything but a whole archive it unpacks
\* what it can and fails.
Tar(a) ==
    /\ pc[a] = "tar"
    /\ LET c == call[a]
           archive == file[c.file] \in {Whole(u) : u \in Url}
       IN \/ c.dest = Nowhere /\ UNCHANGED top /\ Goto(a, "done")
          \/ /\ c.dest # Nowhere
             /\ top' = [top EXCEPT ![c.dest] = IF archive THEN "whole" ELSE "torn"]
             /\ Goto(a, IF ~archive THEN "idle" ELSE IF c.flatten THEN "find" ELSE "done")
    /\ UNCHANGED <<file, marker, flat>> /\ Silent(a)

\* removeTopDir: only when the directory has one directory.  (The archives have
\* directories below the top one, which count once they are moved up, all or some.)
Find(a) ==
    /\ pc[a] = "find"
    /\ \/ flat[call[a].dest] # "whole" /\ Goto(a, "copy")
       \/ flat[call[a].dest] # "none" /\ Goto(a, "done")
    /\ UNCHANGED target /\ Silent(a)
Copy(a) ==
    /\ pc[a] = "copy"
    /\ flat' = [flat EXCEPT ![call[a].dest] = top[call[a].dest]]
    /\ Goto(a, "remove")
    /\ UNCHANGED <<file, marker, top>> /\ Silent(a)
Remove(a) ==
    /\ pc[a] = "remove"
    /\ top' = [top EXCEPT ![call[a].dest] = "none"]
    /\ Goto(a, "done")
    /\ UNCHANGED <<file, marker, flat>> /\ Silent(a)

Done(a) ==
    /\ pc[a] = "done"
    /\ Goto(a, "idle")
    /\ UNCHANGED target /\ Silent(a)

-------------------------------------------------------------------------------
(* Failures.                                                                 *)

\* What an rm that fails, or is cut off, may leave of a directory.
Rest(x) == IF x = "none" THEN {x} ELSE {x, "torn", "none"}
RestOf(d) == {[top |-> t, flat |-> f] : t \in Rest(top[d]), f \in Rest(flat[d])}
Emptied(a) == call[a].clear /\ call[a].dest # Nowhere

\* A command fails, or the agent dies, or both: the call is over.  tar, copy and rm
\* may have done a part of their work.
Fail(a) ==
    /\ pc[a] # "idle"
    /\ faults < MaxFaults
    /\ faults' = faults + 1
    /\ Raise(a)
    /\ LET d == call[a].dest IN
         \/ UNCHANGED <<top, flat>>
         \/ /\ pc[a] = "clear" /\ Emptied(a)
            /\ \E left \in RestOf(d) :
                 /\ top' = [top EXCEPT ![d] = left.top]
                 /\ flat' = [flat EXCEPT ![d] = left.flat]
         \/ /\ (pc[a] = "tar" /\ d # Nowhere) \/ pc[a] = "remove"
            /\ top' = [top EXCEPT ![d] = "torn"]
            /\ UNCHANGED flat
         \/ /\ pc[a] = "copy"
            /\ flat' = [flat EXCEPT ![d] = "torn"]
            /\ UNCHANGED top
    /\ UNCHANGED <<file, marker, call, resume, rc, uncleared>>

\* dir_remove (rm ... && echo **OK** ; true) takes no notice when rm fails, and nobody
\* looks at what it has printed: the call goes on, with the directory or the file.
Swallow(a, label) ==
    /\ faults < MaxFaults
    /\ faults' = faults + 1
    /\ Goto(a, label)
    /\ UNCHANGED <<file, marker, call, resume, rc>>

ClearFails(a) ==
    /\ pc[a] = "clear" /\ Emptied(a)
    /\ Swallow(a, "delete")
    /\ \E left \in RestOf(call[a].dest) :
         /\ top' = [top EXCEPT ![call[a].dest] = left.top]
         /\ flat' = [flat EXCEPT ![call[a].dest] = left.flat]
    /\ uncleared' = uncleared \cup {a}
DeleteFails(a) ==
    /\ pc[a] = "delete" /\ call[a].deletedest
    /\ Swallow(a, "unlink")
    /\ UNCHANGED <<top, flat, uncleared>>
RemoveFails(a) ==
    /\ pc[a] = "remove"
    /\ Swallow(a, "done")
    /\ top' \in {top, [top EXCEPT ![call[a].dest] = "torn"]}
    /\ UNCHANGED <<flat, uncleared>>

Unnoticed(a) == ClearFails(a) \/ DeleteFails(a) \/ RemoveFails(a)

Step(a) ==
    \/ Clear(a) \/ Delete(a) \/ Unlink(a) \/ Unmark(a) \/ Look(a) \/ Resume(a) \/ Drop(a)
    \/ Curl(a) \/ Again(a) \/ Anew(a) \/ Size(a) \/ Judge(a) \/ Touch(a)
    \/ Tar(a) \/ Find(a) \/ Copy(a) \/ Remove(a) \/ Done(a)

Next ==
    \E a \in Agent :
      \/ \E c \in CallsOf[a] : Begin(a, c)
      \/ Step(a)
      \/ Fail(a) \/ Unnoticed(a)

Spec == Init /\ [][Next]_vars

\* Commands come to an end, and whoever wants a file asks for it again.
LiveSpec ==
    /\ Spec
    /\ \A a \in Agent : WF_vars(Step(a))
    /\ \A a \in Agent : \A c \in CallsOf[a] \cap Repeated : SF_vars(Begin(a, c))

-------------------------------------------------------------------------------
(* Properties. *)

\* An agent to which curl has reported a failure is on its way out of the call.
TypeOK ==
    /\ \A a \in Agent : rc[a] # NoRc => pc[a] \in {"again", "anew", "size", "judge", "idle"}
    /\ file \in [Name -> Content]
    /\ marker \subseteq Name
    /\ top \in [Name -> {"none", "torn", "whole"}]
    /\ flat \in [Name -> {"none", "torn", "whole"}]
    /\ pc \in [Agent -> Label]
    /\ call \in [Agent -> Calls]
    /\ \A a \in Agent : call[a] \in CallsOf[a]
    /\ resume \in [Agent -> BOOLEAN]
    /\ rc \in [Agent -> {NoRc, Cut, NoRange}]
    /\ uncleared \subseteq Agent
    /\ faults \in 0..MaxFaults

\* What the properties take for granted: no two agents share a file or a
\* directory, and a file is always fetched from the same place.
Apart ==
    \A a, b \in Agent : \A c \in CallsOf[a], d \in CallsOf[b] :
      /\ c.file = d.file => a = b /\ c.url = d.url
      /\ c.dest = d.dest /\ c.dest # Nowhere => a = b
\* And a URL that may not be there is only fetched from the start, by calls that
\* look at the size.  (deletedest is no start: its rm may fail unnoticed.)
Wary(c) == c.url \in Absent => c.guarded /\ c.overwrite

\* A file with a marker is the whole file: however often a download was
\* interrupted, resumed, refused, or repeated with other arguments, what
\* file_download takes for complete is complete.
MarkedIsWhole ==
    \A c \in Calls :
      c.file \in marker => file[c.file] \in {None, Whole(c.url)}

\* A file that is complete is not touched by calls that neither overwrite nor
\* delete it: their work is not done twice.
WholeIsKept ==
    [][\A n \in marker :
         file[n] # None /\ ~(n \in marker' /\ file'[n] = file[n])
           => \E a \in Agent : /\ call[a].file = n
                               /\ call[a].overwrite \/ call[a].deletedest]_vars

\* A call that returns has its file, or the whole archive where it was to be unpacked:
\* in its top directory or, when the call flattens, moved up.  Moved up for sure only in
\* a directory that was empty: when the call has not emptied it, or has failed to without
\* a notice, the files of the archive may stand below their top directory, beside
\* what an earlier call or the rm has left.
Delivered(a) ==
    LET c == call[a]
        movedUp == flat[c.dest] = "whole"
    IN  IF c.dest = Nowhere THEN file[c.file] = Whole(c.url)
        ELSE /\ top[c.dest] = "whole" \/ (c.flatten /\ movedUp)
             /\ c.flatten /\ c.clear /\ a \notin uncleared => movedUp
ReturnIsWhole == \A a \in Agent : pc[a] = "done" => Delivered(a)

\* A call raises of itself (lines 396 to 401, 459) only when curl was interrupted in
\* this very call, or the site may not have the file: whatever earlier calls have left,
\* a part, a whole file without its marker, a marker without its file, a half-unpacked
\* archive or a file that the server does not continue, it gets over it.
Raises(a) == Step(a) /\ pc[a] # "done" /\ pc'[a] = "idle"
RaisesForCause ==
    [][\A a \in Agent : Raises(a) => rc[a] = Cut \/ call[a].url \in Absent]_vars

\* file_download as its callers see it: PrefabStore, where a file is complete when it
\* is all that its URL has, and trusted when it is there with its marker (line 368).
Complete == {n \in Name : \E c \in Calls : c.file = n /\ file[n] = Whole(c.url)}
Trusted == {n \in marker : file[n] # None}
Shown(label) == IF label = "idle" THEN "idle" ELSE IF label = "done" THEN "given" ELSE "busy"
State == [a \in Agent |-> Shown(pc[a])]
Store == INSTANCE PrefabStore WITH complete <- Complete, trusted <- Trusted, state <- State
StoreSpec == Store!Spec

\* However the attempts before were interrupted, a call that is repeated comes
\* back with its file, once commands do not fail any more.
Fetched ==
    \A a \in Agent : \A c \in CallsOf[a] \cap Repeated :
      c.url \notin Absent => []<>(pc[a] = "done" /\ call[a] = c)
===============================================================================
