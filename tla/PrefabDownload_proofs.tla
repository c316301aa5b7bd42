------------------------ MODULE PrefabDownload_proofs ------------------------
(***************************************************************************)
(* Theorems about PrefabDownload: for any agents, files, calls and number  *)
(* of failures, provided that no two agents share a file or a directory    *)
(* and that files that may not be there are fetched with care (Apart,      *)
(* Wary), what file_download takes for complete is complete, stays so and  *)
(* is what it returns; a call gets over what earlier ones have left; and   *)
(* file_download implements PrefabStore.                                   *)
(***************************************************************************)
EXTENDS PrefabDownload, TLAPS

AllWary == \A c \in Calls : Wary(c)

-------------------------------------------------------------------------------
(* The invariant.  A file holds nothing, a part of the one file that is ever *)
(* fetched into it, all of it, or a page in its place; and where an agent is *)
(* in file_download says which.                                              *)

Fits(c) ==
    /\ file[c.file] \in {None, Page, Part(c.url), Whole(c.url)}
    /\ file[c.file] = Page => c.url \in Absent
    /\ c.file \in marker => file[c.file] \in {None, Whole(c.url)}

\* Before curl runs.
Before(a) ==
    LET c == call[a] IN
      /\ pc[a] = "unmark" => file[c.file] = None
      /\ pc[a] \in {"look", "resume", "drop", "curl"} /\ c.url \in Absent => file[c.file] = None
      /\ pc[a] \in {"resume", "drop"} => file[c.file] = None \/ c.file \notin marker
\* While it runs and after.
After(a) ==
    LET c == call[a] IN
      /\ pc[a] \in {"curl", "again", "anew", "size", "judge"} => c.file \notin marker
      /\ pc[a] = "anew" => file[c.file] = None
      /\ pc[a] = "size" /\ rc[a] = NoRc => file[c.file] \in {Page, Whole(c.url)}
      /\ pc[a] = "judge" /\ rc[a] = NoRc => file[c.file] = Whole(c.url)
      /\ pc[a] \in {"touch", "tar", "find", "copy", "remove", "done"}
           => file[c.file] = Whole(c.url)
\* The directory.
Unpacks(a) ==
    LET c == call[a] IN
      /\ pc[a] \in {"find", "copy", "remove"} => c.dest # Nowhere /\ c.flatten
      /\ pc[a] \in {"find", "copy"} => top[c.dest] = "whole"
      /\ c.clear /\ c.dest # Nowhere /\ a \notin uncleared
         /\ pc[a] \notin {"idle", "clear", "copy", "remove", "done"}
           => flat[c.dest] = "none"
      /\ pc[a] = "remove" => flat[c.dest] = "whole"
      /\ pc[a] = "done" => Delivered(a)

Sound(a) == Before(a) /\ After(a) /\ Unpacks(a)

IInv ==
    /\ TypeOK
    /\ \A c \in Calls : Fits(c)
    /\ \A a \in Agent : Sound(a)

-------------------------------------------------------------------------------
(* The contents of a file can be told apart. *)

LEMMA Contents ==
    ASSUME NEW u, NEW v
    PROVE  /\ None # Page /\ None # Part(u) /\ None # Whole(u)
           /\ Page # Part(u) /\ Page # Whole(u)
           /\ Part(u) # Whole(v)
           /\ Mixed \notin {None, Page, Part(u), Whole(u)}
  BY DEF None, Page, Mixed, Part, Whole

LEMMA CallFields ==
    ASSUME NEW a \in Agent, NEW c \in CallsOf[a]
    PROVE  /\ c \in Calls
           /\ c \in CallRecord
           /\ c.url \in Url /\ c.file \in Name /\ c.dest \in Name \cup {Nowhere}
           /\ c.clear \in BOOLEAN /\ c.guarded \in BOOLEAN /\ c.flatten \in BOOLEAN
           /\ c.overwrite \in BOOLEAN /\ c.deletedest \in BOOLEAN
  BY DownloadAssumption DEF Calls, CallRecord

-------------------------------------------------------------------------------
(* A step of an agent stays within its own file, directory and variables. *)

Confined(a) ==
    /\ \A b \in Agent \ {a} :
         /\ pc'[b] = pc[b] /\ call'[b] = call[b] /\ rc'[b] = rc[b]
         /\ b \in uncleared' <=> b \in uncleared
    /\ \A n \in Name \ {call[a].file} :
         file'[n] = file[n] /\ (n \in marker' <=> n \in marker)
    /\ \A d \in Name \ {call[a].dest} : top'[d] = top[d] /\ flat'[d] = flat[d]

Acts(a) == (\E c \in CallsOf[a] : Begin(a, c)) \/ Step(a) \/ Fail(a) \/ Unnoticed(a)

LEMMA Confinement ==
    ASSUME NEW a \in Agent, TypeOK, Acts(a)
    PROVE  Confined(a)
<1> USE DEF Confined, TypeOK
<1>1. ASSUME NEW c \in CallsOf[a], Begin(a, c) PROVE Confined(a)
  BY <1>1 DEF Begin, Goto, target
<1>2. ASSUME Clear(a) \/ Delete(a) \/ Unlink(a) \/ Unmark(a) PROVE Confined(a)
  BY <1>2 DEF Clear, Delete, Unlink, Unmark, Goto, Silent, InCall, SetFile
<1>3. ASSUME Look(a) \/ Resume(a) \/ Drop(a) PROVE Confined(a)
  BY <1>3 DEF Look, Resume, Drop, Goto, Silent, InCall, target
<1>4. ASSUME NEW x, NEW code, NEW label, Answered(a, call[a].file, x, code, label)
      PROVE  Confined(a)
  BY <1>4 DEF Answered, SetFile, Goto
<1>5. ASSUME Curl(a) \/ Anew(a) PROVE Confined(a)
  BY <1>4, <1>5 DEF Curl, Anew, Fetch, Continue, Broken
<1>6. ASSUME Again(a) \/ Size(a) \/ Judge(a) \/ Touch(a) PROVE Confined(a)
  BY <1>6 DEF Again, Size, Judge, Touch, Goto, Raise, Silent, InCall, SetFile, target
<1>7. ASSUME Tar(a) \/ Find(a) \/ Copy(a) \/ Remove(a) \/ Done(a) PROVE Confined(a)
  BY <1>7 DEF Tar, Find, Copy, Remove, Done, Goto, Raise, Silent, InCall, target
<1>8. ASSUME Fail(a) PROVE Confined(a)
  BY <1>8 DEF Fail, Goto, Raise
<1>9. ASSUME Unnoticed(a) PROVE Confined(a)
  BY <1>9 DEF Unnoticed, ClearFails, DeleteFails, RemoveFails, Swallow, Goto
<1>10. QED
  BY <1>1, <1>2, <1>3, <1>5, <1>6, <1>7, <1>8, <1>9 DEF Acts, Step

-------------------------------------------------------------------------------
(* Hence it disturbs no other agent, and the files of no other call. *)

LEMMA OthersStaySound ==
    ASSUME Apart, TypeOK, NEW a \in Agent, Confined(a),
           NEW b \in Agent \ {a}, Sound(b)
    PROVE  Sound(b)'
<1>1. call[b] \in CallsOf[b] /\ call[a] \in CallsOf[a]
  BY DEF TypeOK
<1>2. call[b].file # call[a].file
  BY <1>1 DEF Apart
<1>3. call[b].dest # Nowhere => call[b].dest # call[a].dest
  BY <1>1 DEF Apart
<1>4. /\ pc'[b] = pc[b] /\ call'[b] = call[b] /\ rc'[b] = rc[b]
      /\ b \in uncleared' <=> b \in uncleared
      /\ file'[call[b].file] = file[call[b].file]
      /\ call[b].file \in marker' <=> call[b].file \in marker
  BY <1>1, <1>2, CallFields DEF Confined
<1>5. call[b].dest # Nowhere =>
        top'[call[b].dest] = top[call[b].dest] /\ flat'[call[b].dest] = flat[call[b].dest]
  BY <1>1, <1>3, CallFields DEF Confined
<1>6. Before(b)'
  BY <1>4 DEF Sound, Before
<1>7. After(b)'
  BY <1>4 DEF Sound, After
<1>8. Unpacks(b)'
  BY <1>4, <1>5 DEF Sound, Unpacks, Delivered
<1>9. QED
  BY <1>6, <1>7, <1>8 DEF Sound

LEMMA OthersStayFit ==
    ASSUME Apart, TypeOK, NEW a \in Agent, Confined(a), NEW x, x = call[a], Fits(x)',
           \A c \in Calls : Fits(c)
    PROVE  \A c \in Calls : Fits(c)'
<1> SUFFICES ASSUME NEW b \in Agent, NEW c \in CallsOf[b] PROVE Fits(c)'
  BY DEF Calls
<1>1. x \in CallsOf[a] /\ c \in Calls
  BY CallFields DEF TypeOK
<1>2. CASE c.file = x.file
  <2>1. c.url = x.url
    BY <1>1, <1>2 DEF Apart
  <2>2. QED
    BY <1>2, <2>1 DEF Fits
<1>3. CASE c.file # x.file
  <2>1. file'[c.file] = file[c.file] /\ (c.file \in marker' <=> c.file \in marker)
    BY <1>3, CallFields DEF Confined
  <2>2. QED
    BY <1>1, <2>1 DEF Fits
<1>4. QED
  BY <1>2, <1>3

-------------------------------------------------------------------------------
(* The types. *)

LEMMA AnswerTypes ==
    ASSUME TypeOK, NEW a \in Agent, NEW x \in Content, NEW code \in {NoRc, Cut, NoRange},
           NEW label \in Label, Answered(a, call[a].file, x, code, label)
    PROVE  /\ file' \in [Name -> Content]
           /\ rc' \in [Agent -> {NoRc, Cut, NoRange}]
           /\ pc' \in [Agent -> Label]
           /\ pc'[a] = label
           /\ \A b \in Agent \ {a} : pc'[b] = pc[b] /\ rc'[b] = rc[b]
           /\ UNCHANGED <<marker, top, flat, resume, call, uncleared>>
  BY DEF TypeOK, Answered, SetFile, Goto

LEMMA TypeStep ==
    ASSUME TypeOK, NEW a \in Agent, Acts(a)
    PROVE  TypeOK'
<1>1. /\ call[a] \in CallsOf[a] /\ pc[a] \in Label /\ faults \in Nat /\ MaxFaults \in Nat
  BY DownloadAssumption DEF TypeOK
<1>2. /\ call[a].url \in Url /\ call[a].file \in Name
      /\ None \in Content /\ Page \in Content /\ Mixed \in Content
      /\ Part(call[a].url) \in Content /\ Whole(call[a].url) \in Content
      /\ file[call[a].file] \in Content
  BY <1>1, CallFields DEF TypeOK, Content
<1>3. {"idle", "clear", "delete", "unlink", "unmark", "look", "resume", "drop", "curl", "again",
       "anew", "size", "judge", "touch", "tar", "find", "copy", "remove", "done"} \subseteq Label
  BY DEF Label
<1> USE DEF TypeOK
<1>4. ASSUME NEW c \in CallsOf[a], Begin(a, c) PROVE TypeOK'
  BY <1>3, <1>4, CallFields DEF Begin, Goto, target, NoRc
<1>5. ASSUME Clear(a) \/ Delete(a) \/ Unlink(a) \/ Unmark(a) PROVE TypeOK'
  BY <1>2, <1>3, <1>5 DEF Clear, Delete, Unlink, Unmark, Goto, Silent, InCall, SetFile
<1>6. ASSUME Look(a) \/ Resume(a) \/ Drop(a) PROVE TypeOK'
  BY <1>3, <1>6 DEF Look, Resume, Drop, Goto, Silent, InCall, target
<1>7. ASSUME NEW x \in Content, NEW code \in {NoRc, Cut, NoRange},
             NEW label \in {"again", "size"}, Answered(a, call[a].file, x, code, label),
             faults' = faults \/ (faults < MaxFaults /\ faults' = faults + 1)
      PROVE  TypeOK'
  BY <1>1, <1>3, <1>7, AnswerTypes
<1>8. Continued(file[call[a].file], call[a].url) \in Content
      /\ Begun(file[call[a].file], call[a].url) \in Content
  BY <1>2 DEF Continued, Begun
<1>9. ASSUME Curl(a) \/ Anew(a) PROVE TypeOK'
  BY <1>2, <1>3, <1>7, <1>8, <1>9 DEF Curl, Anew, Fetch, Continue, Broken, NoRc, Cut, NoRange
<1>10. ASSUME Again(a) \/ Size(a) \/ Judge(a) \/ Touch(a) PROVE TypeOK'
  BY <1>2, <1>3, <1>10
  DEF Again, Size, Judge, Touch, Goto, Raise, Silent, InCall, SetFile, target, NoRc, Cut, NoRange
<1>11. ASSUME Tar(a) \/ Find(a) \/ Copy(a) \/ Remove(a) \/ Done(a) PROVE TypeOK'
  BY <1>3, <1>11 DEF Tar, Find, Copy, Remove, Done, Goto, Raise, Silent, InCall, target
<1>12. \A d : d \in Name =>
         \A left \in RestOf(d) : left.top \in {"none", "torn", "whole"}
                                /\ left.flat \in {"none", "torn", "whole"}
  BY DEF RestOf, Rest
<1>13. call[a].dest \in Name \cup {Nowhere}
  BY <1>1, CallFields
<1>14. ASSUME Fail(a) PROVE TypeOK'
  <2>1. \/ UNCHANGED <<top, flat>>
        \/ /\ call[a].dest \in Name
           /\ \E left \in RestOf(call[a].dest) :
                /\ top' = [top EXCEPT ![call[a].dest] = left.top]
                /\ flat' = [flat EXCEPT ![call[a].dest] = left.flat]
        \/ top' = [top EXCEPT ![call[a].dest] = "torn"] /\ UNCHANGED flat
        \/ flat' = [flat EXCEPT ![call[a].dest] = "torn"] /\ UNCHANGED top
    BY <1>13, <1>14 DEF Fail, Emptied
  <2>2. /\ top' \in [Name -> {"none", "torn", "whole"}]
        /\ flat' \in [Name -> {"none", "torn", "whole"}]
    BY <1>12, <2>1
  <2>3. QED
    BY <1>1, <1>3, <1>14, <2>2 DEF Fail, Goto, Raise
<1>15. ASSUME Unnoticed(a) PROVE TypeOK'
  <2>1. CASE ClearFails(a)
    <3>1. PICK left \in RestOf(call[a].dest) :
            /\ top' = [top EXCEPT ![call[a].dest] = left.top]
            /\ flat' = [flat EXCEPT ![call[a].dest] = left.flat]
      BY <2>1 DEF ClearFails
    <3>2. /\ top' \in [Name -> {"none", "torn", "whole"}]
          /\ flat' \in [Name -> {"none", "torn", "whole"}]
      BY <1>12, <1>13, <2>1, <3>1 DEF ClearFails, Emptied
    <3>3. QED
      BY <1>1, <1>3, <2>1, <3>2 DEF ClearFails, Swallow, Goto
  <2>2. CASE DeleteFails(a)
    BY <1>1, <1>3, <2>2 DEF DeleteFails, Swallow, Goto
  <2>3. CASE RemoveFails(a)
    BY <1>1, <1>3, <2>3 DEF RemoveFails, Swallow, Goto
  <2>4. QED
    BY <1>15, <2>1, <2>2, <2>3 DEF Unnoticed
<1>16. QED
  BY <1>4, <1>5, <1>6, <1>9, <1>10, <1>11, <1>14, <1>15 DEF Acts, Step

-------------------------------------------------------------------------------
(* What an agent's own step keeps. *)

LEMMA BeginKeeps ==
    ASSUME IInv, NEW a \in Agent, NEW c \in CallsOf[a], Begin(a, c), NEW x, x = call[a]
    PROVE  Fits(x)' /\ Sound(a)'
<1>1. x \in Calls /\ Fits(x)
  BY CallFields DEF IInv, TypeOK
<1>2. pc'[a] = "clear" /\ UNCHANGED target
  BY DEF Begin, Goto, IInv, TypeOK
<1>3. Fits(x)'
  BY <1>1, <1>2 DEF Fits, target
<1>4. Sound(a)'
  BY <1>2 DEF Sound, Before, After, Unpacks
<1>5. QED
  BY <1>3, <1>4

\* The steps up to curl.
LEMMA PrepareKeeps ==
    ASSUME AllWary, IInv, NEW a \in Agent, NEW x, x = call[a],
           \/ Clear(a) \/ Delete(a) \/ Unlink(a) \/ Unmark(a)
           \/ Look(a) \/ Resume(a) \/ Drop(a)
    PROVE  Fits(x)' /\ Sound(a)'
<1>1. /\ x \in CallsOf[a] /\ x \in Calls /\ x.file \in Name /\ Fits(x) /\ Sound(a) /\ Wary(x)
      /\ x.overwrite \in BOOLEAN /\ x.deletedest \in BOOLEAN /\ x.clear \in BOOLEAN
      /\ x.dest \in Name \cup {Nowhere}
  BY CallFields DEF IInv, TypeOK, AllWary
<1>2. None # Page /\ None # Part(x.url) /\ None # Whole(x.url) /\ Page # Whole(x.url)
      /\ Part(x.url) # Whole(x.url) /\ Page # Part(x.url)
  BY Contents
<1>3. call'[a] = x /\ pc[a] \in Label /\ uncleared' = uncleared
  BY DEF Clear, Delete, Unlink, Unmark, Look, Resume, Drop, Silent, InCall, IInv, TypeOK
<1> USE DEF IInv, TypeOK, Fits, Sound, Before, After, Unpacks, Goto, SetFile, Silent, InCall, target
<1>4. CASE Clear(a)
  <2>1. /\ pc'[a] = "delete" /\ file' = file /\ marker' = marker
        /\ x.clear /\ x.dest # Nowhere => flat'[x.dest] = "none"
    BY <1>1, <1>4 DEF Clear
  <2>2. QED
    BY <1>1, <1>3, <2>1
<1>5. CASE Delete(a)
  <2>1. /\ pc'[a] = "unlink" /\ marker' = marker /\ flat' = flat
        /\ file'[x.file] = IF x.deletedest THEN None ELSE file[x.file]
    BY <1>1, <1>5 DEF Delete
  <2>2. QED
    BY <1>1, <1>2, <1>3, <1>5, <2>1 DEF Delete
<1>6. CASE Unlink(a)
  <2>1. /\ pc[a] = "unlink" /\ marker' = marker /\ flat' = flat
        /\ \/ pc'[a] = "unmark" /\ file'[x.file] = None
           \/ pc'[a] = "look" /\ file' = file /\ ~(x.overwrite /\ file[x.file] # None)
    BY <1>1, <1>6 DEF Unlink
  <2>2. QED
    BY <1>1, <1>2, <1>3, <2>1 DEF Wary
<1>7. CASE Unmark(a)
  <2>1. /\ pc[a] = "unmark" /\ pc'[a] = "look" /\ file' = file /\ flat' = flat
        /\ marker' = marker \ {x.file}
    BY <1>1, <1>7 DEF Unmark
  <2>2. QED
    BY <1>1, <1>2, <1>3, <2>1
<1>8. CASE Look(a)
  <2>1. /\ pc[a] = "look" /\ UNCHANGED target
        /\ \/ pc'[a] = "tar" /\ file[x.file] # None /\ x.file \in marker
           \/ pc'[a] = "resume" /\ ~(file[x.file] # None /\ x.file \in marker)
    BY <1>1, <1>8 DEF Look
  <2>2. QED
    BY <1>1, <1>2, <1>3, <2>1
<1>9. CASE Resume(a)
  <2>1. pc[a] = "resume" /\ UNCHANGED target /\ pc'[a] = "drop"
    BY <1>1, <1>9 DEF Resume
  <2>2. QED
    BY <1>1, <1>2, <1>3, <2>1
<1>10. CASE Drop(a)
  <2>1. /\ pc[a] = "drop" /\ pc'[a] = "curl" /\ file' = file /\ flat' = flat
        /\ marker' = marker \ {x.file}
    BY <1>1, <1>10 DEF Drop
  <2>2. QED
    BY <1>1, <1>2, <1>3, <2>1
<1>11. QED
  BY <1>4, <1>5, <1>6, <1>7, <1>8, <1>9, <1>10

\* curl leaves a part, or all of the file and rc 0, or a page and rc 0.
LEMMA CurlKeeps ==
    ASSUME AllWary, IInv, NEW a \in Agent, NEW x, x = call[a], Curl(a) \/ Anew(a)
    PROVE  Fits(x)' /\ Sound(a)'
<1>1. /\ x \in CallsOf[a] /\ x \in Calls /\ x.file \in Name /\ Fits(x) /\ Sound(a)
      /\ pc[a] \in {"curl", "anew"}
  BY CallFields DEF IInv, TypeOK, Curl, Anew
<1>2. /\ None # Page /\ None # Part(x.url) /\ None # Whole(x.url) /\ Page # Whole(x.url)
      /\ Part(x.url) # Whole(x.url) /\ Page # Part(x.url)
  BY Contents
<1>3. x.file \notin marker /\ file[x.file] \in {None, Part(x.url), Whole(x.url)}
  BY <1>1, <1>2 DEF Sound, Before, After, Fits
<1>4. Begun(file[x.file], x.url) \in {Part(x.url), Whole(x.url)}
  BY <1>2, <1>3 DEF Begun
<1>5. file[x.file] # None => Continued(file[x.file], x.url) = Whole(x.url)
  BY <1>3 DEF Continued
<1>6. \E y, code, label :
        /\ Answered(a, x.file, y, code, label)
        /\ \/ label = "again" /\ y = file[x.file]
           \/ label = "size" /\ code = Cut /\ y \in {None, Part(x.url), Whole(x.url)}
           \/ label = "size" /\ y = Whole(x.url)
           \/ label = "size" /\ y = Page /\ x.url \in Absent
  <2>1. CASE Fetch(a, "size")
    BY <2>1 DEF Fetch
  <2>2. CASE Broken(a, "size")
    BY <1>3, <1>4, <2>2 DEF Broken
  <2>3. CASE file[x.file] # None /\ Continue(a)
    BY <1>5, <2>3 DEF Continue
  <2>4. QED
    BY <2>1, <2>2, <2>3 DEF Curl, Anew
<1>7. PICK y, code, label :
        /\ Answered(a, x.file, y, code, label)
        /\ \/ label = "again" /\ y = file[x.file]
           \/ label = "size" /\ code = Cut /\ y \in {None, Part(x.url), Whole(x.url)}
           \/ label = "size" /\ y = Whole(x.url)
           \/ label = "size" /\ y = Page /\ x.url \in Absent
  BY <1>6
<1>8. /\ file'[x.file] = y /\ rc'[a] = code /\ pc'[a] = label /\ call'[a] = x
      /\ marker' = marker /\ flat' = flat /\ uncleared' = uncleared
  BY <1>1, <1>7 DEF Answered, SetFile, Goto, IInv, TypeOK
<1>9. Fits(x)'
  BY <1>2, <1>3, <1>7, <1>8 DEF Fits
<1>10. Before(a)'
  BY <1>7, <1>8 DEF Before
<1>11. After(a)'
  BY <1>3, <1>7, <1>8 DEF After, Cut, NoRc
<1>12. Unpacks(a)'
  BY <1>1, <1>7, <1>8 DEF Sound, Unpacks
<1>13. QED
  BY <1>9, <1>10, <1>11, <1>12 DEF Sound

\* The steps that judge what curl has left, and those that mark it.
LEMMA JudgeKeeps ==
    ASSUME AllWary, IInv, NEW a \in Agent, NEW x, x = call[a],
           Again(a) \/ Size(a) \/ Judge(a) \/ Touch(a)
    PROVE  Fits(x)' /\ Sound(a)'
<1>1. /\ x \in CallsOf[a] /\ x \in Calls /\ x.file \in Name /\ Fits(x) /\ Sound(a) /\ Wary(x)
      /\ x.guarded \in BOOLEAN /\ rc[a] \in {NoRc, Cut, NoRange} /\ marker \subseteq Name
  BY CallFields DEF IInv, TypeOK, AllWary
<1>2. /\ None # Page /\ None # Part(x.url) /\ None # Whole(x.url) /\ Page # Whole(x.url)
      /\ Part(x.url) # Whole(x.url) /\ Page # Part(x.url)
  BY Contents
<1>3. call'[a] = x /\ rc'[a] = rc[a] /\ uncleared' = uncleared
  BY DEF Again, Size, Judge, Touch, Silent, InCall
<1> USE DEF Fits, Sound, Before, After, Unpacks
<1>4. CASE Again(a)
  <2>1. /\ pc[a] = "again" /\ pc'[a] = "anew" /\ file'[x.file] = None
        /\ marker' = marker /\ flat' = flat /\ uncleared' = uncleared
    BY <1>1, <1>4 DEF Again, Goto, SetFile, Silent, InCall, IInv, TypeOK
  <2>2. QED
    BY <1>1, <1>2, <1>3, <2>1
<1>5. CASE Size(a)
  <2>1. /\ pc[a] = "size" /\ UNCHANGED target
        /\ \/ pc'[a] = "idle"
           \/ pc'[a] = "judge" /\ ~(x.guarded /\ file[x.file] = Page)
    BY <1>1, <1>5 DEF Size, Goto, Raise, Silent, InCall, IInv, TypeOK
  <2>2. QED
    BY <1>1, <1>2, <1>3, <2>1 DEF target, Wary
<1>6. CASE Judge(a)
  <2>1. /\ pc[a] = "judge" /\ UNCHANGED target
        /\ pc'[a] = "idle" \/ (pc'[a] = "touch" /\ rc[a] = NoRc)
    BY <1>1, <1>6 DEF Judge, Goto, Raise, Silent, InCall, IInv, TypeOK, NoRc, Cut, NoRange
  <2>2. QED
    BY <1>1, <1>2, <1>3, <2>1 DEF target
<1>7. CASE Touch(a)
  <2>1. /\ pc[a] = "touch" /\ pc'[a] = "tar" /\ file' = file /\ flat' = flat
        /\ marker' = marker \cup {x.file}
    BY <1>1, <1>7 DEF Touch, Goto, IInv, TypeOK
  <2>2. QED
    BY <1>1, <1>2, <1>3, <2>1
<1>8. QED
  BY <1>4, <1>5, <1>6, <1>7

\* The steps of file_expand.
LEMMA ExpandKeeps ==
    ASSUME IInv, NEW a \in Agent, NEW x, x = call[a],
           Tar(a) \/ Find(a) \/ Copy(a) \/ Remove(a) \/ Done(a)
    PROVE  Fits(x)' /\ Sound(a)'
<1>1. /\ x \in CallsOf[a] /\ x \in Calls /\ x.file \in Name /\ Fits(x) /\ Sound(a)
      /\ x.url \in Url /\ x.dest \in Name \cup {Nowhere}
      /\ x.clear \in BOOLEAN /\ x.flatten \in BOOLEAN
  BY CallFields DEF IInv, TypeOK
<1>2. call'[a] = x /\ file' = file /\ marker' = marker /\ uncleared' = uncleared
  BY DEF Tar, Find, Copy, Remove, Done, Silent, InCall, target
<1>3. pc[a] \in {"tar", "find", "copy", "remove", "done"} /\ file[x.file] = Whole(x.url)
  BY <1>1 DEF Tar, Find, Copy, Remove, Done, Sound, After
<1>4. pc'[a] \in {"idle", "find", "copy", "remove", "done"}
  BY DEF Tar, Find, Copy, Remove, Done, Goto, Raise, IInv, TypeOK
<1>5. Fits(x)'
  BY <1>1, <1>2 DEF Fits
<1>6. Before(a)' /\ After(a)'
  BY <1>2, <1>3, <1>4 DEF Before, After
<1>7. Unpacks(a)'
  <2> USE DEF Unpacks, Sound, Goto, IInv, TypeOK, target
  <2>1. CASE Tar(a)
    <3>1. /\ pc[a] = "tar" /\ flat' = flat
          /\ \/ x.dest = Nowhere /\ pc'[a] = "done"
             \/ /\ x.dest # Nowhere /\ top'[x.dest] = "whole"
                /\ pc'[a] = IF x.flatten THEN "find" ELSE "done"
      BY <1>1, <1>3, <2>1 DEF Tar
    <3>2. QED
      BY <1>1, <1>2, <1>3, <3>1 DEF Delivered
  <2>2. CASE Find(a)
    BY <1>1, <1>2, <1>3, <2>2 DEF Find, Delivered
  <2>3. CASE Copy(a)
    <3>1. /\ pc[a] = "copy" /\ pc'[a] = "remove" /\ x.dest \in Name /\ x.flatten
          /\ flat'[x.dest] = top[x.dest]
      BY <1>1, <2>3 DEF Copy
    <3>2. QED
      BY <1>1, <1>2, <3>1
  <2>4. CASE Remove(a)
    BY <1>1, <1>2, <2>4 DEF Remove, Delivered
  <2>5. CASE Done(a)
    BY <1>2, <2>5 DEF Done
  <2>6. QED
    BY <2>1, <2>2, <2>3, <2>4, <2>5
<1>8. QED
  BY <1>5, <1>6, <1>7 DEF Sound

LEMMA FailKeeps ==
    ASSUME IInv, NEW a \in Agent, NEW x, x = call[a], Fail(a)
    PROVE  Fits(x)' /\ Sound(a)'
<1>1. x \in Calls /\ Fits(x) /\ pc'[a] = "idle" /\ file' = file /\ marker' = marker
  BY CallFields DEF IInv, TypeOK, Fail, Raise, Goto
<1>2. QED
  BY <1>1 DEF Fits, Sound, Before, After, Unpacks

LEMMA UnnoticedKeeps ==
    ASSUME IInv, NEW a \in Agent, NEW x, x = call[a], Unnoticed(a)
    PROVE  Fits(x)' /\ Sound(a)'
<1>1. /\ x \in CallsOf[a] /\ x \in Calls /\ Fits(x) /\ Sound(a)
      /\ call'[a] = x /\ file' = file /\ marker' = marker /\ rc' = rc
      /\ x.dest \in Name \cup {Nowhere} /\ pc \in [Agent -> Label]
  BY CallFields
  DEF IInv, TypeOK, Unnoticed, ClearFails, DeleteFails, RemoveFails, Swallow
<1>2. Fits(x)'
  BY <1>1 DEF Fits
<1>3. CASE ClearFails(a)
  <2>1. pc[a] = "clear" /\ pc'[a] = "delete" /\ a \in uncleared'
    BY <1>1, <1>3 DEF ClearFails, Swallow, Goto
  <2>2. QED
    BY <1>1, <1>2, <2>1 DEF Sound, Before, After, Unpacks
<1>4. CASE DeleteFails(a)
  <2>1. /\ pc[a] = "delete" /\ pc'[a] = "unlink"
        /\ uncleared' = uncleared /\ top' = top /\ flat' = flat
    BY <1>1, <1>4 DEF DeleteFails, Swallow, Goto
  <2>2. QED
    BY <1>1, <1>2, <2>1 DEF Sound, Before, After, Unpacks
<1>5. CASE RemoveFails(a)
  <2>1. pc[a] = "remove" /\ pc'[a] = "done" /\ flat' = flat
    BY <1>1, <1>5 DEF RemoveFails, Swallow, Goto
  <2>2. Delivered(a)'
    BY <1>1, <2>1 DEF Sound, Unpacks, Delivered
  <2>3. QED
    BY <1>1, <1>2, <2>1, <2>2 DEF Sound, Before, After, Unpacks
<1>6. QED
  BY <1>3, <1>4, <1>5 DEF Unnoticed

LEMMA OwnStep ==
    ASSUME AllWary, IInv, NEW a \in Agent, Acts(a), NEW x, x = call[a]
    PROVE  Fits(x)' /\ Sound(a)'
  BY BeginKeeps, PrepareKeeps, CurlKeeps, JudgeKeeps, ExpandKeeps, FailKeeps,
     UnnoticedKeeps
  DEF Acts, Step

-------------------------------------------------------------------------------
(* The invariant is one. *)

LEMMA InitInvariant == ASSUME Init PROVE IInv
<1>1. \A a \in Agent : call[a] \in CallsOf[a] /\ call[a] \in Calls
  BY DownloadAssumption DEF Init, Calls
<1>2. TypeOK
  BY <1>1, DownloadAssumption DEF Init, TypeOK, Content, Label
<1>3. \A c \in Calls : c.file \in Name
  BY CallFields DEF Calls
<1>4. \A c \in Calls : Fits(c)
  BY <1>3, Contents DEF Init, Fits
<1>5. \A a \in Agent : Sound(a)
  BY DEF Init, Sound, Before, After, Unpacks
<1>6. QED
  BY <1>2, <1>4, <1>5 DEF IInv

LEMMA StepInvariant == ASSUME Apart, AllWary, IInv, [Next]_vars PROVE IInv'
<1>1. CASE UNCHANGED vars
  BY <1>1 DEF IInv, TypeOK, Fits, Sound, Before, After, Unpacks, Delivered, vars, target, local
<1>2. ASSUME NEW a \in Agent, Acts(a) PROVE IInv'
  <2>1. TypeOK' /\ Confined(a)
    BY <1>2, TypeStep, Confinement DEF IInv
  <2>2. PICK x : x = call[a]
    OBVIOUS
  <2>3. Fits(x)' /\ Sound(a)'
    BY <1>2, <2>2, OwnStep
  <2>4. \A c \in Calls : Fits(c)'
    BY <2>1, <2>2, <2>3, OthersStayFit DEF IInv
  <2>5. \A b \in Agent : Sound(b)'
    BY <2>1, <2>3, OthersStaySound DEF IInv
  <2>6. QED
    BY <2>1, <2>4, <2>5 DEF IInv
<1>3. QED
  BY <1>1, <1>2 DEF Next, Acts

-------------------------------------------------------------------------------
(* What an agent knows when it judges what curl has returned, and when it    *)
(* unpacks.                                                                  *)

Careful(a) ==
    /\ pc[a] \in {"size", "judge"} => rc[a] # NoRange
    /\ pc[a] \in {"tar", "find", "copy", "remove", "done"} => call[a].file \in marker
AllCareful == \A a \in Agent : Careful(a)

LEMMA OwnCare ==
    ASSUME TypeOK, NEW a \in Agent, Acts(a), Careful(a)
    PROVE  Careful(a)'
<1>1. pc[a] \in Label /\ call[a] \in CallsOf[a] /\ marker \subseteq Name
  BY DEF TypeOK
<1>2. call[a].file \in Name
  BY <1>1, CallFields
<1> USE DEF Careful, TypeOK
<1>3. ASSUME NEW c \in CallsOf[a], Begin(a, c) PROVE Careful(a)'
  BY <1>3 DEF Begin, Goto
<1>4. CASE Clear(a) \/ Delete(a) \/ Unlink(a) \/ Unmark(a)
  BY <1>4 DEF Clear, Delete, Unlink, Unmark, Goto, Silent, InCall
<1>5. CASE Look(a) \/ Resume(a) \/ Drop(a)
  BY <1>5 DEF Look, Resume, Drop, Goto, Silent, InCall, target
<1>6. ASSUME NEW x, NEW code, NEW label, Answered(a, call[a].file, x, code, label),
             label = "again" \/ (label = "size" /\ code # NoRange)
      PROVE  Careful(a)'
  BY <1>6 DEF Answered, Goto
<1>7. CASE Curl(a) \/ Anew(a)
  BY <1>6, <1>7 DEF Curl, Anew, Fetch, Continue, Broken, Cut, NoRange
<1>8. CASE Again(a) \/ Size(a) \/ Judge(a) \/ Touch(a)
  BY <1>1, <1>2, <1>8 DEF Again, Size, Judge, Touch, Goto, Raise, Silent, InCall, target
<1>9. CASE Tar(a) \/ Find(a) \/ Copy(a) \/ Remove(a) \/ Done(a)
  BY <1>9 DEF Tar, Find, Copy, Remove, Done, Goto, Raise, Silent, InCall, target
<1>10. CASE Fail(a)
  BY <1>10 DEF Fail, Goto, Raise
<1>11. CASE Unnoticed(a)
  BY <1>11 DEF Unnoticed, ClearFails, DeleteFails, RemoveFails, Swallow, Goto
<1>12. QED
  BY <1>3, <1>4, <1>5, <1>7, <1>8, <1>9, <1>10, <1>11 DEF Acts, Step

LEMMA OthersCare ==
    ASSUME Apart, TypeOK, NEW a \in Agent, Confined(a), NEW b \in Agent \ {a}, Careful(b)
    PROVE  Careful(b)'
<1>1. call[b] \in CallsOf[b] /\ call[a] \in CallsOf[a]
  BY DEF TypeOK
<1>2. call[b].file # call[a].file
  BY <1>1 DEF Apart
<1>3. /\ pc'[b] = pc[b] /\ call'[b] = call[b] /\ rc'[b] = rc[b]
      /\ call[b].file \in marker' <=> call[b].file \in marker
  BY <1>1, <1>2, CallFields DEF Confined
<1>4. QED
  BY <1>3 DEF Careful

LEMMA CareStep ==
    ASSUME Apart, IInv, AllCareful, [Next]_vars
    PROVE  AllCareful'
<1>1. CASE UNCHANGED vars
  BY <1>1 DEF AllCareful, Careful, vars, target, local
<1>2. ASSUME NEW a \in Agent, Acts(a) PROVE AllCareful'
  BY <1>2, Confinement, OwnCare, OthersCare DEF AllCareful, IInv
<1>3. QED
  BY <1>1, <1>2 DEF Next, Acts

-------------------------------------------------------------------------------
(* The exceptions that a call raises of itself. *)

LEMMA RaiseStep ==
    ASSUME IInv, NEW a \in Agent, Careful(a), Raises(a)
    PROVE  rc[a] = Cut \/ call[a].url \in Absent
<1> DEFINE x == call[a]
<1>1. /\ x \in CallsOf[a] /\ x \in Calls /\ x.url \in Url /\ Fits(x) /\ Sound(a)
      /\ pc[a] \in Label /\ rc[a] \in {NoRc, Cut, NoRange}
  BY CallFields DEF IInv, TypeOK
<1>2. /\ None # Page /\ None # Whole(x.url) /\ Page # Part(x.url)
      /\ Part(x.url) # Whole(x.url)
  BY Contents
<1>3. pc \in [Agent -> Label] /\ pc'[a] = "idle" /\ pc[a] # "done"
  BY DEF Raises, IInv, TypeOK
<1> USE DEF Goto
<1>4. ~(Clear(a) \/ Delete(a) \/ Unlink(a) \/ Unmark(a))
  BY <1>3 DEF Clear, Delete, Unlink, Unmark
<1>5. ~(Look(a) \/ Resume(a) \/ Drop(a))
  BY <1>3 DEF Look, Resume, Drop
<1>6. ~(Curl(a) \/ Again(a) \/ Anew(a) \/ Touch(a))
  BY <1>3 DEF Curl, Again, Anew, Fetch, Continue, Broken, Answered, Touch
<1>7. ~(Find(a) \/ Copy(a) \/ Remove(a) \/ Done(a))
  BY <1>3 DEF Find, Copy, Remove, Done
<1>8. CASE Size(a)
  <2>1. pc[a] = "size" /\ file[x.file] \in {None, Page, Part(x.url)}
    BY <1>3, <1>8 DEF Size
  <2>2. rc[a] # NoRange
    BY <2>1 DEF Careful
  <2>3. rc[a] = NoRc => file[x.file] = Page
    BY <1>1, <1>2, <2>1 DEF Sound, After
  <2>4. QED
    BY <1>1, <2>2, <2>3 DEF Fits
<1>9. CASE Judge(a)
  <2>1. pc[a] = "judge" /\ rc[a] > 0
    BY <1>3, <1>9 DEF Judge
  <2>2. QED
    BY <1>1, <2>1 DEF Careful, NoRc
<1>10. CASE Tar(a)
  <2>1. pc[a] = "tar" /\ file[x.file] \notin {Whole(u) : u \in Url}
    BY <1>3, <1>10 DEF Tar
  <2>2. file[x.file] = Whole(x.url)
    BY <1>1, <2>1 DEF Sound, After
  <2>3. QED
    BY <1>1, <2>1, <2>2
<1>11. QED
  BY <1>4, <1>5, <1>6, <1>7, <1>8, <1>9, <1>10 DEF Raises, Step

-------------------------------------------------------------------------------
(* PrefabStore: what a step of an agent makes of what its callers see.       *)

\* Of the names, only that of the agent's own call becomes complete or trusted, or
\* ceases to be.
LEMMA SeenNames ==
    ASSUME Apart, IInv, TypeOK', NEW a \in Agent, Confined(a), NEW x, x = call[a]
    PROVE  /\ x.file \in Complete <=> file[x.file] = Whole(x.url)
           /\ Complete' = IF file'[x.file] = Whole(x.url)
                           THEN Complete \cup {x.file} ELSE Complete \ {x.file}
           /\ Trusted' = IF x.file \in marker' /\ file'[x.file] # None
                          THEN Trusted \cup {x.file} ELSE Trusted \ {x.file}
<1>1. x \in CallsOf[a] /\ x \in Calls /\ x.file \in Name /\ marker \subseteq Name
  BY CallFields DEF IInv, TypeOK
<1>2. \A c \in Calls : c.file = x.file => c.url = x.url
  BY <1>1 DEF Apart, Calls
<1>3. \A n \in Name \ {x.file} : file'[n] = file[n] /\ (n \in marker' <=> n \in marker)
  BY DEF Confined
<1>4. x.file \in Complete <=> file[x.file] = Whole(x.url)
  BY <1>1, <1>2 DEF Complete
<1>5. x.file \in Complete' <=> file'[x.file] = Whole(x.url)
  BY <1>1, <1>2 DEF Complete
<1>6. \A n : n # x.file => (n \in Complete' <=> n \in Complete)
  BY <1>3 DEF Complete
<1>7. marker' \subseteq Name
  BY DEF TypeOK
<1>8. \A n : n # x.file => (n \in Trusted' <=> n \in Trusted)
  BY <1>1, <1>3, <1>7 DEF Trusted
<1>9. x.file \in Trusted' <=> x.file \in marker' /\ file'[x.file] # None
  BY DEF Trusted
<1>10. QED
  BY <1>4, <1>5, <1>6, <1>8, <1>9

LEMMA SeenState ==
    ASSUME TypeOK, NEW a \in Agent, NEW label, Goto(a, label)
    PROVE  State' = [State EXCEPT ![a] = Shown(label)]
  BY DEF TypeOK, Goto, State

\* Steps that no caller sees.
LEMMA UnseenStep ==
    ASSUME Apart, IInv, TypeOK', NEW a \in Agent, Confined(a), NEW x, x = call[a], NEW label,
           Goto(a, label), call' = call, Shown(label) = Shown(pc[a]),
           file'[x.file] = Whole(x.url) <=> file[x.file] = Whole(x.url),
           x.file \in marker' /\ file'[x.file] # None <=> x.file \in Trusted
    PROVE  UNCHANGED Store!vars
<1>1. Complete' = Complete /\ Trusted' = Trusted
  BY SeenNames
<1>2. State' = State
  BY SeenState DEF State, IInv
<1>3. QED
  BY <1>1, <1>2 DEF Store!vars

\* Steps that make the file complete, or no longer.
LEMMA FetchStep ==
    ASSUME Apart, IInv, TypeOK', NEW a \in Agent, Confined(a), NEW x, x = call[a], NEW label,
           Goto(a, label), call' = call, Shown(label) = "busy", Shown(pc[a]) = "busy",
           x.file \notin marker, x.file \notin marker'
    PROVE  Store!Fetch(a)
<1>1. Trusted' = Trusted /\ x.file \notin Trusted
  BY SeenNames DEF Trusted
<1>2. Complete' \in {Complete \cup {x.file}, Complete \ {x.file}}
  BY SeenNames
<1>3. State' = State /\ State[a] = "busy"
  BY SeenState DEF State, IInv
<1>4. QED
  BY <1>1, <1>2, <1>3 DEF Store!Fetch

LEMMA StoreStep ==
    ASSUME Apart, AllWary, IInv, AllCareful, TypeOK', NEW a \in Agent, Acts(a)
    PROVE  Store!Act(a) \/ UNCHANGED Store!vars
<1> DEFINE x == call[a]
<1>1. /\ x \in CallsOf[a] /\ x \in Calls /\ x.file \in Name /\ Fits(x) /\ Sound(a)
      /\ Careful(a) /\ Confined(a)
      /\ pc[a] \in Label /\ marker \subseteq Name /\ x.url \in Url
  BY CallFields, Confinement DEF IInv, TypeOK, AllCareful
<1>2. /\ None # Page /\ None # Part(x.url) /\ None # Whole(x.url) /\ Page # Whole(x.url)
      /\ Part(x.url) # Whole(x.url) /\ Page # Part(x.url)
  BY Contents
<1>3. /\ State[a] = Shown(pc[a])
      /\ x.file \in Trusted <=> x.file \in marker /\ file[x.file] # None
      /\ file \in [Name -> Content]
  BY DEF State, Trusted, IInv, TypeOK
<1> HIDE DEF x
<1>x. x = call[a]
  BY DEF x
<1>4. ASSUME NEW c \in CallsOf[a], Begin(a, c) PROVE Store!Act(a)
  <2>1. /\ pc[a] = "idle" /\ Goto(a, "clear") /\ call' = [call EXCEPT ![a] = c]
        /\ UNCHANGED target
    BY <1>4 DEF Begin
  <2>2. Complete' = Complete /\ Trusted' = Trusted
    BY <2>1 DEF Complete, Trusted, target
  <2>3. State' = [State EXCEPT ![a] = "busy"] /\ State[a] = "idle"
    BY <1>3, <2>1, SeenState DEF Shown, IInv
  <2>4. QED
    BY <2>1, <2>2, <2>3 DEF Store!Act, Store!Ask
\* Giving up.
<1>5. ASSUME NEW label, Goto(a, label), call' = call, Shown(label) = "busy",
             Shown(pc[a]) = "busy", Store!StartsAnew(x), file'[x.file] = None
      PROVE  Store!Act(a)
  <2>1. Complete' = Complete \ {x.file} /\ Trusted' = Trusted \ {x.file}
    BY <1>1, <1>2, <1>5, <1>x, SeenNames
  <2>2. State' = State /\ State[a] = "busy"
    BY <1>3, <1>5, SeenState DEF State, IInv
  <2>3. QED
    BY <1>5, <1>x, <2>1, <2>2 DEF Store!Act, Store!GiveUp
<1>6. CASE Delete(a)
  <2>1. /\ pc[a] = "delete" /\ Goto(a, "unlink") /\ call' = call /\ marker' = marker
        /\ Shown("unlink") = "busy" /\ Shown(pc[a]) = "busy"
    BY <1>6 DEF Delete, Silent, InCall, Shown
  <2>2. CASE x.deletedest
    <3>1. file'[x.file] = None
      BY <1>1, <1>3, <1>6, <1>x, <2>2 DEF Delete, SetFile
    <3>2. Store!StartsAnew(x)
      BY <2>2 DEF Store!StartsAnew
    <3>3. QED
      BY <1>5, <2>1, <3>1, <3>2
  <2>3. CASE ~x.deletedest
    <3>1. file' = file
      BY <1>6, <1>x, <2>3 DEF Delete
    <3>2. QED
      BY <1>1, <1>3, <1>x, <2>1, <3>1, UnseenStep
  <2>4. QED
    BY <2>2, <2>3
<1>7. CASE Unlink(a)
  <2>1. /\ pc[a] = "unlink" /\ call' = call /\ marker' = marker
        /\ Shown("unmark") = "busy" /\ Shown("look") = "busy" /\ Shown(pc[a]) = "busy"
    BY <1>7 DEF Unlink, Silent, InCall, Shown
  <2>2. CASE x.overwrite /\ file[x.file] # None
    <3>1. file'[x.file] = None /\ Goto(a, "unmark")
      BY <1>1, <1>3, <1>7, <1>x, <2>2 DEF Unlink, SetFile
    <3>2. Store!StartsAnew(x)
      BY <2>2 DEF Store!StartsAnew
    <3>3. QED
      BY <1>5, <2>1, <3>1, <3>2
  <2>3. CASE ~(x.overwrite /\ file[x.file] # None)
    <3>1. file' = file /\ Goto(a, "look")
      BY <1>7, <1>x, <2>3 DEF Unlink
    <3>2. QED
      BY <1>1, <1>3, <1>x, <2>1, <3>1, UnseenStep
  <2>4. QED
    BY <2>2, <2>3
\* What the file and its marker are, before they are looked at.
<1>8. CASE Clear(a) \/ Look(a) \/ Resume(a) \/ Size(a) \/ Judge(a)
  <2>1. UNCHANGED <<file, marker>> /\ call' = call /\ Shown(pc[a]) = "busy"
    BY <1>8 DEF Clear, Look, Resume, Size, Judge, Silent, InCall, target, Shown
  <2>2. \/ \E label : Goto(a, label) /\ Shown(label) = "busy"
        \/ Goto(a, "idle")
    BY <1>8 DEF Clear, Look, Resume, Size, Judge, Raise, Shown
  <2>3. CASE Goto(a, "idle")
    <3>1. State' = [State EXCEPT ![a] = "idle"] /\ State[a] = "busy"
      BY <1>3, <2>1, <2>3, SeenState DEF Shown, IInv
    <3>2. Complete' = Complete /\ Trusted' = Trusted
      BY <2>1 DEF Complete, Trusted
    <3>3. QED
      BY <2>1, <3>1, <3>2 DEF Store!Act, Store!End
  <2>4. QED
    BY <1>1, <1>3, <1>x, <2>1, <2>2, <2>3, UnseenStep
<1>9. CASE Unmark(a) \/ Drop(a)
  <2>1. /\ file' = file /\ marker' = marker \ {x.file} /\ call' = call
        /\ Shown(pc[a]) = "busy"
        /\ file[x.file] = None \/ x.file \notin marker
    BY <1>1, <1>9, <1>x DEF Unmark, Drop, Silent, InCall, Shown, Sound, Before
  <2>2. \E label : Goto(a, label) /\ Shown(label) = "busy"
    BY <1>9 DEF Unmark, Drop, Shown
  <2>3. QED
    BY <1>1, <1>3, <1>x, <2>1, <2>2, UnseenStep
\* Fetching.
<1>10. CASE Curl(a) \/ Again(a) \/ Anew(a)
  <2>1. /\ marker' = marker /\ call' = call /\ Shown(pc[a]) = "busy"
        /\ x.file \notin marker
    BY <1>1, <1>10, <1>x
    DEF Curl, Again, Anew, Fetch, Continue, Broken, Answered, Silent, InCall, Shown, Sound, After
  <2>2. \E label : Goto(a, label) /\ Shown(label) = "busy"
    BY <1>10 DEF Curl, Again, Anew, Fetch, Continue, Broken, Answered, Shown
  <2>3. QED
    BY <1>1, <1>x, <2>1, <2>2, FetchStep DEF Store!Act
<1>11. CASE Touch(a)
  <2>1. /\ pc[a] = "touch" /\ Goto(a, "tar") /\ call' = call /\ file' = file
        /\ marker' = marker \cup {x.file} /\ file[x.file] = Whole(x.url)
    BY <1>1, <1>11, <1>x DEF Touch, Silent, InCall, Sound, After
  <2>2. /\ x.file \in Complete /\ Complete' = Complete
        /\ Trusted' = Trusted \cup {x.file}
    <3>1. x.file \in Complete
      BY <1>1, <1>x, <2>1, SeenNames
    <3>2. Complete' = Complete \cup {x.file}
      BY <1>1, <1>x, <2>1, SeenNames
    <3>3. Trusted' = Trusted \cup {x.file}
      BY <1>1, <1>2, <1>x, <2>1, SeenNames
    <3>4. QED
      BY <3>1, <3>2, <3>3
  <2>3. Shown("tar") = "busy" /\ Shown(pc[a]) = "busy"
    BY <2>1 DEF Shown
  <2>4. State' = State /\ State[a] = "busy"
    BY <1>3, <2>1, <2>3, SeenState DEF State, IInv
  <2>5. QED
    BY <1>x, <2>1, <2>2, <2>4 DEF Store!Act, Store!Trust
\* Unpacking, and the end of the call.
<1>12. CASE Tar(a) \/ Find(a) \/ Copy(a) \/ Remove(a)
  <2>1. /\ UNCHANGED <<file, marker>> /\ call' = call /\ Shown(pc[a]) = "busy"
        /\ file[x.file] = Whole(x.url) /\ x.file \in marker
    BY <1>1, <1>12, <1>x
    DEF Tar, Find, Copy, Remove, Silent, InCall, target, Shown, Sound, After, Careful
  <2>2. \E label : Goto(a, label)
    BY <1>12 DEF Tar, Find, Copy, Remove
  <2>3. PICK label : Goto(a, label)
    BY <2>2
  <2>4. /\ State' = [State EXCEPT ![a] = Shown(label)] /\ State[a] = "busy"
        /\ Complete' = Complete /\ Trusted' = Trusted /\ x.file \in Trusted
    BY <1>2, <1>3, <2>1, <2>3, SeenState DEF Complete, Trusted, IInv
  <2>5. CASE Shown(label) = "busy"
    BY <1>1, <1>3, <1>x, <2>1, <2>3, <2>5, UnseenStep
  <2>6. CASE Shown(label) = "given"
    BY <1>x, <2>1, <2>4, <2>6 DEF Store!Act, Store!Give
  <2>7. CASE Shown(label) = "idle"
    BY <2>1, <2>4, <2>7 DEF Store!Act, Store!End
  <2>8. QED
    BY <2>5, <2>6, <2>7 DEF Shown
<1>13. CASE Done(a) \/ Fail(a)
  <2>1. UNCHANGED <<file, marker>> /\ call' = call /\ pc[a] # "idle" /\ Goto(a, "idle")
    BY <1>13 DEF Done, Fail, Raise, Silent, InCall, target
  <2>2. State' = [State EXCEPT ![a] = "idle"] /\ State[a] # "idle"
    BY <1>3, <2>1, SeenState DEF Shown, IInv
  <2>3. Complete' = Complete /\ Trusted' = Trusted
    BY <2>1 DEF Complete, Trusted
  <2>4. QED
    BY <2>1, <2>2, <2>3 DEF Store!Act, Store!End
\* What fails unnoticed shows in nothing but the end of the call.
<1>14. CASE Unnoticed(a)
  <2>1. UNCHANGED <<file, marker>> /\ call' = call /\ Shown(pc[a]) = "busy"
    BY <1>14 DEF Unnoticed, ClearFails, DeleteFails, RemoveFails, Swallow, Shown
  <2>2. CASE ClearFails(a) \/ DeleteFails(a)
    <3>1. \E label : Goto(a, label) /\ Shown(label) = "busy"
      BY <2>2 DEF ClearFails, DeleteFails, Swallow, Shown
    <3>2. QED
      BY <1>1, <1>3, <1>x, <2>1, <3>1, UnseenStep
  <2>3. CASE RemoveFails(a)
    <3>1. pc[a] = "remove" /\ Goto(a, "done") /\ Shown("done") = "given"
      BY <2>3 DEF RemoveFails, Swallow, Shown
    <3>2. x.file \in marker /\ file[x.file] = Whole(x.url)
      BY <1>1, <1>x, <3>1 DEF Careful, Sound, After
    <3>3. /\ State' = [State EXCEPT ![a] = "given"] /\ State[a] = "busy"
          /\ Complete' = Complete /\ Trusted' = Trusted /\ x.file \in Trusted
      BY <1>2, <1>3, <2>1, <3>1, <3>2, SeenState DEF Complete, Trusted, IInv
    <3>4. QED
      BY <1>x, <2>1, <3>3 DEF Store!Act, Store!Give
  <2>4. QED
    BY <1>14, <2>2, <2>3 DEF Unnoticed
<1>15. QED
  BY <1>4, <1>6, <1>7, <1>8, <1>9, <1>10, <1>11, <1>12, <1>13, <1>14 DEF Acts, Step

-------------------------------------------------------------------------------
(* Theorems. *)

\* The variables keep their types, whatever calls are made.
THEOREM TypeCorrect == Spec => []TypeOK
<1>1. Init => TypeOK
  BY InitInvariant DEF IInv
<1>2. TypeOK /\ [Next]_vars => TypeOK'
  <2>1. ASSUME TypeOK, UNCHANGED vars PROVE TypeOK'
    BY <2>1 DEF TypeOK, vars, target, local
  <2>2. QED
    BY <2>1, TypeStep DEF Next, Acts
<1>3. QED
  BY <1>1, <1>2, PTL DEF Spec

THEOREM Invariance == ASSUME Apart, AllWary PROVE Spec => []IInv
<1>1. Init => IInv
  BY InitInvariant
<1>2. IInv /\ [Next]_vars => IInv'
  BY StepInvariant
<1>3. QED
  BY <1>1, <1>2, PTL DEF Spec

\* A file that file_download takes for complete, because it has a marker, is.
THEOREM MarkersAreTrue == ASSUME Apart, AllWary PROVE Spec => []MarkedIsWhole
<1>1. IInv => MarkedIsWhole
  BY DEF IInv, Fits, MarkedIsWhole
<1>2. QED
  BY <1>1, Invariance, PTL

\* A call that returns has brought what it was asked for.
THEOREM ReturnsAreTrue == ASSUME Apart, AllWary PROVE Spec => []ReturnIsWhole
<1>1. IInv => ReturnIsWhole
  BY DEF IInv, Sound, Unpacks, ReturnIsWhole
<1>2. QED
  BY <1>1, Invariance, PTL

\* Only calls that are told to overwrite or delete touch a complete file.
THEOREM WholesAreKept == ASSUME Apart, AllWary PROVE Spec => WholeIsKept
<1> DEFINE Kept ==
      \A n \in marker :
        file[n] # None /\ ~(n \in marker' /\ file'[n] = file[n])
          => \E a \in Agent : /\ call[a].file = n
                              /\ call[a].overwrite \/ call[a].deletedest
<1>1. ASSUME IInv, [Next]_vars PROVE [Kept]_vars
  <2>1. SUFFICES ASSUME NEW a \in Agent, Acts(a), NEW n \in marker, file[n] # None,
                        ~(n \in marker' /\ file'[n] = file[n])
                 PROVE  /\ call[a].file = n
                        /\ call[a].overwrite \/ call[a].deletedest
    BY <1>1 DEF Next, Acts
  <2>2. /\ n \in Name /\ Sound(a) /\ call[a] \in CallsOf[a] /\ call[a].file \in Name
        /\ pc[a] \in Label /\ file \in [Name -> Content]
    BY <1>1, CallFields DEF IInv, TypeOK
  <2>3. call[a].file = n
    BY <1>1, <2>1, <2>2, Confinement DEF IInv, Confined
  <2>4. pc[a] \notin {"unmark", "resume", "drop", "curl", "again", "anew", "size", "judge"}
    BY <2>1, <2>2, <2>3 DEF Sound, Before, After
  <2>5. \/ pc[a] = "delete" /\ call[a].deletedest
        \/ pc[a] = "unlink" /\ call[a].overwrite
    <3> USE <2>1, <2>4 DEF target
    <3>1. ~(\E c \in CallsOf[a] : Begin(a, c)) /\ ~Fail(a) /\ ~Unnoticed(a)
      BY DEF Begin, Fail, Unnoticed, ClearFails, DeleteFails, RemoveFails, Swallow
    <3>2. ~(Clear(a) \/ Unmark(a) \/ Look(a) \/ Resume(a) \/ Drop(a))
      BY DEF Clear, Unmark, Look, Resume, Drop
    <3>3. ~(Curl(a) \/ Again(a) \/ Anew(a) \/ Size(a) \/ Judge(a))
      BY DEF Curl, Again, Anew, Size, Judge
    <3>4. ~(Touch(a) \/ Tar(a) \/ Find(a) \/ Copy(a) \/ Remove(a) \/ Done(a))
      BY DEF Touch, Tar, Find, Copy, Remove, Done
    <3>5. CASE Delete(a)
      BY <3>5 DEF Delete
    <3>6. CASE Unlink(a)
      BY <3>6 DEF Unlink
    <3>7. QED
      BY <3>1, <3>2, <3>3, <3>4, <3>5, <3>6 DEF Acts, Step
  <2>6. QED
    BY <2>3, <2>5
<1>2. QED
  BY <1>1, Invariance, PTL DEF Spec, WholeIsKept

\* What else an agent knows when it judges and when it unpacks.
LEMMA AlwaysCareful == ASSUME Apart, AllWary PROVE Spec => []AllCareful
<1>1. Init => AllCareful
  BY DEF Init, AllCareful, Careful
<1>2. IInv /\ AllCareful /\ [Next]_vars => AllCareful'
  BY CareStep
<1>3. QED
  BY <1>1, <1>2, Invariance, PTL DEF Spec

\* A call gets over whatever earlier calls have left: it raises of itself only when its
\* own transfer was interrupted, or when the site may not have the file.
THEOREM RaisesRightly == ASSUME Apart, AllWary PROVE Spec => RaisesForCause
<1>1. IInv /\ AllCareful =>
        \A a \in Agent : Raises(a) => rc[a] = Cut \/ call[a].url \in Absent
  BY RaiseStep DEF AllCareful
<1>2. QED
  BY <1>1, Invariance, AlwaysCareful, PTL DEF Spec, RaisesForCause

\* file_download is what PrefabStore promises: step by step, it fetches only what is not
\* trusted, trusts only what is complete, gives up a trusted file only in a call that is
\* told to start anew, and returns only with a trusted one.
THEOREM KeepsStore == ASSUME Apart, AllWary PROVE Spec => StoreSpec
<1>1. Init => Store!Init
  <2> SUFFICES ASSUME Init PROVE Store!Init
    OBVIOUS
  <2>1. \A a \in Agent : call[a] \in CallsOf[a]
    BY InitInvariant DEF IInv, TypeOK
  <2>2. call \in [Agent -> UNION {CallsOf[a] : a \in Agent}]
    BY InitInvariant DEF IInv, TypeOK, Calls
  <2>3. Complete = {} /\ Trusted = {}
    BY Contents DEF Init, Complete, Trusted
  <2>4. State = [a \in Agent |-> "idle"]
    BY DEF Init, State, Shown
  <2>5. QED
    BY <2>1, <2>2, <2>3, <2>4 DEF Store!Init
<1>2. ASSUME IInv, IInv', AllCareful, [Next]_vars PROVE [Store!Next]_(Store!vars)
  <2>1. CASE UNCHANGED vars
    BY <2>1 DEF vars, target, local, Store!vars, Complete, Trusted, State
  <2>2. ASSUME NEW a \in Agent, Acts(a) PROVE [Store!Next]_(Store!vars)
    BY <1>2, <2>2, StoreStep DEF IInv, Store!Next
  <2>3. QED
    BY <1>2, <2>1, <2>2 DEF Next, Acts
<1>3. IInv /\ IInv' /\ AllCareful /\ [Next]_vars => [Store!Next]_(Store!vars)
  BY <1>2
<1>4. QED
  BY <1>1, <1>3, Invariance, AlwaysCareful, PTL DEF Spec, StoreSpec, Store!Spec

===============================================================================
