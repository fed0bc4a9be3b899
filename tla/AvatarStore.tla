---------------------------- MODULE AvatarStore ----------------------------
(***************************************************************************)
(* GoImageServer: AvatarService and the HTTP upload over storage.FileStore *)
(* or storage.ObjectStore, which make the same calls in the same order.  A *)
(* goroutine per request, and nothing is locked: Save processes the image, *)
(* lists what the id has, removes it and writes the new file.              *)
(*                                                                         *)
(* Listing, removing what was listed, and writing are steps of their own.  *)
(* A file is removed by its name, {id}_{unix}.png; an id is the sequence   *)
(* of its digits, because deleteFiles goes by a prefix of the name.  What  *)
(* a picture shows and how it is scaled is left out.                       *)
(*                                                                         *)
(* History variables: settled, spoiled, suspect, leftover, writes, and the *)
(* field nr of a file.                                                     *)
(***************************************************************************)
EXTENDS Integers, Sequences, FiniteSets

CONSTANTS
  AvatarIds,    \* user and group ids, as digits
  Pictures,     \* pictures that are uploaded
  Unreadable,   \* those of them that processImage refuses
  MaxSaves,     \* bound: requests
  MaxAtOnce,    \* bound: requests under way at a time
  MaxSecond,    \* bound: the clock
  MaxDiskErrors,\* bound: failing calls and restarts
  Unsettled

VARIABLES
  avatars,     \* the stored files: id, second, picture, and which write made it
  second,      \* time.Now().Unix()
  saves,       \* the requests so far
  late,        \* PutObjects given up at their deadline that may still arrive
  diskErrors,  \* faults so far
  settled,     \* history: the files an id must have, if it was used by one request at a time
  spoiled,     \* history: ids whose last picture was removed by a Delete or for a write that failed
  suspect,     \* history: names of uploads that failed, which may or may not be there
  leftover,    \* history: files that could not be removed or arrived late
  writes       \* history: files written so far

avatarVars == <<avatars, second, saves, late, diskErrors, settled, spoiled, suspect, leftover, writes>>

Init ==
  /\ avatars = {} /\ second = 1 /\ saves = <<>> /\ late = {} /\ diskErrors = 0
  /\ settled = [id \in AvatarIds |-> {}]
  /\ spoiled = AvatarIds
  /\ suspect = {} /\ leftover = {} /\ writes = 0

NoPicture == "none"
Part == "part"   \* what a write that broke off leaves

Requests == 1 .. Len(saves)
At(r, pc) == saves[r].pc = pc
Active(r) == saves[r].pc # "over"
Fault == diskErrors < MaxDiskErrors /\ diskErrors' = diskErrors + 1
SameName(f, g) == f.id = g.id /\ f.ts = g.ts
Name(f) == <<f.id, f.ts>>

-----------------------------------------------------------------------------
(* storage.go *)

\* processImage: within maxSize, decoded, scaled and encoded again.
ProcessImage(p) == p \notin Unreadable

\* Mutant: the id alone.
AvatarPrefix_IdOnly(id) == id

\* avatarPrefix: "{id}_".
AvatarPrefix(id) == id \o <<"_">>

\* deleteFiles, deleteByPrefix: files whose name begins with the prefix.
Listed(id) ==
  LET prefix == AvatarPrefix(id)
      Begins(name) == Len(prefix) <= Len(name) /\ SubSeq(name, 1, Len(prefix)) = prefix
  IN {f \in avatars : Begins(f.id \o <<"_">>)}

\* Find: the first entry in the order of names, if any.
Find(id) == {f \in Listed(id) : \A g \in Listed(id) : f.ts <= g.ts}

-----------------------------------------------------------------------------
(* Requests *)

Others(id) == {r \in Requests : Active(r) /\ saves[r].id = id}

Begin(req) ==
  /\ Len(saves) < MaxSaves /\ Cardinality({r \in Requests : Active(r)}) < MaxAtOnce
  /\ saves' = Append([r \in Requests |-> IF r \in Others(req.id) /\ req.pc # "over"
                                          THEN [saves[r] EXCEPT !.alone = FALSE] ELSE saves[r]],
                     req)
  /\ UNCHANGED <<avatars, second, late, diskErrors, settled, spoiled, suspect, leftover, writes>>

NewReq(id, p) ==
  [pc |-> "list", id |-> id, img |-> p, ts |-> 0, old |-> {}, alone |-> Others(id) = {}]

\* Upload, or handleUpload with id 0: a picture that passes processImage.
Upload(id, p) == ProcessImage(p) /\ Begin(NewReq(id, p))

\* An upload refused before the store is touched: no data, a wrong extension or
\* form, a picture too large or not decodable.
UploadRefused(id, p) == ~ ProcessImage(p) /\ Begin([pc |-> "over", id |-> id])

Delete(id) == Begin(NewReq(id, NoPicture))

\* deleteFiles: ReadDir (ListObjects) ...
List(r) ==
  /\ At(r, "list")
  /\ saves' = [saves EXCEPT ![r].pc = "remove", ![r].old = Listed(saves[r].id)]
  /\ UNCHANGED <<avatars, second, late, diskErrors, settled, spoiled, suspect, leftover, writes>>

Over(r) == saves' = [saves EXCEPT ![r] = [pc |-> "over", id |-> @.id]]

\* What the id must have once a request of its own is over, suspect names aside.
Settle(r, files) ==
  settled' = [settled EXCEPT ![saves[r].id] =
                IF saves[r].alone THEN {f \in files : Name(f) \notin suspect'} ELSE Unsettled]

Named(files) == {f \in avatars : \E g \in files : SameName(f, g)}

\* ... and Remove (RemoveObject) of each name; errors are dropped.  Delete ends
\* here; Save then forms the new name (avatarFilename).
RemoveFiles(r, kept) ==
  LET gone == Named(saves[r].old \ kept)
  IN /\ At(r, "remove")
     /\ kept \subseteq saves[r].old
     /\ IF kept = {} THEN UNCHANGED diskErrors ELSE Fault
     /\ avatars' = avatars \ gone
     /\ leftover' = (leftover \ gone) \cup Named(kept)
     /\ UNCHANGED <<second, late, suspect, writes>>
     /\ IF saves[r].img = NoPicture
        THEN Over(r) /\ Settle(r, kept) /\ spoiled' = spoiled \cup {saves[r].id}
        ELSE /\ saves' = [saves EXCEPT ![r].pc = "write", ![r].ts = second, ![r].old = kept]
             /\ UNCHANGED <<settled, spoiled>>

NewFile(r, img, n) == [id |-> saves[r].id, ts |-> saves[r].ts, img |-> img, nr |-> n]

\* A file replaces one with the same name.
Store(f) == avatars' = {g \in avatars : ~ SameName(g, f)} \cup {f} /\ writes' = writes + 1

\* Files an upload left alone, other than under its own name.
Kept(r) == {f \in saves[r].old : f.ts # saves[r].ts}

\* WriteFile (PutObject), and the answer with the name and the URL.
Write(r) ==
  LET f == NewFile(r, saves[r].img, writes + 1)
  IN /\ At(r, "write")
     /\ Store(f)
     /\ Over(r)
     /\ suspect' = IF saves[r].alone THEN suspect \ {Name(f)} ELSE suspect
     /\ Settle(r, {f} \cup Kept(r))
     /\ spoiled' = spoiled \ {saves[r].id}
     /\ UNCHANGED <<second, late, diskErrors, leftover>>

\* An upload that failed: the old picture is gone already.
Failed(r) ==
  /\ At(r, "write") /\ Fault
  /\ Over(r)
  /\ suspect' = suspect \cup {<<saves[r].id, saves[r].ts>>}
  /\ Settle(r, Kept(r))
  /\ spoiled' = spoiled \cup {saves[r].id}

\* The file is not written, or in part, or as a whole although an error is reported.
WriteFails(r) ==
  /\ Failed(r)
  /\ \/ \E img \in {Part, saves[r].img} : Store(NewFile(r, img, writes + 1))
     \/ UNCHANGED <<avatars, writes>>
  /\ UNCHANGED <<second, late, leftover>>

\* The deadline of PutObject passes while the object is on its way ...
PutTimesOut(r) ==
  /\ Failed(r)
  /\ saves[r].ts < second
  /\ late' = late \cup {NewFile(r, saves[r].img, 0)}
  /\ UNCHANGED <<avatars, second, leftover, writes>>

\* ... and it arrives.
LatePut(f) ==
  LET g == [f EXCEPT !.nr = writes + 1]
  IN /\ Store(g)
     /\ late' = late \ {f}
     /\ leftover' = leftover \cup {g}
     /\ UNCHANGED <<second, saves, diskErrors, settled, spoiled, suspect>>

Tick ==
  /\ second < MaxSecond
  /\ second' = second + 1
  /\ UNCHANGED <<avatars, saves, late, diskErrors, settled, spoiled, suspect, leftover, writes>>

\* The server starts again; writes that were under way have failed (WriteFails).
Restart ==
  LET busy == {id \in AvatarIds : Others(id) # {}}
  IN /\ \A r \in Requests : ~ At(r, "write")
     /\ Fault
     /\ saves' = [r \in Requests |-> [pc |-> "over", id |-> saves[r].id]]
     /\ settled' = [id \in AvatarIds |-> IF id \in busy THEN Unsettled ELSE settled[id]]
     /\ spoiled' = spoiled \cup busy
     /\ UNCHANGED <<avatars, second, late, suspect, leftover, writes>>

Step(r) ==
  \/ List(r) \/ Write(r) \/ WriteFails(r) \/ PutTimesOut(r)
  \/ \E kept \in SUBSET saves[r].old : RemoveFiles(r, kept)

Next ==
  \/ \E id \in AvatarIds : Delete(id) \/ \E p \in Pictures : Upload(id, p) \/ UploadRefused(id, p)
  \/ \E r \in Requests : Active(r) /\ Step(r)
  \/ \E f \in late : LatePut(f)
  \/ Tick \/ Restart

Spec == Init /\ [][Next]_avatarVars

-----------------------------------------------------------------------------
(* Properties *)

FilesOf(id) == {f \in avatars : f.id = id}

\* As long as requests for an id come one after another, the id has the file of
\* its last accepted upload and no other, whatever requests for other ids,
\* refused pictures and restarts in between do: except for files that could not
\* be removed, and what failed uploads left under their names.  A failed upload
\* leaves the id without its former picture (Save removes before it writes).
AvatarStands ==
  \A id \in AvatarIds :
    settled[id] # Unsettled /\ Others(id) = {} =>
      {f \in FilesOf(id) : Name(f) \notin suspect} = settled[id]

\* However uploads for an id overlap, Find still finds a picture when they are
\* over, unless one of them failed or a Delete was among them.
PictureRemains == \A id \in AvatarIds \ spoiled : Others(id) = {} => Find(id) # {}

\* Uploads at the same time can leave more than one file of an id, but never
\* more than there were at a time: files do not pile up (deleteFiles).
FilesDoNotPile ==
  \A id \in AvatarIds : Cardinality(FilesOf(id) \ leftover) <= MaxAtOnce

\* filestore.go and objectstore.go: an id has its last picture, and old ones go.
AvatarsSound ==
  /\ AvatarStands
  /\ PictureRemains
  /\ FilesDoNotPile
=============================================================================
