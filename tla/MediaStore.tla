----------------------------- MODULE MediaStore -----------------------------
(***************************************************************************)
(* GoMediaServer: handleUpload over storage.FileStore or ObjectStore, and  *)
(* the static files it serves.  Chat media is "unique and permanent"       *)
(* (storage.go): never overwritten, never deleted, found again after a     *)
(* restart.  The names rest on chance: two uploads of one nanosecond are   *)
(* taken to draw different random parts.                                   *)
(*                                                                         *)
(* A file is written in two steps, created and filled, so that two writers *)
(* of one name, and a restart between the steps, are seen.                 *)
(*                                                                         *)
(* History variable: links.                                                *)
(***************************************************************************)
EXTENDS Integers, Sequences, FiniteSets

CONSTANTS
  WorkDirs,     \* directories the server may be started from
  ExeDir,       \* where its executable is
  AbsoluteDir,  \* MediaDir when it is configured as an absolute path, or the bucket
  Randoms,      \* values of the random part of a name
  MaxBytes,     \* maxSizeMB
  Bodies,       \* sizes of uploaded bodies
  MaxMedia,     \* bound: uploads
  MaxNano,      \* bound: the clock
  MaxMediaErrors \* bound: failing writes and restarts

VARIABLES
  relative,    \* MediaDir is configured as a relative path
  workDir,     \* directory the process was started from
  told,        \* os.Executable answered at this start
  mediaFiles,  \* name to content, for each directory
  nano,        \* time.Now().UnixNano()
  puts,        \* the uploads so far
  mediaErrors, \* faults so far
  links        \* history: files whose names were handed out, and where they were stored

mediaVars == <<relative, workDir, told, mediaFiles, nano, puts, mediaErrors, links>>

Dirs == WorkDirs \cup {ExeDir, AbsoluteDir}
Puts == 1 .. Len(puts)
Fault == mediaErrors < MaxMediaErrors /\ mediaErrors' = mediaErrors + 1

Init ==
  /\ relative \in BOOLEAN
  /\ workDir \in WorkDirs
  /\ told \in BOOLEAN
  /\ mediaFiles = [d \in Dirs |-> {}]
  /\ nano = 1 /\ puts = <<>> /\ mediaErrors = 0 /\ links = {}

\* resolveDir: a relative path is taken from the executable's directory, or from
\* the working directory when os.Executable cannot tell it.
ResolveDir == IF ~ relative THEN AbsoluteDir ELSE IF told THEN ExeDir ELSE workDir

\* uniqueFilename: the time, a random part, and the extension, which sanitizeExt
\* turns into bin unless it is listed.
UniqueFilename(rand, ext) == <<nano, rand, IF ext = "mp3" THEN ext ELSE "bin">>

\* Six random bytes: two draws within a nanosecond are taken to differ.
Draws(rand) == \A u \in Puts : puts[u].name[1] = nano => puts[u].name[2] # rand

\* len(data) <= maxBytes
Fits(n) == n <= MaxBytes

\* handleUpload: a form, a file in it, within the limit.
HandleUpload(size, ext, rand) ==
  /\ Len(puts) < MaxMedia /\ Fits(size) /\ Draws(rand)
  /\ puts' = Append(puts, [pc |-> "create", name |-> UniqueFilename(rand, ext), size |-> size])
  /\ UNCHANGED <<relative, workDir, told, mediaFiles, nano, mediaErrors, links>>

File(u, body) == [name |-> puts[u].name, body |-> body]
Whole(u) == File(u, <<u, puts[u].size>>)

\* The file takes the place of one with its name.
Put(f) ==
  mediaFiles' = [mediaFiles EXCEPT ![ResolveDir] = {g \in @ : g.name # f.name} \cup {f}]

\* WriteFile opens and truncates (PutObject begins) ...
Create(u) ==
  /\ puts[u].pc = "create"
  /\ Put(File(u, <<>>))
  /\ puts' = [puts EXCEPT ![u].pc = "fill"]
  /\ UNCHANGED <<relative, workDir, told, nano, mediaErrors, links>>

\* ... writes, and the answer carries the name and the URL.
Fill(u) ==
  /\ puts[u].pc = "fill"
  /\ Put(Whole(u))
  /\ puts' = [puts EXCEPT ![u].pc = "over"]
  /\ links' = links \cup {[file |-> Whole(u), dir |-> ResolveDir, told |-> told]}
  /\ UNCHANGED <<relative, workDir, told, nano, mediaErrors>>

\* code 2: no URL is handed out, whatever has been written; an object may still
\* be on its way.
WriteFails(u) ==
  /\ puts[u].pc \in {"create", "fill"} /\ Fault
  /\ \/ puts' = [puts EXCEPT ![u].pc = "over"] /\ (UNCHANGED mediaFiles \/ Put(Whole(u)))
     \/ ~ relative /\ puts' = [puts EXCEPT ![u].pc = "late"] /\ UNCHANGED mediaFiles
  /\ UNCHANGED <<relative, workDir, told, nano, links>>

\* PutObject gave up at its deadline, and the object arrives.
LatePut(u) ==
  /\ puts[u].pc = "late"
  /\ Put(Whole(u))
  /\ puts' = [puts EXCEPT ![u].pc = "over"]
  /\ UNCHANGED <<relative, workDir, told, nano, mediaErrors, links>>

Tick ==
  /\ nano < MaxNano
  /\ nano' = nano + 1
  /\ UNCHANGED <<relative, workDir, told, mediaFiles, puts, mediaErrors, links>>

\* The server is started again, from any directory.
Restart ==
  /\ Fault
  /\ workDir' \in WorkDirs
  /\ told' \in BOOLEAN
  /\ puts' = [u \in Puts |-> [puts[u] EXCEPT !.pc = IF @ = "late" THEN @ ELSE "over"]]
  /\ UNCHANGED <<relative, mediaFiles, nano, links>>

Next ==
  \/ \E n \in Bodies, ext \in {"mp3", "exe"}, rand \in Randoms : HandleUpload(n, ext, rand)
  \/ \E u \in Puts : Create(u) \/ Fill(u) \/ WriteFails(u) \/ LatePut(u)
  \/ Tick \/ Restart

Spec == Init /\ [][Next]_mediaVars

-----------------------------------------------------------------------------
(* Properties *)

\* A medium whose link was handed out stays where it was stored, with its own
\* upload's bytes: no later, simultaneous, failed or late upload and no restart
\* takes them away.  And that is where the server looks for it now, from whatever
\* directory it was started: unless the path is relative and os.Executable failed
\* at this start or at the one that stored it, when resolveDir takes another.
MediaIsPermanent ==
  \A l \in links :
    /\ l.file \in mediaFiles[l.dir]
    /\ ~ relative \/ (told /\ l.told) => l.dir = ResolveDir
=============================================================================
