------------------------------ MODULE Storage ------------------------------
(***************************************************************************)
(* A local disk and those who use it at the same time: avatar uploads, the *)
(* code that calls the Storage facade, and GET /storage, which reads what  *)
(* an upload has published.                                                *)
(*                                                                         *)
(* The file system is external.  fs.writeFile opens the file, which        *)
(* truncates it, and writes one chunk after the other; fs.readFile reads   *)
(* chunks up to the length it saw when it opened the file, if there was    *)
(* one, or up to the end.  A file that is deleted while it is open can     *)
(* still be written and read by those who have it open.                    *)
(*                                                                         *)
(* A path is the sequence of its segments after backslashes have become    *)
(* slashes and leading slashes are gone; a trailing slash is left out.     *)
(***************************************************************************)
EXTENDS Naturals, SequencesExt

CONSTANTS
  Callers,    (* requests and other calls; each is made once               *)
  Root,       (* the root of the disk, an absolute path                    *)
  Paths,      (* the paths that callers of the facade use                  *)
  Sizes,      (* lengths of contents, in chunks                            *)
  Failures    (* the failures that happen: subset of FailureKinds          *)

FailureKinds == {"disk", "crash"}

ASSUME StorageAssumption ==
  /\ Root \in Seq(STRING) \ {<<>>}
  /\ Paths \subseteq Seq(STRING)
  /\ {"none", "zeros"} \cap Callers = {}
  /\ Sizes \subseteq Nat
  /\ Failures \subseteq FailureKinds

VARIABLES
  dirs,     (* the directories below the root, and the root                *)
  files,    (* the file at each location: a function; a file is named      *)
            (* after the put that created it                               *)
  data,     (* who wrote each chunk of each file                           *)
  pc,       (* "idle", "directory", "open", "write", "read" or "done"      *)
  call,     (* what each caller asked for: operation, location, size; the  *)
            (* file it has open, chunks written, length seen, chunks read  *)
  result,   (* what it was told                                            *)
  torn      (* history: files whose last writers overlapped or failed      *)

vars == <<dirs, files, data, pc, call, result, torn>>

Results == {"none", "ok", "invalid", "rejected", "present", "absent", "error",
            "lost"}

Call(op, l, n, f, seen) ==
  [op |-> op, at |-> l, size |-> n, file |-> f, done |-> 0, seen |-> seen,
   got |-> <<>>]

Idle == Call("none", <<>>, 0, "none", 0)

Init ==
  /\ dirs = {}
  /\ files = <<>>
  /\ data = [c \in Callers |-> <<>>]
  /\ pc = [c \in Callers |-> "idle"]
  /\ call = [c \in Callers |-> Idle]
  /\ result = [c \in Callers |-> "none"]
  /\ torn = {}

-----------------------------------------------------------------------------
(* Paths.                                                                  *)

Walk(path, segment) ==
  IF segment \in {"", "."} THEN path
  ELSE IF segment = ".." /\ path # <<>> /\ Last(path) # ".." THEN Front(path)
  ELSE Append(path, segment)

Walked(from, segments) ==
  LET walk[n \in 0..Len(segments)] ==
        IF n = 0 THEN from ELSE Walk(walk[n - 1], segments[n])
  IN walk[Len(segments)]

(* path.posix.normalize *)
Normal == [p \in Paths |-> Walked(<<>>, p)]

(* Variant: the path is judged before it is normalized.                    *)
AdmissibleAsGiven(p) == p # <<>> /\ Head(p) # ".."

(* What normalizePath and absolutePath let pass.                           *)
Admissible(p) == Normal[p] # <<>> /\ Head(Normal[p]) # ".."

(* path.resolve *)
Location == [p \in Paths |-> Walked(Root, Normal[p])]

(* The directories that mkdir with "recursive" makes for a location.       *)
Above(l) == {SubSeq(l, 1, n) : n \in Len(Root)..(Len(l) - 1)}

-----------------------------------------------------------------------------

Goto(c, from, to) ==
  /\ pc[c] = from
  /\ pc' = [pc EXCEPT ![c] = to]

Answer(c, from, a) ==
  /\ Goto(c, from, "done")
  /\ result' = [result EXCEPT ![c] = a]

Ask(c, op, l, n) == call' = [call EXCEPT ![c] = Call(op, l, n, "none", 0)]

(* store gives a file a random name, which here is the request, and        *)
(* storeAs joins it to the directory.                                      *)
UploadLocation(name) == Root \o <<"avatars", name>>

(* The names are random UUIDs: no caller of the facade means the file of   *)
(* an upload, though it may use the directory of the uploads as it likes.  *)
ASSUME NamesAreRandom ==
  \A p \in Paths, c \in Callers : Admissible(p) => Location[p] # UploadLocation(c)

(* POST /uploads/avatar: parsed, validated and then stored.                *)
Upload(c) ==
  /\ \E n \in Sizes : Ask(c, "upload", UploadLocation(c), n)
  /\ \/ Goto(c, "idle", "directory") /\ UNCHANGED result
     \/ Answer(c, "idle", "invalid")
  /\ UNCHANGED <<dirs, files, data, torn>>

Put(c) ==
  /\ \E p \in Paths, n \in Sizes : Admissible(p) /\ Ask(c, "put", Location[p], n)
  /\ Goto(c, "idle", "directory")
  /\ UNCHANGED <<dirs, files, data, result, torn>>

(* PathTraversalException, from put, get and delete.                       *)
Reject(c) ==
  /\ \E p \in Paths : ~Admissible(p)
  /\ Answer(c, "idle", "rejected")
  /\ UNCHANGED <<dirs, files, data, call, torn>>

(* exists finds files and directories; any error, also that exception, is  *)
(* "absent".                                                               *)
Exists(c) ==
  /\ \E p \in Paths :
       Answer(c, "idle",
              IF Admissible(p) /\ Location[p] \in dirs \cup DOMAIN files
              THEN "present" ELSE "absent")
  /\ UNCHANGED <<dirs, files, data, call, torn>>

(* mkdir fails where a file is in the way.                                 *)
MakeDirectory(c) ==
  LET above == Above(call[c].at) IN
  /\ \/ /\ above \cap DOMAIN files = {}
        /\ dirs' = dirs \cup above
        /\ Goto(c, "directory", "open")
        /\ UNCHANGED result
     \/ /\ above \cap DOMAIN files # {}
        /\ Answer(c, "directory", "error")
        /\ UNCHANGED dirs
  /\ UNCHANGED <<files, data, call, torn>>

Writers(f) == {c \in Callers : pc[c] = "write" /\ call[c].file = f}

(* The file that a put to this location opens, an old one or a new one.    *)
FileAt(c) ==
  IF call[c].at \in DOMAIN files THEN files[call[c].at] ELSE c

(* Variant: what was in the file stays there until it is overwritten.      *)
OpenUntruncated(c) ==
  LET l == call[c].at f == FileAt(c) IN
  /\ l \notin dirs
  /\ Goto(c, "open", "write")
  /\ files' = [k \in DOMAIN files \cup {l} |-> IF k = l THEN f ELSE files[k]]
  /\ torn' = IF Writers(f) = {} THEN torn \ {f} ELSE torn \cup {f}
  /\ call' = [call EXCEPT ![c].file = f]
  /\ UNCHANGED <<dirs, data, result>>

Open(c) ==
  LET l == call[c].at f == FileAt(c) IN
  /\ \/ /\ l \notin dirs
        /\ Goto(c, "open", "write")
        /\ files' = [k \in DOMAIN files \cup {l} |->
                       IF k = l THEN f ELSE files[k]]
        /\ data' = [data EXCEPT ![f] = <<>>]
        /\ torn' = IF Writers(f) = {} THEN torn \ {f} ELSE torn \cup {f}
        /\ call' = [call EXCEPT ![c].file = f]
        /\ UNCHANGED result
     \/ /\ l \in dirs
        /\ Answer(c, "open", "error")
        /\ UNCHANGED <<files, data, torn, call>>
  /\ UNCHANGED dirs

(* The next chunk goes to its place in the file, which another writer may  *)
(* have truncated; the gap reads as zeros, which nobody wrote.             *)
WriteAt(s, k, c) ==
  [n \in 1..(IF k > Len(s) THEN k ELSE Len(s)) |->
     IF n = k THEN c ELSE IF n <= Len(s) THEN s[n] ELSE "zeros"]

Write(c) ==
  LET k == call[c].done + 1 f == call[c].file IN
  /\ pc[c] = "write"
  /\ k <= call[c].size
  /\ data' = [data EXCEPT ![f] = WriteAt(@, k, c)]
  /\ call' = [call EXCEPT ![c].done = k]
  /\ UNCHANGED <<dirs, files, pc, result, torn>>

(* Variant: the answer does not wait for the last chunk.                   *)
CloseEarly(c) ==
  /\ Answer(c, "write", "ok")
  /\ UNCHANGED <<dirs, files, data, call, torn>>

(* The put returns, and an upload answers 201 with the URL of its file.    *)
Close(c) ==
  /\ call[c].done = call[c].size
  /\ Answer(c, "write", "ok")
  /\ UNCHANGED <<dirs, files, data, call, torn>>

-----------------------------------------------------------------------------
(* get and delete.  A published file is read by its URL.                   *)

Published == {u \in Callers : call[u].op = "upload" /\ result[u] = "ok"}

OpenToRead(c, l) ==
  /\ \/ /\ l \in DOMAIN files
        /\ Goto(c, "idle", "read")
        /\ call' = [call EXCEPT ![c] =
                      Call("get", l, 0, files[l], Len(data[files[l]]))]
        /\ UNCHANGED result
     \/ /\ l \notin DOMAIN files
        /\ Ask(c, "get", l, 0)
        /\ Answer(c, "idle", "error")
  /\ UNCHANGED <<dirs, files, data, torn>>

Get(c) ==
  \/ \E p \in Paths : Admissible(p) /\ OpenToRead(c, Location[p])
  \/ \E u \in Published : OpenToRead(c, call[u].at)

ReadChunk(c) ==
  LET n == Len(call[c].got) s == data[call[c].file] IN
  /\ pc[c] = "read"
  /\ n < Len(s) /\ (call[c].seen = 0 \/ n < call[c].seen)
  /\ call' = [call EXCEPT ![c].got = Append(@, s[n + 1])]
  /\ UNCHANGED <<dirs, files, data, pc, result, torn>>

EndOfFile(c) ==
  LET n == Len(call[c].got) IN
  /\ Answer(c, "read", "ok")
  /\ n >= Len(data[call[c].file]) \/ (call[c].seen > 0 /\ n = call[c].seen)
  /\ UNCHANGED <<dirs, files, data, call, torn>>

(* unlink; a file that is not there is not an error, a path through a file *)
(* and a directory are.                                                    *)
Delete(c) ==
  /\ \E p \in Paths :
       LET l == Location[p] IN
       /\ Admissible(p)
       /\ Ask(c, "delete", l, 0)
       /\ files' = [k \in DOMAIN files \ {l} |-> files[k]]
       /\ Answer(c, "idle", IF l \in dirs \/ Above(l) \cap DOMAIN files # {}
                            THEN "error" ELSE "ok")
  /\ UNCHANGED <<dirs, data, torn>>

-----------------------------------------------------------------------------

(* The disk is full, or no file can be opened.  What was written stays.    *)
DiskFails(c) ==
  /\ "disk" \in Failures
  /\ pc[c] \in {"directory", "open", "write"}
  /\ Answer(c, pc[c], "error")
  /\ torn' = IF pc[c] = "write" THEN torn \cup {call[c].file} ELSE torn
  /\ UNCHANGED <<dirs, files, data, call>>

InFlight == {c \in Callers : pc[c] \notin {"idle", "done"}}

Crash ==
  /\ "crash" \in Failures
  /\ InFlight # {}
  /\ pc' = [c \in Callers |-> IF c \in InFlight THEN "done" ELSE pc[c]]
  /\ result' = [c \in Callers |-> IF c \in InFlight THEN "lost" ELSE result[c]]
  /\ torn' = torn \cup {f \in Callers : Writers(f) # {}}
  /\ UNCHANGED <<dirs, files, data, call>>

Next ==
  \/ \E c \in Callers :
       \/ Upload(c) \/ Put(c) \/ Reject(c) \/ Exists(c)
       \/ MakeDirectory(c) \/ Open(c) \/ Write(c) \/ Close(c) \/ DiskFails(c)
       \/ Get(c) \/ ReadChunk(c) \/ EndOfFile(c)
       \/ Delete(c)
  \/ Crash

Spec == Init /\ [][Next]_vars

-----------------------------------------------------------------------------
(* Properties.                                                             *)

Whole(c) == [k \in 1..call[c].size |-> c]

(* Every variable has its type.                                            *)
TypeOK ==
  /\ \A l \in DOMAIN files : files[l] \in Callers
  /\ \A c \in Callers :
       /\ data[c] \in Seq(Callers \cup {"zeros"})
       /\ pc[c] \in {"idle", "directory", "open", "write", "read", "done"}
       /\ call[c].op \in {"none", "upload", "put", "get", "delete"}
       /\ call[c].done \in 0..call[c].size
       /\ pc[c] \in {"write", "read"} => call[c].file \in Callers
       /\ result[c] \in Results
  /\ torn \subseteq Callers

(* Whatever paths its callers use, with dots, doubled slashes or without,  *)
(* the disk makes nothing outside its root: a path is judged as it will be *)
(* resolved.  Callers that race leave a tree: no name is both a file and a *)
(* directory, and every file lies in directories that exist.               *)
FilesStayBelowRoot ==
  /\ \A l \in dirs \cup DOMAIN files : IsPrefix(Root, l)
  /\ DOMAIN files \cap dirs = {}
  /\ \A l \in DOMAIN files : Above(l) \subseteq dirs

(* The file of an upload that was answered 201 is stored, whole: no put,   *)
(* deletion or upload beside it, finished or not, touches it, and whoever  *)
(* reads it by its URL gets the whole of it.  This rests on NamesAreRandom *)
(* for the calls that would name the very file.                            *)
UploadsAreWhole ==
  \A u \in Published :
    /\ call[u].at \in DOMAIN files /\ data[files[call[u].at]] = Whole(u)
    /\ \A c \in Callers :
         call[c].op = "get" /\ call[c].at = call[u].at =>
           /\ result[c] # "error"
           /\ result[c] = "ok" => call[c].got = Whole(u)

(* A file that nobody is writing, and whose last writer neither overlapped *)
(* with another nor failed, is what one successful put or upload wrote:    *)
(* nothing of what was there before shines through.                        *)
UntornFilesAreWhole ==
  \A l \in DOMAIN files :
    LET f == files[l] IN
    f \notin torn /\ Writers(f) = {} =>
      \E c \in Callers : /\ call[c].op \in {"upload", "put"}
                         /\ call[c].file = f /\ result[c] = "ok"
                         /\ data[f] = Whole(c)

=============================================================================
