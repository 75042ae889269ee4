----------------------------- MODULE FileStore ------------------------------
(***************************************************************************)
(* pkg/filestore: an upload is two files, the binary file `<id>` and the   *)
(* JSON file `<id>.info`.  The offset is stored nowhere: it is the size of *)
(* the binary file.                                                        *)
(*                                                                         *)
(* The data of an upload is a client's file whose i-th byte is called i.   *)
(* Each operator is one system call's worth of change to the two files;    *)
(* whoever uses the store decides what happens between two of them.        *)
(***************************************************************************)
EXTENDS Integers, Sequences

CONSTANTS Uploads,
          NoFile,      \* the file does not exist
          Truncated    \* createFile has emptied `.info` and not yet written it

VARIABLES bin,         \* `<id>`: the stored bytes
          info         \* `<id>.info`: Size and SizeIsDeferred

InfoRecord == [size: Int, deferred: BOOLEAN]

StoreInit ==
  /\ bin = [u \in Uploads |-> NoFile]
  /\ info = [u \in Uploads |-> NoFile]

StoreTypeOK ==
  /\ bin \in [Uploads -> Seq(Nat) \cup {NoFile}]
  /\ info \in [Uploads -> InfoRecord \cup {NoFile, Truncated}]

(* NewUpload: the binary file first ... *)
CreateBin(u) ==
  /\ bin' = [bin EXCEPT ![u] = <<>>]
  /\ UNCHANGED info

(* ... then `.info`.  writeInfo truncates the file before it writes it,    *)
(* also when DeclareLength rewrites an existing one.                       *)
TruncateInfo(u) ==
  /\ info' = [info EXCEPT ![u] = Truncated]
  /\ UNCHANGED bin

WriteInfo(u, record) ==
  /\ info' = [info EXCEPT ![u] = record]
  /\ UNCHANGED bin

(* GetUpload: ErrNotFound if either file is missing, a JSON error if       *)
(* `.info` is truncated, else the record and the size of the binary file.  *)
Exists(u) == bin[u] # NoFile /\ info[u] # NoFile

Readable(u) == Exists(u) /\ info[u] # Truncated

(* Mutant: the offset is the index of the last byte. *)
GetUploadOffByOne(u) ==
  [size |-> info[u].size, deferred |-> info[u].deferred, offset |-> Len(bin[u]) - 1]

GetUpload(u) ==
  [size |-> info[u].size, deferred |-> info[u].deferred, offset |-> Len(bin[u])]

(* WriteChunk opens the existing binary file with O_APPEND, so the bytes   *)
(* go to its end, wherever the caller's offset points.                     *)
CanOpen(u) == bin[u] # NoFile

AppendByte(u, byte) ==
  /\ bin' = [bin EXCEPT ![u] = Append(@, byte)]
  /\ UNCHANGED info

(* Terminate: the binary file first, then `.info`; a missing file is fine. *)
RemoveBin(u) ==
  /\ bin' = [bin EXCEPT ![u] = NoFile]
  /\ UNCHANGED info

RemoveInfo(u) ==
  /\ info' = [info EXCEPT ![u] = NoFile]
  /\ UNCHANGED bin

=============================================================================
