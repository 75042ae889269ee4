---------------------------- MODULE UploadStore -----------------------------
(***************************************************************************)
(* What a data store promises for one upload (pkg/handler/datastore.go):   *)
(* the stored data is a prefix of the client's file and only grows, by the *)
(* bytes that come next; finishing an upload changes none of them; only a  *)
(* termination takes them away.  No request, failed call or crash may do   *)
(* anything else.                                                          *)
(***************************************************************************)
EXTENDS Integers, Sequences

VARIABLES phase,       \* "none", "open", "finished" or "gone"
          data         \* the stored bytes; byte k of the client's file is k

storeVars == <<phase, data>>

StoreInit == phase = "none" /\ data = <<>>

NewUpload ==
  /\ phase \in {"none", "gone"}
  /\ phase' = "open" /\ data' = <<>>

WriteChunk ==
  /\ phase = "open"
  /\ Len(data') > Len(data)
  /\ data' = [k \in 1..Len(data') |-> k]
  /\ UNCHANGED phase

FinishUpload ==
  /\ phase = "open"
  /\ phase' = "finished"
  /\ UNCHANGED data

Terminate ==
  /\ phase \in {"open", "finished"}
  /\ phase' = "gone" /\ data' = <<>>

StoreNext == NewUpload \/ WriteChunk \/ FinishUpload \/ Terminate

StoreSpec == StoreInit /\ [][StoreNext]_storeVars
=============================================================================
