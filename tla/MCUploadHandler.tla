-------------------------- MODULE MCUploadHandler ---------------------------
(***************************************************************************)
(* The requests that the runs of UploadHandler combine: every request of a *)
(* run may be any of these.                                                *)
(***************************************************************************)
EXTENDS UploadHandler, TLC

Blank == [method |-> "HEAD", length |-> -1, offset |-> 0, contentLength |-> -1,
          sends |-> 0, chunk |-> FALSE, complete |-> FALSE]

HeadRequest == Blank
GetRequest == [Blank EXCEPT !.method = "GET"]
DeleteRequest == [Blank EXCEPT !.method = "DELETE"]

(* POST with Upload-Length, or with Upload-Defer-Length (-1). *)
Post(length) == [Blank EXCEPT !.method = "POST", !.length = length]

(* POST with Upload-Length and data (creation-with-upload). *)
PostData(length, sends) ==
  [Post(length) EXCEPT !.chunk = TRUE, !.sends = sends, !.contentLength = sends]

(* POST and PATCH of the IETF draft, chunked. *)
PostV2(length, sends, complete) ==
  [Post(length) EXCEPT !.method = "POSTV2", !.chunk = TRUE, !.sends = sends, !.complete = complete]

(* PATCH without Content-Length. *)
Patch(offset, sends) ==
  [Blank EXCEPT !.method = "PATCH", !.offset = offset, !.sends = sends]

(* PATCH with Upload-Length. *)
PatchLength(offset, sends, length) == [Patch(offset, sends) EXCEPT !.length = length]

(* The request says how many bytes it carries. *)
Sized(i, contentLength) == [i EXCEPT !.contentLength = contentLength]

Completing(i) == [i EXCEPT !.complete = TRUE]

V1Inputs ==
  {HeadRequest, GetRequest, DeleteRequest, Post(0), Post(2), Post(-1), PostData(2, 1), Patch(0, 2),
   Patch(1, 1), Patch(1, 2), Sized(Patch(0, 1), 2), PatchLength(1, 1, 2), PatchLength(1, 0, 1)}

(* The PATCH that declares the offset already reached as the length, with  *)
(* a Content-Length: the upload is complete before the body is refused.    *)
LateLength == Sized(PatchLength(1, 1, 1), 1)

(* For liveness; with NotifyCreated also requests to an upload whose POST  *)
(* is still under way.                                                     *)
LiveInputs ==
  {DeleteRequest, GetRequest, PostData(0, 0), PostData(1, 1), PostV2(-1, 1, TRUE),
   PostV2(-1, 1, FALSE), PatchLength(1, 1, 2), LateLength}

(* The POST of the draft names the URL before it has the lock. *)
DraftInputs == {PostV2(2, 1, FALSE), Patch(0, 1)}

Symmetry == Permutations(Callers)
=============================================================================
