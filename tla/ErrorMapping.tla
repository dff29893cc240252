---------------------------- MODULE ErrorMapping ----------------------------
(***************************************************************************)
(* mapPsErrorToGocbError (src/error_ps.go): a gRPC status from the         *)
(* protostellar transport becomes a gocb error.  The first detail of the   *)
(* status is tried first: a PreconditionFailure maps by the type of its    *)
(* first violation, a ResourceInfo by its resource type under NotFound or  *)
(* AlreadyExists.  Otherwise the status code decides.  Errors are named by *)
(* their gocb sentinel; wrapError keeps the sentinel, so it is not shown.  *)
(***************************************************************************)
EXTENDS TLC

Nil == "nil"

\* The precondition violation types and resource types the mapping knows.
PreconditionTypes ==
  {"CAS", "LOCKED", "PATH_MISMATCH", "DOC_NOT_JSON", "DOC_TOO_DEEP",
   "WOULD_INVALIDATE_JSON"}
ResourceTypes ==
  {"document", "index", "bucket", "scope", "collection", "path", "searchindex"}

\* The switch on the first violation's type.
PreconditionError ==
  ("CAS" :> "ErrCasMismatch") @@ ("LOCKED" :> "ErrDocumentLocked")
  @@ ("PATH_MISMATCH" :> "ErrPathMismatch") @@ ("DOC_NOT_JSON" :> "ErrDocumentNotJSON")
  @@ ("DOC_TOO_DEEP" :> "ErrValueTooDeep") @@ ("WOULD_INVALIDATE_JSON" :> "ErrValueInvalid")

\* A NotFound table missing its path case, which then falls back to the
\* code's ErrDocumentNotFound.
NotFoundErrorMissingPath ==
  [document |-> "ErrDocumentNotFound", index |-> "ErrIndexNotFound",
   searchindex |-> "ErrIndexNotFound", bucket |-> "ErrBucketNotFound",
   scope |-> "ErrScopeNotFound", collection |-> "ErrCollectionNotFound",
   path |-> "ErrDocumentNotFound"]

\* The switches on the resource type under NotFound and AlreadyExists.
NotFoundError ==
  [document |-> "ErrDocumentNotFound", index |-> "ErrIndexNotFound",
   searchindex |-> "ErrIndexNotFound", bucket |-> "ErrBucketNotFound",
   scope |-> "ErrScopeNotFound", collection |-> "ErrCollectionNotFound",
   path |-> "ErrPathNotFound"]
ExistsError ==
  [document |-> "ErrDocumentExists", index |-> "ErrIndexExists",
   searchindex |-> "ErrIndexExists", bucket |-> "ErrBucketExists",
   scope |-> "ErrScopeExists", collection |-> "ErrCollectionExists",
   path |-> "ErrPathExists"]

\* The error the first detail gives, or Nil.  A status is a record
\* [code, detail]; detail.kind is "none" (no details), "precondition",
\* "resource" or "other", with detail.type the first violation's type
\* (Nil when there is none) or the resource type.
DetailError(st) ==
  LET d == st.detail IN
  CASE d.kind = "precondition" /\ d.type \in PreconditionTypes -> PreconditionError[d.type]
    [] d.kind = "resource" /\ st.code = "NotFound" /\ d.type \in ResourceTypes ->
         NotFoundError[d.type]
    [] d.kind = "resource" /\ st.code = "AlreadyExists" /\ d.type \in ResourceTypes ->
         ExistsError[d.type]
    [] OTHER -> Nil

\* A timeout that timed out reading versus one that may have written.
TimeoutError(readOnly) ==
  IF readOnly THEN "ErrUnambiguousTimeout" ELSE "ErrAmbiguousTimeout"

\* The switch on the status code; "st.Err()" for any other code.
CodeError(st, readOnly) ==
  CASE st.code = "Canceled" -> "ErrRequestCanceled"
    [] st.code \in {"Aborted", "Unknown", "Internal"} -> "ErrInternalServerFailure"
    [] st.code \in {"OutOfRange", "InvalidArgument"} -> "ErrInvalidArgument"
    [] st.code = "DeadlineExceeded" -> TimeoutError(readOnly)
    [] st.code = "NotFound" -> "ErrDocumentNotFound"
    [] st.code = "AlreadyExists" -> "ErrDocumentExists"
    [] st.code \in {"Unauthenticated", "PermissionDenied"} -> "ErrAuthenticationFailure"
    [] st.code = "Unimplemented" -> "ErrFeatureNotAvailable"
    [] st.code = "Unavailable" -> "ErrServiceNotAvailable"
    [] OTHER -> "st.Err()"

\* mapPsErrorStatusToGocbError: the error, and whether the context records
\* a resource (it does for every ResourceInfo detail, mapped or not).
MapPsErrorStatusToGocbError(st, readOnly) ==
  [err |-> IF DetailError(st) # Nil THEN DetailError(st) ELSE CodeError(st, readOnly),
   resource |-> st.detail.kind = "resource"]

\* mapPsErrorToGocbError: an error that is not a status is wrapped as is.
MapPsErrorToGocbError(isStatus, st, readOnly) ==
  IF isStatus THEN MapPsErrorStatusToGocbError(st, readOnly)
  ELSE [err |-> "err", resource |-> FALSE]
=============================================================================
