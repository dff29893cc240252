---------------------------- MODULE MCErrorMapping ----------------------------
(***************************************************************************)
(* Checks mapPsErrorToGocbError over every status the transport can hand   *)
(* it: each gRPC error code with no detail, an unknown detail, every       *)
(* precondition violation type (known, unknown, none), and every resource  *)
(* type (known and unknown), read-only or not.  The input is the state; it *)
(* never changes.                                                          *)
(***************************************************************************)
EXTENDS ErrorMapping

Codes ==
  {"Canceled", "Unknown", "InvalidArgument", "DeadlineExceeded", "NotFound",
   "AlreadyExists", "PermissionDenied", "ResourceExhausted", "FailedPrecondition",
   "Aborted", "OutOfRange", "Unimplemented", "Internal", "Unavailable", "DataLoss",
   "Unauthenticated"}

Details ==
  {[kind |-> "none", type |-> Nil], [kind |-> "other", type |-> Nil]}
  \cup {[kind |-> "precondition", type |-> t] :
          t \in PreconditionTypes \cup {"PATH_VALUE_OUT_OF_RANGE", Nil}}
  \cup {[kind |-> "resource", type |-> t] : t \in ResourceTypes \cup {"user"}}

VARIABLES isStatus, st, readOnly

vars == <<isStatus, st, readOnly>>

Init ==
  /\ isStatus \in BOOLEAN
  /\ st \in [code : Codes, detail : Details]
  /\ readOnly \in BOOLEAN

Next == UNCHANGED vars

Spec == Init /\ [][Next]_vars

Mapped == MapPsErrorToGocbError(isStatus, st, readOnly)

\* Reference: the status code and resource types each resource error
\* stands for.
ResourceErrorMeaning ==
  LET NF(ts) == [code |-> "NotFound", types |-> ts]
      EX(ts) == [code |-> "AlreadyExists", types |-> ts]
  IN ("ErrIndexNotFound" :> NF({"index", "searchindex"}))
     @@ ("ErrBucketNotFound" :> NF({"bucket"})) @@ ("ErrScopeNotFound" :> NF({"scope"}))
     @@ ("ErrCollectionNotFound" :> NF({"collection"})) @@ ("ErrPathNotFound" :> NF({"path"}))
     @@ ("ErrIndexExists" :> EX({"index", "searchindex"}))
     @@ ("ErrBucketExists" :> EX({"bucket"})) @@ ("ErrScopeExists" :> EX({"scope"}))
     @@ ("ErrCollectionExists" :> EX({"collection"})) @@ ("ErrPathExists" :> EX({"path"}))

\* Reference: the error a NotFound or AlreadyExists status whose first
\* detail is a ResourceInfo of a known type stands for.
MeantResourceError ==
  IF st.detail.type = "document"
    THEN IF st.code = "NotFound" THEN "ErrDocumentNotFound" ELSE "ErrDocumentExists"
    ELSE CHOOSE e \in DOMAIN ResourceErrorMeaning :
           /\ ResourceErrorMeaning[e].code = st.code
           /\ st.detail.type \in ResourceErrorMeaning[e].types

\* The resource switches of mapPsErrorStatusToGocbError (two 7-way
\* switches, one per code) report exactly the resource the status names:
\* a not-found or already-exists error for a bucket, scope, collection,
\* index or path only for a status with that code whose first detail is a
\* ResourceInfo naming that kind of resource, a document error only under
\* the matching code, and, conversely, every ResourceInfo of a known type
\* under NotFound or AlreadyExists gets its own resource's error rather
\* than the code's fallback.
ResourceErrorsMatchStatus ==
  /\ (isStatus /\ st.code \in {"NotFound", "AlreadyExists"}
        /\ st.detail.kind = "resource" /\ st.detail.type \in ResourceTypes)
       => Mapped.err = MeantResourceError
  /\ Mapped.err \in DOMAIN ResourceErrorMeaning =>
       /\ st.code = ResourceErrorMeaning[Mapped.err].code
       /\ st.detail.kind = "resource"
       /\ st.detail.type \in ResourceErrorMeaning[Mapped.err].types
  /\ Mapped.err = "ErrDocumentNotFound" => st.code = "NotFound"
  /\ Mapped.err = "ErrDocumentExists" => st.code = "AlreadyExists"
=============================================================================
