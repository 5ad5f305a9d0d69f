---------------------------- MODULE ErrorMapping ----------------------------
(***************************************************************************)
(* From an error of the core, or of the bindings, to the exception that an *)
(* application catches.  The bindings copy a core error into a dictionary  *)
(* (the details of a CoreColumnarError), ErrorMapper picks a class by the  *)
(* code it finds there, and QueryError reads the server's code.            *)
(*                                                                         *)
(* A core error has the category of its std::error_code, the code's value  *)
(* and, when the server answered, the server's code and message (server).  *)
(* Texts are left out.                                                     *)
(***************************************************************************)
EXTENDS Dictionaries, Integers

\* columnar::client_errc and columnar::errc of the core.
Canceled == 1
InvalidArgument == 2
ClusterClosed == 3
Generic == 1
InvalidCredential == 2
Timeout == 3
QueryFailed == 4

\* CoreClientErrors of the bindings.
VALUE == 1
RUNTIME == 2
CANCELED == 3
INTERNAL_SDK == 4

NoServerError == 0

\* ColumnarError and its subclasses, and what else a core error can become.
ColumnarErrors == {"ColumnarError", "InvalidCredentialError", "TimeoutError", "QueryError"}
ClientErrors == {"ValueError", "RuntimeError", "QueryOperationCanceledError",
                 "InternalSDKError"}

-----------------------------------------------------------------------------
(* The bindings.                                                            *)

\* pycbcc_build_error_details of a core error: the category tells client errors
\* from the others, and is then forgotten.
Properties(err) ==
    IF err.category = "columnar" /\ err.code = QueryFailed /\ err.server # NoServerError
    THEN [properties |-> err.server] ELSE <<>>

ErrorDetails(err) ==
    (IF err.category = "client"
     THEN CASE err.code = Canceled -> [client_error_code |-> CANCELED]
            [] err.code = ClusterClosed -> [client_error_code |-> RUNTIME]
            [] err.code = InvalidArgument -> [client_error_code |-> VALUE]
     ELSE [core_error_code |-> err.code])
    ++ Properties(err)

\* pycbcc_build_error_details of the bindings' own errors.
ClientErrorDetails(code) == [client_error_code |-> code]

\* Both kinds become a CoreColumnarError, as a value (pycbcc_build_exception) or
\* raised (pycbcc_set_python_exception).
CoreColumnarError(details) == [class |-> "CoreColumnarError", details |-> details]
BuildException(err) == CoreColumnarError(ErrorDetails(err))

\* Any other Python exception, the bindings' pending ones among them.
PythonException(class) == [class |-> class, details |-> <<>>]

-----------------------------------------------------------------------------
(* ErrorMapper.                                                             *)

CoreErrorMap == <<"ColumnarError", "InvalidCredentialError", "TimeoutError", "QueryError">>
ClientErrorMap ==
    <<"ValueError", "RuntimeError", "QueryOperationCanceledError", "InternalSDKError">>

\* error_properties of a CoreColumnarError, of which the code counts.
ErrorProperties(details) == Get(details, "properties", NoServerError)

\* QueryError.__init__ reads the properties of the error it is based on.
Exception(class, details) ==
    [class |-> class,
     code |-> IF class = "QueryError" THEN ErrorProperties(details) ELSE NoServerError]

CoreClass_NoAuth(code) == IF code \in DOMAIN CoreErrorMap THEN CoreErrorMap[code] ELSE "ColumnarError"

\* 6 is the authentication failure of another category of the core.
CoreClass(code) ==
    IF code = 6 THEN CoreErrorMap[2]
    ELSE IF code \in DOMAIN CoreErrorMap THEN CoreErrorMap[code] ELSE "ColumnarError"

ClientClass(code) ==
    IF code \in DOMAIN ClientErrorMap THEN ClientErrorMap[code] ELSE "InternalSDKError"

BuildError(exc) ==
    IF "client_error_code" \in DOMAIN exc.details
    THEN Exception(ClientClass(exc.details.client_error_code), <<>>)
    ELSE IF "core_error_code" \in DOMAIN exc.details
    THEN Exception(CoreClass(exc.details.core_error_code), exc.details)
    ELSE Exception("ColumnarError", exc.details)

\* The except clauses of submit_query, around the call into the bindings.
FromBindings(exc) ==
    IF exc.class = "CoreColumnarError" THEN BuildError(exc)
    ELSE Exception("InternalSDKError", <<>>)

Wrapped_Passes(exc) == Exception(exc.class, <<>>)

\* BlockingWrapper lets columnar and internal errors pass and wraps the others, ...
Wrapped(exc) ==
    IF exc.class \in ColumnarErrors \cup {"InternalSDKError"} THEN exc
    ELSE Exception("InternalSDKError", <<>>)

\* ... AsyncWrapper wraps an internal error once more.
AsyncWrapped(exc) ==
    IF exc.class \in ColumnarErrors THEN exc ELSE Exception("InternalSDKError", <<>>)
=============================================================================
