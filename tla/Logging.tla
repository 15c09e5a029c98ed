------------------------------- MODULE Logging -------------------------------
(***************************************************************************)
(* The level that server/standard/server.go logs the end of a call at.        *)
(***************************************************************************)
EXTENDS Naturals

Levels == {"debug", "info", "error"}

Codes == {"OK", "Canceled", "Unknown", "InvalidArgument", "DeadlineExceeded", "NotFound",
          "AlreadyExists", "PermissionDenied", "Unauthenticated", "ResourceExhausted",
          "FailedPrecondition", "Aborted", "OutOfRange", "Unimplemented", "Internal",
          "Unavailable", "DataLoss"}

Infos == {"DeadlineExceeded", "ResourceExhausted", "FailedPrecondition", "Aborted", "OutOfRange",
          "Unavailable"}

LevelOf(code, debugs, infos) ==
    CASE code \in debugs -> "debug" [] code \in infos -> "info" [] OTHER -> "error"

NormalVerbosity(code) ==
    LevelOf(code,
            {"OK", "Canceled", "InvalidArgument", "NotFound", "PermissionDenied", "Unauthenticated"},
            Infos \cup {"AlreadyExists"})

LessVerbosity(code) ==
    LevelOf(code,
            {"OK", "Canceled", "Unknown", "InvalidArgument", "NotFound", "AlreadyExists",
             "Unauthenticated"},
            Infos \cup {"PermissionDenied"})

\* defaultServerCodeLevel.
CodeLevel(verbosity, code) ==
    IF verbosity <= 2 THEN LessVerbosity(code) ELSE NormalVerbosity(code)
=============================================================================
