-------------------------------- MODULE InitArgs --------------------------------
(* prepareInitArgs (config_validate.go): what Init works with, from its        *)
(* arguments, the environment variables and the defaults.  An argument is a    *)
(* member of a small set; WellFormed are those url.ParseRequestURI takes,      *)
(* LogLevels those logrus.ParseLevel takes.                                    *)
CONSTANTS Empty,       \* the empty string
          DefaultURL,  \* by URL argument, its default
          WellFormed, LogLevels

URLs == DOMAIN DefaultURL
Keys == URLs \cup {"APIKey", "LogLevel"}

ASSUME EmptyAssumption == Empty \notin WellFormed /\ Empty \notin LogLevels

--------------------------------------------------------------------------------
EnvOrVar(args, env, k) == IF env[k] = Empty THEN args[k] ELSE env[k]  \* fault: the environment first

GetVarOrEnv(args, env, k) == IF args[k] = Empty THEN env[k] ELSE args[k]

(* validateURL: an empty URL is replaced by its default, which is not parsed.  *)
Valid(url) == url = Empty \/ url \in WellFormed

(* populateURL: the URL in force, followed by the API key.                     *)
PopulateURL(args, env, k) ==
  LET url == GetVarOrEnv(args, env, k)
  IN  <<IF url = Empty THEN DefaultURL[k] ELSE url, GetVarOrEnv(args, env, "APIKey")>>

(* A malformed URL panics inside populateURL; the deferred recover turns that  *)
(* into the error, without arguments and before the log level is set.  An      *)
(* empty API key or an unknown level is an error too, but the log level of the *)
(* process has been set by then.  The checks of SDKInfo (lines 72-80) are left *)
(* out: it is the package's own value, with a name and a version.             *)
PrepareInitArgs(args, env) ==
  LET level == GetVarOrEnv(args, env, "LogLevel")
      known == level = Empty \/ level \in LogLevels
  IN  IF \E k \in URLs : ~Valid(GetVarOrEnv(args, env, k))
      THEN [accepted |-> FALSE, urls |-> <<>>, logLevel |-> "unchanged"]
      ELSE [accepted |-> known /\ GetVarOrEnv(args, env, "APIKey") # Empty,
            urls     |-> [k \in URLs |-> PopulateURL(args, env, k)],
            logLevel |-> IF level \in LogLevels THEN level ELSE "error"]
================================================================================
