------------------------------ MODULE InitSettings ------------------------------
(* What prepareInitArgs (InitArgs) promises of the arguments of Init while the *)
(* application sets environment variables.                                     *)
EXTENDS InitArgs

CONSTANTS Settings,  \* values for all Keys
          NoArgs

VARIABLES args, env
settings == <<args, env>>

InitSetting == args \in Settings /\ env = [k \in Keys |-> Empty]

SetVariable ==
  /\ args # NoArgs
  /\ \E k \in Keys, s \in Settings : env' = [env EXCEPT ![k] = s[k]]
  /\ UNCHANGED args

SettingsSpec == InitSetting /\ [][SetVariable]_settings

--------------------------------------------------------------------------------
(* A variable whose argument is given has no part in Init, whatever else is    *)
(* missing or malformed: neither in what Init works with nor in whether it     *)
(* accepts the arguments (config_validate.go 27-33, applied key by key).       *)
GivenArgumentsPrevail ==
  [][SetVariable /\ (\A k \in Keys : env'[k] # env[k] => args[k] # Empty)
       => PrepareInitArgs(args, env') = PrepareInitArgs(args, env)]_settings
================================================================================
