----------------------------- MODULE MCAckWait ------------------------------
(* Model-checking instance of AckWait: two verified commands of one key       *)
(* (brightness at two levels, or the screen timeout and its read-back), one   *)
(* of a status key (timer close), and one that is not verified and has type byte  *)
(* 5 (verify_password).                                                     *)
EXTENDS AckWait, TLC

CONSTANTS brightness, timerClose, password,
          kBrightness, kTimer, kPassword

MCKey == brightness :> kBrightness @@ timerClose :> kTimer @@ password :> kPassword
=============================================================================
