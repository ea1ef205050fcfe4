---------------------------- MODULE MCPlayerRows ----------------------------
(* Writes of every kind, and a read of the settings.                       *)
EXTENDS PlayerRows

CONSTANTS nameSet, putName, premium1, premium2, putPremium,
          putLanguage, putBoth, putNothing, getSettings

MCNames ==
  [x \in Op |->
     CASE x \in {nameSet, putName}                -> {"name"}
       [] x \in {premium1, premium2, putPremium}  -> {"premium"}
       [] x = putLanguage                         -> {"language"}
       [] x = putBoth                             -> {"language", "volume"}
       [] x \in {putNothing, getSettings}         -> {}]
=============================================================================
