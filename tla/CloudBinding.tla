---------------------------- MODULE CloudBinding ----------------------------
(***************************************************************************)
(* The cloud device of CloudDaemon, and of CloudApi with its callers,      *)
(* implements Binding.                                                     *)
(***************************************************************************)
EXTENDS CloudDaemon

Abstract == INSTANCE Binding WITH
  server <- agent.bound,
  device <- cloud.binded,
  saved <- conf.account # NoUser

\* The order of the writes in swCloudBind, swCloudUBind and the UNBIND request
\* (the agent, then binded, then the saved account), with the boots between
\* them, is Binding's, however the threads interleave: no other thread starts
\* the next change, or answers for this one, before it is saved.
ImplementsBinding == Abstract!Spec
=============================================================================
