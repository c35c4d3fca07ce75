-------------------------------- MODULE MCTask --------------------------------
(* The two ways to a node's task, one beside the other: drafts that become    *)
(* instances with their sub nodes (Draft), and packages that become nodes and *)
(* tasks (Usecase).  They share nothing in the code before the task, so a     *)
(* behaviour is one of a draft, with the package at rest, or of a package.    *)
EXTENDS MCDraft, MCUsecase

RestDraft == CHOOSE d \in Drafts : TRUE
RestPackage == CHOOSE p \in Packages : TRUE

TaskInit ==
  \/ package = RestPackage /\ Init /\ DraftInit
  \/ draft = RestDraft /\ DraftInit /\ Init

TaskNext ==
  \/ package = RestPackage /\ stage = "package" /\ DraftNext /\ UNCHANGED vars
  \/ draft = RestDraft /\ progress = "draft" /\ Next /\ UNCHANGED draftVars

TaskSpec == TaskInit /\ [][TaskNext]_<<vars, draftVars>>
=============================================================================
