----------------------------- MODULE StatusRules -----------------------------
(***************************************************************************)
(* The pipeline rules of handlers/projects.go and handlers/documents.go as *)
(* pure operators: the statuses, who may upload which document, how many   *)
(* of a type a project may hold, where an upload moves a project and where *)
(* a deletion leaves it.  docs is the set of document types of which the   *)
(* project has at least one row: the rules only compare counts with zero.  *)
(***************************************************************************)
EXTENDS Naturals, FiniteSets

Status == {"register", "quotation", "tor", "contract", "closed", "reject"}

\* The statuses the code writes with auto_reject_at = NULL.
Terminal == {"contract", "closed", "reject"}

\* ReconcileWithoutDealerGate is the plausible slip its rule is tested against.

\* The value every status-writing statement stores in auto_reject_at.
TimerFor(s) == IF s \in Terminal THEN "null" ELSE "armed"

singleUploadDocs == {"quotation_support", "quotation_dealer", "tor_support",
                     "tor_dealer", "contract", "closing"}
multiUploadDocs == {"site_survey", "attachment"}
DocType == singleUploadDocs \cup multiUploadDocs

siteSurveyLimit == 3
attachmentLimit == 5

DocLimit(t) == CASE t = "site_survey" -> siteSurveyLimit
                 [] t = "attachment"  -> attachmentLimit
                 [] OTHER             -> 1

Role == {"dealer", "support", "admin"}
Staff == {"support", "admin"}

roleMayUploadDocType(role, t) ==
  role \in Staff \/ t \notin {"quotation_support", "tor_support", "closing"}

\* A tor needs tor_support, and tor_dealer too when a dealer owns the project.
TorGate(docs, ownerIsSupport) ==
  "tor_support" \in docs /\ (ownerIsSupport \/ "tor_dealer" \in docs)

\* autoAdvanceStatus: where a project in status s goes when a document of type
\* t was uploaded; s itself when the upload moves nothing.
Advance(s, t, docs, ownerIsSupport) ==
  CASE s = "register" /\ t \in {"quotation_support", "quotation_dealer"} -> "quotation"
    [] s = "quotation" /\ t = "tor_support" /\ (ownerIsSupport \/ "tor_dealer" \in docs) -> "tor"
    [] s = "quotation" /\ t = "tor_dealer" /\ "tor_support" \in docs -> "tor"
    [] s = "tor" /\ t = "contract" -> "contract"
    [] s = "contract" /\ t = "closing" -> "closed"
    [] OTHER -> s

(***************************************************************************)
(* reconcileProjectStatusAfterDocumentDelete: the status the remaining     *)
(* documents support.  quotation_dealer is not among the counts it reads.  *)
(***************************************************************************)
ReconcileWithoutDealerGate(s, docs, ownerIsSupport) ==
  CASE {"contract", "closing"} \subseteq docs -> "closed"
    [] "contract" \in docs /\ "closing" \notin docs -> "contract"
    [] "contract" \notin docs /\ "tor_support" \in docs -> "tor"
    [] OTHER -> s
Reconcile(s, docs, ownerIsSupport) ==
  CASE {"contract", "closing"} \subseteq docs -> "closed"
    [] "contract" \in docs /\ "closing" \notin docs -> "contract"
    [] "contract" \notin docs /\ TorGate(docs, ownerIsSupport) -> "tor"
    [] /\ "contract" \notin docs /\ ~TorGate(docs, ownerIsSupport)
       /\ "quotation_support" \in docs -> "quotation"
    [] OTHER -> IF s = "reject" THEN s ELSE "register"

\* The documents a status stands for: what an upload or a deletion must find
\* on the project before it moves the project to s.
Evidence(s, docs, ownerIsSupport) ==
  CASE s = "quotation" -> docs \cap {"quotation_support", "quotation_dealer"} # {}
    [] s = "tor"       -> TorGate(docs, ownerIsSupport)
    [] s = "contract"  -> "contract" \in docs
    [] s = "closed"    -> "closing" \in docs
    [] OTHER           -> TRUE
=============================================================================
