------------------------------- MODULE MCWeb -------------------------------
(* Small instances of the modules of the browser's side, for TLC.  They      *)
(* share no variables: each behaviour is one of one module.                  *)
EXTENDS Sessions, Toggle, Comments, Forms, Feed, Bursts, Toasts, TLC

CONSTANTS u1, u2, t1, t2, c1, c2, b1, b2, b3, x1, x2

CONSTANT Parts     \* the modules a run is about

TwoUsers   == {u1, u2}
TwoTabs    == {t1, t2}
TwoCalls   == {c1, c2}
ThreeButtons == {b1, b2, b3}
OneLike    == {b1}
OneCard    == {b2}
TwoMessages == {x1, x2}

VARIABLE part

webVars == <<part, sessionVars, toggleVars, commentVars, formVars, feedVars,
            burstVars, toastVars>>

(* Where a module has several initial states, one is enough while another    *)
(* module takes the steps.                                                   *)
WebInit ==
  /\ part \in Parts
  /\ SessionsInit /\ CommentsInit
  /\ ToggleInit /\ (part # "toggle" => button = "like" /\ ~stored)
  /\ FormsInit /\ (part # "forms" => wizard = "signup")
  /\ FeedInit /\ (part # "feed" => thing = "like" /\ ~kept)
  /\ BurstsInit
  /\ ToastsInit /\ (part # "toasts" => ~calm)

WebNext ==
  /\ UNCHANGED part
  /\ \/ part = "sessions" /\ SessionsNext
        /\ UNCHANGED <<toggleVars, commentVars, formVars, feedVars,
                       burstVars, toastVars>>
     \/ part = "toggle" /\ ToggleNext
        /\ UNCHANGED <<sessionVars, commentVars, formVars, feedVars,
                       burstVars, toastVars>>
     \/ part = "comments" /\ CommentsNext
        /\ UNCHANGED <<sessionVars, toggleVars, formVars, feedVars,
                       burstVars, toastVars>>
     \/ part = "forms" /\ FormsNext
        /\ UNCHANGED <<sessionVars, toggleVars, commentVars, feedVars,
                       burstVars, toastVars>>
     \/ part = "feed" /\ FeedNext
        /\ UNCHANGED <<sessionVars, toggleVars, commentVars, formVars,
                       burstVars, toastVars>>
     \/ part = "bursts" /\ BurstsNext
        /\ UNCHANGED <<sessionVars, toggleVars, commentVars, formVars, feedVars,
                       toastVars>>
     \/ part = "toasts" /\ ToastsNext
        /\ UNCHANGED <<sessionVars, toggleVars, commentVars, formVars, feedVars,
                       burstVars>>

WebSpec == WebInit /\ [][WebNext]_webVars

AllParts == {"sessions", "toggle", "comments", "forms", "feed", "bursts", "toasts"}

(* A bound: files are uploaded before a form is sent for the first time. *)
UploadsFirst == received = {} \/ uploads = {}

(* The state of every module has its type. *)
WebTypeOK ==
  /\ SessionsTypeOK /\ ToggleTypeOK /\ CommentsTypeOK /\ FormsTypeOK
  /\ FeedTypeOK /\ BurstsTypeOK /\ ToastsTypeOK

=============================================================================
