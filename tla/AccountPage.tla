------------------------------ MODULE AccountPage ------------------------------
(***************************************************************************)
(* The account page: the profile with its tables, the windows to edit its  *)
(* required and its optional part and to change the password.              *)
(*                                                                         *)
(* Every saga keeps its latest call only.  Both edits share one flag, and  *)
(* closing any window forgets the verdicts and errors of all of them, of   *)
(* the form fields too.  Closing a window after a success asks for the     *)
(* profile with LOAD_PROFILE_DATA, which no saga waits for.                *)
(***************************************************************************)
EXTENDS FiniteSets

CONSTANTS Nothing     \* the absence of a window

VARIABLES store, calls, ui, alive

vars == <<store, calls, ui, alive>>

Windows == {"required", "optional", "password"}
Watchers == Windows \cup {"data", "fields"}

----------------------------------------------------------------------------
(* The reducer.  errors is the set of the parts that have one.             *)

initialState ==
    [isLoading |-> TRUE, checkingPassword |-> FALSE, editing |-> FALSE,
     success |-> {}, errors |-> {}, fields |-> FALSE, modal |-> Nothing]

LOAD_PROFILE_DATA(st) == [st EXCEPT !.isLoading = TRUE, !.errors = @ \ {"data"}]
ADD_DATA(st) == [st EXCEPT !.isLoading = FALSE]
ADD_DATA_ERROR(st) == [st EXCEPT !.isLoading = FALSE, !.errors = @ \cup {"data"}]
POPULATE_FIELDS(st) == [st EXCEPT !.fields = TRUE, !.errors = @ \ {"fields"}]
POPULATE_FIELDS_ERROR(st) == [st EXCEPT !.errors = @ \cup {"fields"}]
OPEN_PROFILE_MODAL(st, w) == [st EXCEPT !.modal = w]
CLEAR_FORM_MESSAGES(st) == [st EXCEPT !.success = {}, !.errors = {}]
CLOSE_PROFILE_MODAL(st) == [CLEAR_FORM_MESSAGES(st) EXCEPT !.modal = Nothing]
EDITING_INFORMATION(st) == [st EXCEPT !.editing = TRUE]
EDIT_INFORMATION_SUCCESS(st, w) ==
    [st EXCEPT !.editing = FALSE, !.success = @ \cup {w}]
EDIT_INFORMATION_ERROR(st, w) ==
    [st EXCEPT !.editing = FALSE, !.errors = @ \cup {w}]
(* Faulty: the last success stays. *)
CHECKING_PASSWORDKeeping(st) == [st EXCEPT !.checkingPassword = TRUE]
CHECKING_PASSWORD(st) ==
    [st EXCEPT !.success = @ \ {"password"}, !.checkingPassword = TRUE]
CHECKED_PASSWORD(st) ==
    [st EXCEPT !.checkingPassword = FALSE, !.errors = @ \ {"password"}]
CHANGED_PASSWORD(st) == [st EXCEPT !.success = @ \cup {"password"}]
PASSWORD_ERROR(st) == [st EXCEPT !.errors = @ \cup {"password"}]

----------------------------------------------------------------------------
(* The sagas.                                                              *)

getProfileData ==
    /\ "data" \in calls
    /\ \/ store' = ADD_DATA(store)
       \/ store' = ADD_DATA_ERROR(store)
    /\ calls' = calls \ {"data"}
    /\ ui' = [ui EXCEPT !.reload = FALSE]
    /\ UNCHANGED alive

getFormFields ==
    /\ "fields" \in calls
    /\ \/ store' = POPULATE_FIELDS(store)
       \/ store' = POPULATE_FIELDS_ERROR(store)
    /\ calls' = calls \ {"fields"}
    /\ UNCHANGED <<ui, alive>>

editInformation == \E w \in {"required", "optional"} \cap calls :
    /\ \/ store' = EDIT_INFORMATION_SUCCESS(store, w)
       \/ store' = EDIT_INFORMATION_ERROR(store, w)
    /\ calls' = calls \ {w}
    /\ UNCHANGED <<ui, alive>>

changePassword ==
    /\ "password" \in calls
    /\ LET st == CHECKED_PASSWORD(store) IN
       \/ store' = CHANGED_PASSWORD(st)
       \/ store' = PASSWORD_ERROR(st)
    /\ calls' = calls \ {"password"}
    /\ UNCHANGED <<ui, alive>>

----------------------------------------------------------------------------
(* The page.  `reload`: the profile was asked for in vain.                 *)

\* The page is opened, which reads the profile and the fields; or left.
ManageAccountView ==
    \/ /\ ~ui.page
       /\ calls' = calls \cup {"data", "fields"}
       /\ ui' = [ui EXCEPT !.page = TRUE]
       /\ UNCHANGED <<store, alive>>
    \/ /\ ui.page /\ store.modal = Nothing
       /\ ui' = [ui EXCEPT !.page = FALSE]
       /\ UNCHANGED <<store, calls, alive>>

Shown == ui.page /\ ~store.isLoading

\* "Edit Required Information" and "Edit Optional Information" need the
\* fields, or no error about them; "Change Password" does not.
openModal(w) ==
    /\ Shown /\ store.modal = Nothing
    /\ store' = OPEN_PROFILE_MODAL(store, w)
    /\ UNCHANGED <<calls, ui, alive>>

RequiredInformation == "fields" \notin store.errors /\ openModal("required")
OptionalInformation == "fields" \notin store.errors /\ openModal("optional")
ChangePassword == openModal("password")

closeModal(w) ==
    /\ Shown /\ store.modal = w
    /\ LET st == CLOSE_PROFILE_MODAL(store)
           edited == w \in store.success
       IN /\ store' = IF edited THEN LOAD_PROFILE_DATA(st) ELSE st
          /\ ui' = [ui EXCEPT !.reload = @ \/ edited]
    /\ UNCHANGED <<calls, alive>>

EditRequiredInformationModal == closeModal("required")
EditOptionalInformationModal == closeModal("optional")
ChangePasswordModal == closeModal("password")

\* A form without its fields is a spinner.
FormShown(w) ==
    Shown /\ store.modal = w /\ (w = "password" \/ store.fields)

\* The submit buttons stay enabled while a call is open.
EditRequiredInformationForm ==
    /\ FormShown("required")
    /\ store' = EDITING_INFORMATION(CLEAR_FORM_MESSAGES(store))
    /\ calls' = calls \cup {"required"}
    /\ UNCHANGED <<ui, alive>>

EditOptionalInformationForm ==
    /\ FormShown("optional")
    /\ store' = EDITING_INFORMATION(store)
    /\ calls' = calls \cup {"optional"}
    /\ UNCHANGED <<ui, alive>>

ChangePasswordForm ==
    /\ FormShown("password")
    /\ store' = CHECKING_PASSWORD(store)
    /\ calls' = calls \cup {"password"}
    /\ UNCHANGED <<ui, alive>>

----------------------------------------------------------------------------
Init ==
    /\ store = initialState
    /\ calls = {}
    /\ ui = [page |-> FALSE, reload |-> FALSE]
    /\ alive = TRUE

Next ==
    \/ getProfileData \/ getFormFields \/ editInformation \/ changePassword
    \/ ManageAccountView
    \/ RequiredInformation \/ OptionalInformation \/ ChangePassword
    \/ EditRequiredInformationModal \/ EditOptionalInformationModal
    \/ ChangePasswordModal
    \/ EditRequiredInformationForm \/ EditOptionalInformationForm
    \/ ChangePasswordForm

Spec == Init /\ [][Next]_vars

----------------------------------------------------------------------------
(* Properties.                                                             *)

TypeOK ==
    /\ store.success \subseteq Windows
    /\ store.errors \subseteq Watchers
    /\ store.modal \in Windows \cup {Nothing}
    /\ calls \subseteq Watchers
    /\ store.modal # Nothing => ui.page

\* The spinners of the page and of the buttons wait for an open call, but for
\* a page that is reloaded by LOAD_PROFILE_DATA.
SpinnerIsServed ==
    /\ (ui.page /\ store.isLoading /\ ~ui.reload) => "data" \in calls
    /\ store.editing => calls \cap {"required", "optional"} # {}
    /\ store.checkingPassword => "password" \in calls

\* The required form and the password form never tell of a success and of
\* an error at once, however submissions and windows overlap.
OneVerdict == store.success \cap store.errors \subseteq {"optional"}
=============================================================================
