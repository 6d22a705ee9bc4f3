------------------------------ MODULE CamMenu ------------------------------
(* The menus of the conditional access module: what its MMI callbacks keep  *)
(* (cam.c, called from the poll of the CAM thread) and what the keys of the *)
(* HTTP interface do (unicast_monit.c, in the main thread).  No lock guards *)
(* the state they share: a callback may come in the middle of a key.        *)
EXTENDS Integers

CONSTANT EnquiryLengths  \* lengths of answers the module expects: 1 to MAX_ENQUIRY_ANSWER_LENGTH

MenuAssumption == EnquiryLengths \subseteq Nat \ {0}

VARIABLES
    mmi_state,
    cam_mmi_autoresponse,
    mmi_enq_length,
    mmi_enq_entered,
    key                  \* the branch of unicast_send_cam_action taken, or "none"

menuVars == <<mmi_state, cam_mmi_autoresponse, mmi_enq_length, mmi_enq_entered, key>>

Branches == {"entermenu", "menu_answ", "digit", "cancel"}

TypeOK ==
    /\ mmi_state \in {"CLOSED", "OPEN", "MENU", "ENQ"} /\ cam_mmi_autoresponse \in BOOLEAN
    /\ mmi_enq_length \in EnquiryLengths \cup {0}
    /\ mmi_enq_entered \in Nat /\ key \in Branches \cup {"none"}

Init ==
    /\ mmi_state = "CLOSED" /\ cam_mmi_autoresponse = TRUE
    /\ mmi_enq_length = 0 /\ mmi_enq_entered = 0 /\ key = "none"

\* Until the first key every object is answered with CANCEL.
Waits(state) == IF cam_mmi_autoresponse THEN "OPEN" ELSE state

\* A menu or a list.
Menu ==
    /\ mmi_state' = Waits("MENU")
    /\ UNCHANGED <<cam_mmi_autoresponse, mmi_enq_length, mmi_enq_entered, key>>

Enquiry ==
    /\ mmi_enq_length' \in EnquiryLengths
    /\ mmi_enq_entered' = 0
    /\ mmi_state' = Waits("ENQ")
    /\ UNCHANGED <<cam_mmi_autoresponse, key>>

DisplayControl ==
    /\ mmi_state' = "OPEN"
    /\ UNCHANGED <<cam_mmi_autoresponse, mmi_enq_length, mmi_enq_entered, key>>

Close ==
    /\ mmi_state' = "CLOSED"
    /\ UNCHANGED <<cam_mmi_autoresponse, mmi_enq_length, mmi_enq_entered, key>>

\* unicast_send_cam_action tests mmi_state ...
Key(branch) ==
    /\ key = "none"
    /\ branch = "menu_answ" => mmi_state = "MENU"
    /\ branch \in {"digit", "cancel"} => mmi_state = "ENQ"
    /\ key' = branch
    /\ cam_mmi_autoresponse' = FALSE
    /\ UNCHANGED <<mmi_state, mmi_enq_length, mmi_enq_entered>>

\* ... sends what the key asks for, and changes the state as the test said.
KeySent ==
    /\ key # "none"
    /\ key' = "none"
    /\ mmi_enq_entered' = IF key = "digit" THEN mmi_enq_entered + 1 ELSE mmi_enq_entered
    /\ mmi_state' = IF key = "digit" /\ mmi_enq_entered' # mmi_enq_length
                    THEN mmi_state ELSE "OPEN"
    /\ UNCHANGED <<cam_mmi_autoresponse, mmi_enq_length>>

Next ==
    \/ Menu \/ Enquiry \/ DisplayControl \/ Close
    \/ (\E branch \in Branches : Key(branch)) \/ KeySent

Spec == Init /\ [][Next]_menuVars

-----------------------------------------------------------------------------
\* The digits typed never outgrow the answer the module expects, whatever it asks or closes
\* while a key is treated: mmi_enq_answer is written within its bounds.
EnquiryFits ==
    /\ mmi_enq_entered <= mmi_enq_length
    /\ mmi_state = "ENQ" => mmi_enq_entered < mmi_enq_length
=============================================================================
