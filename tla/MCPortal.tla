------------------------------ MODULE MCPortal ------------------------------
(***************************************************************************)
(* A small instance of Portal for TLC.                                     *)
(***************************************************************************)
EXTENDS Portal

\* Which requests meet: those that share rows or records.
Codes == {"otp_request", "otp_verify", "expiry"}
Resets == {"reset_request", "reset_confirm", "refresh", "login"}
Sessions == {"register", "login", "refresh", "logout"}
Disabling == {"set_active", "login", "refresh", "otp_verify"}
Changes == {"change_role", "set_active", "patch_me", "set_avatar"}
Openings == {"register", "register_center", "otp_verify", "login"}
Pages == {"list_pages", "upsert_page"}
Devices == {"register_device"}
Feeds == {"publish", "cut"}
AllScenes == {Codes, Resets, Sessions, Disabling, Changes, Openings, Pages,
              Devices, Feeds}
=============================================================================
