-------------------------------- MODULE Accounts --------------------------------
(***************************************************************************)
(* The accounts: rows of users (users.service.ts) and the one-time codes   *)
(* that guard registration and the reset of a password (auths.service.ts), *)
(* which are kept in Redis under the address and the type of the code.     *)
(*                                                                         *)
(* A code is mailed before it is kept; it is verified by writing back the  *)
(* object that was read, with another status; it is never used up and,     *)
(* whatever its expiry says, it never lapses.  A row that is read is saved *)
(* whole; a password is mailed once it is saved.                           *)
(***************************************************************************)
EXTENDS Calls

CONSTANTS
  Email,          \* addresses; the column is unique and never changes
  Renter,         \* bound: the addresses that register and ask for codes
  Role,           \* the roles a body may ask for
  Decision,       \* the statuses an account may be given
  Password,       \* passwords that may be generated
  Code,           \* codes that may be drawn
  Profile         \* what a user may say of himself

ASSUME AccountsAssumption ==
  /\ Renter \subseteq Email
  /\ "land_renter" \in Role
  /\ Decision \subseteq {"pending", "active", "in_active", "banned"}

VARIABLES
  user,           \* users, by address
  otp,            \* Redis: otp:<address>:<type>
  letters,        \* the passwords mailed to an address
  mailed,         \* the codes mailed: address, type, code
  accepted,       \* history: the codes verifyOTP accepted
  acted           \* history: who registered or reset, by code

accounts == <<user, otp, letters, mailed, accepted, acted>>

-----------------------------------------------------------------------------
Absent == [status |-> "none"]

UserStatus == {"pending", "active", "in_active", "banned"}
UserRow == [role: Role, status: UserStatus, password: Password,
            profile: Profile]

Kind   == {"register", "forgotPassword"}
Otp    == [code: Code, status: {"pending", "verified"}]
Codes  == Email \X Kind \X Code

InsertUser == [op: {"insertUser"}, e: Email, role: Role, by: {"admin", "register"}]
SaveRow    == [op: {"saveStatus", "savePassword"}, e: Email, row: UserRow]
PutProfile == [op: {"setProfile"}, e: Email, profile: Profile]
Letter     == [op: {"mailPassword"}, e: Email, password: Password]
OnCode     == [op: {"mailCode", "putCode", "putVerified"}, e: Email, kind: Kind,
               code: Code]
AccountWork == {Idle} \cup InsertUser \cup SaveRow \cup PutProfile \cup Letter
                 \cup OnCode

AccountsTypeOK ==
  /\ user \in [Email -> UserRow \cup {Absent}]
  /\ otp \in [Email -> [Kind -> Otp \cup {Absent}]]
  /\ letters \in [Email -> SUBSET Password]
  /\ mailed \in SUBSET Codes /\ accepted \in SUBSET Codes
  /\ acted \in SUBSET (Email \X Kind)
  /\ work \in [Call -> AccountWork]
  /\ accidents \in Nat

AccountsInit ==
  /\ user = [e \in Email |-> Absent]
  /\ otp = [e \in Email |-> [k \in Kind |-> Absent]]
  /\ letters = [e \in Email |-> {}]
  /\ mailed = {} /\ accepted = {} /\ acted = {}
  /\ CallsInit

-----------------------------------------------------------------------------
Exists(e) == user[e] # Absent

\* The passwords a call has saved, or is about to save, and not mailed.
OnTheWay(e) ==
  {work[c].password : c \in {d \in Call : work[d].op = "mailPassword" /\ work[d].e = e}}
  \cup
  {work[c].row.password : c \in {d \in Call : work[d].op = "savePassword" /\ work[d].e = e}}

\* generatePassword: eight characters at random, which nobody has had.
Generated ==
  {w \in Password : \A e \in Email : /\ w \notin letters[e] \cup OnTheWay(e)
                                     /\ Exists(e) => user[e].password # w}

\* UsersService.create, down to the save.
Create(c, e, role, by) ==
  /\ role = "manager" => \A f \in Email : Exists(f) => user[f].role # "manager"
  /\ role # "admin"
  /\ ~Exists(e)
  /\ Start(c, [op |-> "insertUser", e |-> e, role |-> role, by |-> by])
  /\ UNCHANGED accounts

CreateUser(c, e, role) == Create(c, e, role, "admin")

\* Mutant: that a code was sent is enough.
RegisterUnverified(c, e) ==
  /\ otp[e]["register"] # Absent
  /\ Create(c, e, "land_renter", "register")

Register(c, e) ==
  /\ otp[e]["register"].status = "verified"
  /\ Create(c, e, "land_renter", "register")

\* Refused when the address is taken meanwhile.  The password is hashed before.
SaveUser(c) ==
  /\ work[c].op = "insertUser"
  /\ LET e == work[c].e
     IN  IF Exists(e)
         THEN Goto(c, Idle) /\ UNCHANGED <<user, acted>>
         ELSE \E w \in Generated, p \in Profile :
                /\ user' = [user EXCEPT ![e] =
                     [role |-> work[c].role, status |-> "pending",
                      password |-> w, profile |-> p]]
                /\ acted' = IF work[c].by = "register"
                            THEN acted \cup {<<e, "register">>} ELSE acted
                /\ Goto(c, [op |-> "mailPassword", e |-> e, password |-> w])
  /\ UNCHANGED <<otp, letters, mailed, accepted>>

\* The mail is not awaited; here the call ends with it.
MailPassword(c) ==
  /\ work[c].op = "mailPassword"
  /\ letters' = [letters EXCEPT ![work[c].e] = @ \cup {work[c].password}]
  /\ Goto(c, Idle)
  /\ UNCHANGED <<user, otp, mailed, accepted, acted>>

-----------------------------------------------------------------------------
UpdateStatus(c, e, s) ==
  /\ Exists(e)
  /\ Start(c, [op |-> "saveStatus", e |-> e,
               row |-> [user[e] EXCEPT !.status = s]])
  /\ UNCHANGED accounts

\* resetPassword and updatePassword, down to the save.
ResetPassword(c, e) ==
  /\ otp[e]["forgotPassword"].status = "verified"
  /\ Exists(e)
  /\ \E w \in Generated :
       Start(c, [op |-> "savePassword", e |-> e,
                 row |-> [user[e] EXCEPT !.password = w]])
  /\ UNCHANGED accounts

\* The row is saved whole, as it was read.
SaveUserRow(c) ==
  /\ work[c].op \in {"saveStatus", "savePassword"}
  /\ LET e == work[c].e
     IN  /\ user' = [user EXCEPT ![e] = work[c].row]
         /\ IF work[c].op = "savePassword"
            THEN /\ acted' = acted \cup {<<e, "forgotPassword">>}
                 /\ Goto(c, [op |-> "mailPassword", e |-> e,
                             password |-> work[c].row.password])
            ELSE Goto(c, Idle) /\ UNCHANGED acted
  /\ UNCHANGED <<otp, letters, mailed, accepted>>

UpdateUser(c, e, p) ==
  /\ Exists(e)
  /\ Start(c, [op |-> "setProfile", e |-> e, profile |-> p])
  /\ UNCHANGED accounts

\* An update of the columns of the body alone.
SetProfile(c) ==
  /\ work[c].op = "setProfile"
  /\ user' = [user EXCEPT ![work[c].e].profile = work[c].profile]
  /\ Goto(c, Idle)
  /\ UNCHANGED <<otp, letters, mailed, accepted, acted>>

-----------------------------------------------------------------------------
DrawCode(c, e, kind) ==
  /\ \E k \in Code :
       Start(c, [op |-> "mailCode", e |-> e, kind |-> kind, code |-> k])
  /\ UNCHANGED accounts

SendOTPRegister(c, e) == ~Exists(e) /\ DrawCode(c, e, "register")

SendOTPForgotPassword(c, e) ==
  user[e].status = "active" /\ DrawCode(c, e, "forgotPassword")

MailCode(c) ==
  /\ work[c].op = "mailCode"
  /\ mailed' = mailed \cup {<<work[c].e, work[c].kind, work[c].code>>}
  /\ Goto(c, [work[c] EXCEPT !.op = "putCode"])
  /\ UNCHANGED <<user, otp, letters, accepted, acted>>

\* Without a time to live.
PutCode(c) ==
  /\ work[c].op = "putCode"
  /\ otp' = [otp EXCEPT ![work[c].e][work[c].kind] =
               [code |-> work[c].code, status |-> "pending"]]
  /\ Goto(c, Idle)
  /\ UNCHANGED <<user, letters, mailed, accepted, acted>>

\* verifyOTP, given a code: its expiry is kept under one name and read under
\* another, so that the comparison with the clock never refuses.
VerifyOTP(c, e, kind, k) ==
  /\ otp[e][kind].status = "pending"
  /\ otp[e][kind].code = k
  /\ accepted' = accepted \cup {<<e, kind, k>>}
  /\ Start(c, [op |-> "putVerified", e |-> e, kind |-> kind, code |-> k])
  /\ UNCHANGED <<user, otp, letters, mailed, acted>>

\* The object that was read is written back, over a code kept meanwhile.
PutVerified(c) ==
  /\ work[c].op = "putVerified"
  /\ otp' = [otp EXCEPT ![work[c].e][work[c].kind] =
               [code |-> work[c].code, status |-> "verified"]]
  /\ Goto(c, Idle)
  /\ UNCHANGED <<user, letters, mailed, accepted, acted>>

-----------------------------------------------------------------------------
AccountArrives(c) ==
  \/ \E e \in Email :
       \/ \E role \in Role : CreateUser(c, e, role)
       \/ \E s \in Decision : UpdateStatus(c, e, s)
       \/ \E p \in Profile : UpdateUser(c, e, p)
  \/ \E e \in Renter :
       \/ Register(c, e) \/ ResetPassword(c, e)
       \/ SendOTPRegister(c, e) \/ SendOTPForgotPassword(c, e)
       \/ \E kind \in Kind, k \in Code : VerifyOTP(c, e, kind, k)

AccountContinues(c) ==
  \/ SaveUser(c) \/ MailPassword(c) \/ SaveUserRow(c) \/ SetProfile(c)
  \/ MailCode(c) \/ PutCode(c) \/ PutVerified(c)
  \/ Fail(c) /\ UNCHANGED accounts

AccountsNext == \E c \in Call : AccountArrives(c) \/ AccountContinues(c)

AccountsSpec == AccountsInit /\ [][AccountsNext]_<<accounts, calls>>

-----------------------------------------------------------------------------
\* register, resetPassword, verifyOTP, sendOTP: however the calls interleave, who
\* registered or reset a password had been mailed a code of that type, and had given
\* it; and a code that is kept was mailed before.
CodeBeforeAct ==
  /\ \A a \in acted :
       \E k \in Code : <<a[1], a[2], k>> \in mailed \cap accepted
  /\ \A e \in Email, kind \in Kind :
       otp[e][kind] # Absent => <<e, kind, otp[e][kind].code>> \in mailed

\* create, updatePassword: however the calls interleave, and as long as no mail is
\* lost, the password of an account, the one a row that is saved whole puts back
\* included, was mailed to its address, or is about to be.
PasswordIsKnown ==
  accidents = 0
  => \A e \in Email : Exists(e) => user[e].password \in letters[e] \cup OnTheWay(e)
===============================================================================
