------------------------- MODULE AdministrationProofs -------------------------
(***************************************************************************)
(* Proofs about Administration, for every value of the constants: any      *)
(* number of accounts, rows and calls in flight.  First the accounts, then *)
(* the catalogue, then the standard processes, each on its own, and last   *)
(* the three together.                                                     *)
(***************************************************************************)
EXTENDS Administration, FiniteSetTheorems, TLAPS

-----------------------------------------------------------------------------
\* Accounts.  In the tables ml of codes mailed and ac of codes accepted: e was mailed
\* a code of that kind and gave it.
Proved(e, kind, ml, ac) == \E k \in Code : <<e, kind, k>> \in ml /\ <<e, kind, k>> \in ac

\* In the post of wk and the letters lt: e was mailed x as his password, or will be.
InPost(x, e, lt, wk) ==
  \/ x \in lt[e]
  \/ \E c \in Call :
       \/ wk[c].op = "mailPassword" /\ wk[c].e = e /\ wk[c].password = x
       \/ wk[c].op = "savePassword" /\ wk[c].e = e /\ wk[c].row.password = x

\* What a call carries was asked for by who may.
Lawful(w, us, ml, ac) ==
  /\ w.op = "putCode" => <<w.e, w.kind, w.code>> \in ml
  /\ w.op = "putVerified" => /\ <<w.e, w.kind, w.code>> \in ml
                             /\ <<w.e, w.kind, w.code>> \in ac
  /\ w.op = "insertUser" /\ w.by = "register" => Proved(w.e, "register", ml, ac)
  /\ w.op = "savePassword" => Proved(w.e, "forgotPassword", ml, ac)
  /\ w.op = "setProfile" => us[w.e] # Absent

\* A code that is kept was mailed, and accepted when it is verified.
KeptCode(e, kind, row, ml, ac) ==
  row # Absent => /\ <<e, kind, row.code>> \in ml
                  /\ row.status = "verified" => <<e, kind, row.code>> \in ac

CodesInv ==
  /\ \A e \in Email, kind \in Kind : KeptCode(e, kind, otp[e][kind], mailed, accepted)
  /\ \A a \in acted : Proved(a[1], a[2], mailed, accepted)
  /\ \A c \in Call : Lawful(work[c], user, mailed, accepted)

PasswordsInv ==
  accidents = 0
  => /\ \A e \in Email : user[e] # Absent => InPost(user[e].password, e, letters, work)
     /\ \A c \in Call : work[c].op = "saveStatus"
          => InPost(work[c].row.password, work[c].e, letters, work)

\* CodeBeforeAct and PasswordIsKnown are not inductive as they stand: the codes and
\* the passwords of the calls in flight belong to them.
AccountsInv == AccountsTypeOK /\ CodesInv /\ PasswordsInv

-----------------------------------------------------------------------------
LEMMA AccountWorkFields ==
  ASSUME NEW w \in AccountWork
  PROVE  /\ w.op = "insertUser" => w \in InsertUser
         /\ w.op \in {"saveStatus", "savePassword"} => w \in SaveRow
         /\ w.op = "setProfile" => w \in PutProfile
         /\ w.op = "mailPassword" => w \in Letter
         /\ w.op \in {"mailCode", "putCode", "putVerified"} => w \in OnCode
BY DEF AccountWork, Idle, InsertUser, SaveRow, PutProfile, Letter, OnCode

LEMMA NextAccountWork ==
  /\ Idle \in AccountWork
  /\ \A e \in Email :
       /\ \A role \in Role, by \in {"admin", "register"} :
            [op |-> "insertUser", e |-> e, role |-> role, by |-> by] \in AccountWork
       /\ \A row \in UserRow :
            /\ [op |-> "saveStatus", e |-> e, row |-> row] \in AccountWork
            /\ [op |-> "savePassword", e |-> e, row |-> row] \in AccountWork
       /\ \A x \in Profile :
            [op |-> "setProfile", e |-> e, profile |-> x] \in AccountWork
       /\ \A x \in Password :
            [op |-> "mailPassword", e |-> e, password |-> x] \in AccountWork
       /\ \A op \in {"mailCode", "putCode", "putVerified"}, kind \in Kind, k \in Code :
            [op |-> op, e |-> e, kind |-> kind, code |-> k] \in AccountWork
<1>1. ASSUME NEW e \in Email
      PROVE  /\ \A role \in Role, by \in {"admin", "register"} :
                  [op |-> "insertUser", e |-> e, role |-> role, by |-> by] \in InsertUser
             /\ \A row \in UserRow :
                  /\ [op |-> "saveStatus", e |-> e, row |-> row] \in SaveRow
                  /\ [op |-> "savePassword", e |-> e, row |-> row] \in SaveRow
             /\ \A x \in Profile :
                  [op |-> "setProfile", e |-> e, profile |-> x] \in PutProfile
             /\ \A x \in Password :
                  [op |-> "mailPassword", e |-> e, password |-> x] \in Letter
  BY DEF InsertUser, SaveRow, PutProfile, Letter
<1>2. ASSUME NEW e \in Email, NEW op \in {"mailCode", "putCode", "putVerified"},
             NEW kind \in Kind, NEW k \in Code
      PROVE  [op |-> op, e |-> e, kind |-> kind, code |-> k] \in OnCode
  BY DEF OnCode
<1> QED BY <1>1, <1>2 DEF AccountWork

\* A row that exists.
LEMMA UserThere ==
  ASSUME AccountsTypeOK, NEW e \in Email, user[e].status # "none"
  PROVE  user[e] \in UserRow
BY DEF AccountsTypeOK, Absent

LEMMA UserExists ==
  ASSUME AccountsTypeOK, NEW e \in Email, Exists(e)
  PROVE  user[e] \in UserRow
BY DEF AccountsTypeOK, Exists

\* A step of call c that leaves it w.
LEMMA AccountStep ==
  ASSUME AccountsInv, AccountsTypeOK', NEW c \in Call, NEW w,
         work' = [work EXCEPT ![c] = w],
         mailed \subseteq mailed', accepted \subseteq accepted',
         \A e \in Email : user[e] # Absent => user'[e] # Absent,
         \A e \in Email, kind \in Kind :
           \/ otp'[e][kind] = otp[e][kind]
           \/ KeptCode(e, kind, otp'[e][kind], mailed', accepted'),
         \A a \in acted' : a \in acted \/ Proved(a[1], a[2], mailed', accepted'),
         Lawful(w, user', mailed', accepted'),
         accidents' = 0 => /\ accidents = 0
                           /\ \A e \in Email : \A x : InPost(x, e, letters, work)
                                => InPost(x, e, letters', work'),
         \A e \in Email : user'[e] # Absent
           => \/ user[e] # Absent /\ user'[e].password = user[e].password
              \/ accidents' = 0 => InPost(user'[e].password, e, letters', work'),
         w.op = "saveStatus" /\ accidents' = 0
           => InPost(w.row.password, w.e, letters', work')
  PROVE  AccountsInv'
<1>1. /\ work'[c] = w
      /\ \A d \in Call \ {c} : work'[d] = work[d]
  BY DEF AccountsInv, AccountsTypeOK
<1>2. \A e, kind : Proved(e, kind, mailed, accepted) => Proved(e, kind, mailed', accepted')
  BY DEF Proved
<1>3. \A d \in Call : Lawful(work[d], user, mailed, accepted)
                        => Lawful(work[d], user', mailed', accepted')
  <2> SUFFICES ASSUME NEW d \in Call, Lawful(work[d], user, mailed, accepted)
               PROVE  Lawful(work[d], user', mailed', accepted')
    OBVIOUS
  <2>1. work[d].op = "setProfile" => work[d].e \in Email
    BY AccountWorkFields DEF AccountsInv, AccountsTypeOK, PutProfile
  <2> QED BY <1>2, <2>1 DEF Lawful
<1>4. \A e \in Email, kind \in Kind : KeptCode(e, kind, otp'[e][kind], mailed', accepted')
  BY DEF AccountsInv, CodesInv, KeptCode
<1>5. \A a \in acted' : Proved(a[1], a[2], mailed', accepted')
  BY <1>2 DEF AccountsInv, CodesInv
<1>6. CodesInv'
  BY <1>1, <1>3, <1>4, <1>5 DEF AccountsInv, CodesInv
<1>7. PasswordsInv'
  <2> SUFFICES ASSUME accidents' = 0
               PROVE  /\ \A e \in Email : user'[e] # Absent
                           => InPost(user'[e].password, e, letters', work')
                      /\ \A d \in Call : work'[d].op = "saveStatus"
                           => InPost(work'[d].row.password, work'[d].e, letters', work')
    BY DEF PasswordsInv
  <2>1. \A e \in Email : user'[e] # Absent
          => InPost(user'[e].password, e, letters', work')
    BY DEF AccountsInv, PasswordsInv
  <2>2. \A d \in Call \ {c} : work[d].op = "saveStatus"
          => InPost(work[d].row.password, work[d].e, letters', work')
    <3>1. \A d \in Call : work[d].op = "saveStatus" => work[d].e \in Email
      BY AccountWorkFields DEF AccountsInv, AccountsTypeOK, SaveRow
    <3> QED BY <3>1 DEF AccountsInv, PasswordsInv
  <2> QED BY <1>1, <2>1, <2>2
<1> QED BY <1>6, <1>7 DEF AccountsInv

\* What is in the post stays there while a call does something else.
LEMMA PostStays ==
  ASSUME AccountsInv, NEW c \in Call, NEW w, work' = [work EXCEPT ![c] = w],
         work[c].op \notin {"mailPassword", "savePassword"},
         UNCHANGED letters
  PROVE  \A e \in Email : \A x : InPost(x, e, letters, work)
                                   => InPost(x, e, letters', work')
<1>1. \A d \in Call : d = c \/ work'[d] = work[d]
  BY DEF AccountsInv, AccountsTypeOK
<1> QED BY <1>1 DEF InPost

\* A call that starts.
LEMMA AccountStart ==
  ASSUME AccountsInv, NEW c \in Call, NEW w \in AccountWork, Start(c, w),
         UNCHANGED <<user, otp, letters, mailed, acted>>,
         accepted \subseteq accepted', accepted' \in SUBSET Codes,
         Lawful(w, user, mailed, accepted'),
         w.op = "saveStatus" =>
           \E e \in Email : w.e = e /\ Exists(e) /\ w.row.password = user[e].password
  PROVE  AccountsInv'
<1>1. /\ work' = [work EXCEPT ![c] = w] /\ accidents' = accidents
      /\ work[c].op = "idle"
  BY DEF Start, Goto, Idle
<1>2. AccountsTypeOK'
  BY <1>1 DEF AccountsInv, AccountsTypeOK
<1>3. \A e \in Email : \A x : InPost(x, e, letters, work)
                                => InPost(x, e, letters', work')
  BY <1>1, PostStays
<1>4. w.op = "saveStatus" /\ accidents' = 0 => InPost(w.row.password, w.e, letters', work')
  BY <1>1, <1>3 DEF AccountsInv, PasswordsInv, Exists
<1> QED BY <1>1, <1>2, <1>3, <1>4, AccountStep

LEMMA CreateKeepsAccounts ==
  ASSUME AccountsInv, NEW c \in Call, NEW e \in Email, NEW role \in Role,
         NEW by \in {"admin", "register"}, Create(c, e, role, by),
         by = "register" => Proved(e, "register", mailed, accepted)
  PROVE  AccountsInv'
<1> DEFINE w == [op |-> "insertUser", e |-> e, role |-> role, by |-> by]
<1>1. w \in AccountWork
  BY NextAccountWork
<1>2. Start(c, w) /\ UNCHANGED accounts
  BY DEF Create
<1>3. w.op = "insertUser" /\ w.by = by /\ w.e = e
  OBVIOUS
<1> HIDE DEF w
<1>4. Lawful(w, user, mailed, accepted)
  BY <1>3 DEF Lawful
<1>5. accepted \subseteq accepted' /\ accepted' \in SUBSET Codes
  BY <1>2 DEF accounts, AccountsInv, AccountsTypeOK
<1> QED BY <1>1, <1>2, <1>3, <1>4, <1>5, AccountStart DEF accounts

\* Who has a verified code was mailed it and gave it.
LEMMA VerifiedIsProved ==
  ASSUME AccountsInv, NEW e \in Email, NEW kind \in Kind,
         otp[e][kind].status = "verified"
  PROVE  Proved(e, kind, mailed, accepted)
<1>1. otp[e][kind] \in Otp /\ otp[e][kind] # Absent
  BY DEF AccountsInv, AccountsTypeOK, Absent
<1>2. otp[e][kind].code \in Code
  BY <1>1 DEF Otp
<1>3. KeptCode(e, kind, otp[e][kind], mailed, accepted)
  BY DEF AccountsInv, CodesInv
<1> QED BY <1>1, <1>2, <1>3 DEF KeptCode, Proved

LEMMA UpdatesKeepAccounts ==
  ASSUME AccountsInv, NEW c \in Call, NEW e \in Email,
         \/ \E s \in Decision : UpdateStatus(c, e, s)
         \/ \E p \in Profile : UpdateUser(c, e, p)
         \/ ResetPassword(c, e)
  PROVE  AccountsInv'
<1>1. UNCHANGED accounts /\ Exists(e)
  BY DEF UpdateStatus, UpdateUser, ResetPassword
<1>2. user[e] \in UserRow
  BY <1>1, UserExists DEF AccountsInv
<1>3. accepted' = accepted /\ accepted \in SUBSET Codes
  BY <1>1 DEF accounts, AccountsInv, AccountsTypeOK
<1>4. ASSUME NEW s \in Decision, UpdateStatus(c, e, s)
      PROVE  AccountsInv'
  <2> DEFINE row == [user[e] EXCEPT !.status = s]
             w == [op |-> "saveStatus", e |-> e, row |-> row]
  <2>1. s \in UserStatus
    BY AccountsAssumption DEF UserStatus
  <2>2. row \in UserRow /\ row.password = user[e].password
    BY <1>2, <2>1 DEF UserRow
  <2>3. Start(c, w)
    BY <1>4 DEF UpdateStatus
  <2> HIDE DEF row
  <2>4. w \in AccountWork
    BY <2>2, NextAccountWork
  <2>5. w.op = "saveStatus" /\ w.e = e /\ w.row = row
    OBVIOUS
  <2> HIDE DEF w
  <2>6. Lawful(w, user, mailed, accepted')
    BY <2>5 DEF Lawful
  <2> QED BY <1>1, <1>3, <2>2, <2>3, <2>4, <2>5, <2>6, AccountStart DEF accounts
<1>5. ASSUME NEW p \in Profile, UpdateUser(c, e, p)
      PROVE  AccountsInv'
  <2> DEFINE w == [op |-> "setProfile", e |-> e, profile |-> p]
  <2>1. w \in AccountWork
    BY NextAccountWork
  <2>2. Start(c, w) /\ w.op = "setProfile" /\ w.e = e
    BY <1>5 DEF UpdateUser
  <2> HIDE DEF w
  <2>3. Lawful(w, user, mailed, accepted')
    BY <1>1, <2>2 DEF Lawful, Exists
  <2> QED BY <1>1, <1>3, <2>1, <2>2, <2>3, AccountStart DEF accounts
<1>6. ASSUME ResetPassword(c, e)
      PROVE  AccountsInv'
  <2>1. PICK x \in Generated :
          Start(c, [op |-> "savePassword", e |-> e,
                    row |-> [user[e] EXCEPT !.password = x]])
    BY <1>6 DEF ResetPassword
  <2> DEFINE row == [user[e] EXCEPT !.password = x]
             w == [op |-> "savePassword", e |-> e, row |-> row]
  <2>2. row \in UserRow
    BY <1>2 DEF UserRow, Generated
  <2> HIDE DEF row
  <2>3. w \in AccountWork
    BY <2>2, NextAccountWork
  <2>4. w.op = "savePassword" /\ w.e = e
    OBVIOUS
  <2>5. Start(c, w)
    BY <2>1 DEF row
  <2> HIDE DEF w
  <2>6. Proved(e, "forgotPassword", mailed, accepted)
    BY <1>6, VerifiedIsProved DEF ResetPassword, Kind
  <2>7. Lawful(w, user, mailed, accepted')
    BY <1>3, <2>4, <2>6 DEF Lawful
  <2> QED BY <1>1, <1>3, <2>3, <2>4, <2>5, <2>7, AccountStart DEF accounts
<1> QED BY <1>4, <1>5, <1>6

LEMMA DrawKeepsAccounts ==
  ASSUME AccountsInv, NEW c \in Call, NEW e \in Email, NEW kind \in Kind,
         DrawCode(c, e, kind)
  PROVE  AccountsInv'
<1>1. PICK k \in Code :
        Start(c, [op |-> "mailCode", e |-> e, kind |-> kind, code |-> k])
  BY DEF DrawCode
<1> DEFINE w == [op |-> "mailCode", e |-> e, kind |-> kind, code |-> k]
<1>2. w \in AccountWork
  BY NextAccountWork
<1>3. Start(c, w) /\ w.op = "mailCode"
  BY <1>1
<1> HIDE DEF w
<1>4. UNCHANGED accounts
  BY DEF DrawCode
<1>5. Lawful(w, user, mailed, accepted')
  BY <1>3 DEF Lawful
<1>6. accepted \subseteq accepted' /\ accepted' \in SUBSET Codes
  BY <1>4 DEF accounts, AccountsInv, AccountsTypeOK
<1> QED BY <1>2, <1>3, <1>4, <1>5, <1>6, AccountStart DEF accounts

LEMMA VerifyKeepsAccounts ==
  ASSUME AccountsInv, NEW c \in Call, NEW e \in Email, NEW kind \in Kind,
         NEW k \in Code, VerifyOTP(c, e, kind, k)
  PROVE  AccountsInv'
<1> DEFINE w == [op |-> "putVerified", e |-> e, kind |-> kind, code |-> k]
<1>1. w \in AccountWork
  BY NextAccountWork
<1>2. /\ Start(c, w) /\ w.op = "putVerified" /\ w.e = e /\ w.kind = kind /\ w.code = k
      /\ accepted' = accepted \cup {<<e, kind, k>>}
      /\ UNCHANGED <<user, otp, letters, mailed, acted>>
      /\ otp[e][kind].code = k /\ otp[e][kind].status = "pending"
  BY DEF VerifyOTP
<1> HIDE DEF w
<1>3. otp[e][kind] # Absent
  BY <1>2 DEF Absent
<1>4. <<e, kind, k>> \in mailed
  BY <1>2, <1>3 DEF AccountsInv, CodesInv, KeptCode
<1>5. Lawful(w, user, mailed, accepted')
  BY <1>2, <1>4 DEF Lawful
<1>6. accepted \subseteq accepted' /\ accepted' \in SUBSET Codes
  BY <1>2 DEF AccountsInv, AccountsTypeOK, Codes
<1> QED BY <1>1, <1>2, <1>5, <1>6, AccountStart

LEMMA ArrivalKeepsAccounts ==
  ASSUME AccountsInv, NEW c \in Call, AccountArrives(c)
  PROVE  AccountsInv'
<1>1. ASSUME NEW e \in Email, NEW role \in Role, CreateUser(c, e, role)
      PROVE  AccountsInv'
  BY <1>1, CreateKeepsAccounts DEF CreateUser
<1>2. ASSUME NEW e \in Email,
             \/ \E s \in Decision : UpdateStatus(c, e, s)
             \/ \E p \in Profile : UpdateUser(c, e, p)
             \/ ResetPassword(c, e)
      PROVE  AccountsInv'
  BY <1>2, UpdatesKeepAccounts
<1>3. ASSUME NEW e \in Email, Register(c, e)
      PROVE  AccountsInv'
  <2>1. Proved(e, "register", mailed, accepted)
    BY <1>3, VerifiedIsProved DEF Register, Kind
  <2> QED BY <1>3, <2>1, CreateKeepsAccounts, AccountsAssumption DEF Register
<1>4. ASSUME NEW e \in Email, SendOTPRegister(c, e) \/ SendOTPForgotPassword(c, e)
      PROVE  AccountsInv'
  BY <1>4, DrawKeepsAccounts DEF SendOTPRegister, SendOTPForgotPassword, Kind
<1>5. ASSUME NEW e \in Email, \E kind \in Kind, k \in Code : VerifyOTP(c, e, kind, k)
      PROVE  AccountsInv'
  BY <1>5, VerifyKeepsAccounts
<1>6. Renter \subseteq Email
  BY AccountsAssumption
<1> QED BY <1>1, <1>2, <1>3, <1>4, <1>5, <1>6 DEF AccountArrives

-----------------------------------------------------------------------------
LEMMA AccountWorkAt ==
  ASSUME AccountsInv, NEW c \in Call
  PROVE  work[c] \in AccountWork /\ Lawful(work[c], user, mailed, accepted)
BY DEF AccountsInv, AccountsTypeOK, CodesInv

\* A new account: its password is on the way to it.
LEMMA SaveUserKeepsAccounts ==
  ASSUME AccountsInv, NEW c \in Call, SaveUser(c)
  PROVE  AccountsInv'
<1> DEFINE e == work[c].e
<1>1. /\ e \in Email /\ work[c].role \in Role /\ work[c].op = "insertUser"
      /\ work[c].by = "register" => Proved(e, "register", mailed, accepted)
  BY AccountWorkAt, AccountWorkFields DEF SaveUser, InsertUser, Lawful
<1>2. UNCHANGED <<otp, letters, mailed, accepted, accidents, serial>>
  BY DEF SaveUser, Goto
<1>3. CASE Goto(c, Idle) /\ UNCHANGED <<user, acted>>
  <2>1. work' = [work EXCEPT ![c] = Idle]
    BY <1>3 DEF Goto
  <2>2. AccountsTypeOK'
    BY <1>2, <1>3, <2>1, NextAccountWork DEF AccountsInv, AccountsTypeOK
  <2>3. \A x \in Email : \A y : InPost(y, x, letters, work)
                                  => InPost(y, x, letters', work')
    BY <1>1, <1>2, <2>1, PostStays
  <2>4. Idle.op = "idle"
    BY DEF Idle
  <2>5. Lawful(Idle, user', mailed', accepted')
    BY <2>4 DEF Lawful
  <2> QED BY <1>2, <1>3, <2>1, <2>2, <2>3, <2>4, <2>5, AccountStep
<1>4. ASSUME NEW x \in Generated, NEW p \in Profile, ~Exists(e),
             user' = [user EXCEPT ![e] =
                        [role |-> work[c].role, status |-> "pending",
                         password |-> x, profile |-> p]],
             acted' = IF work[c].by = "register" THEN acted \cup {<<e, "register">>}
                      ELSE acted,
             Goto(c, [op |-> "mailPassword", e |-> e, password |-> x])
      PROVE  AccountsInv'
  <2> DEFINE row == [role |-> work[c].role, status |-> "pending",
                     password |-> x, profile |-> p]
             w == [op |-> "mailPassword", e |-> e, password |-> x]
  <2>1. row \in UserRow /\ row.password = x /\ x \in Password
    BY <1>1 DEF UserRow, UserStatus, Generated
  <2>2. w \in AccountWork
    BY <1>1, <2>1, NextAccountWork
  <2>3. w.op = "mailPassword" /\ w.e = e /\ w.password = x
    OBVIOUS
  <2>4. work' = [work EXCEPT ![c] = w] /\ user' = [user EXCEPT ![e] = row]
    BY <1>4 DEF Goto
  <2> HIDE DEF w, row
  <2>5. acted' \in SUBSET (Email \X Kind)
    BY <1>1, <1>4 DEF AccountsInv, AccountsTypeOK, Kind
  <2>6. AccountsTypeOK'
    BY <1>1, <1>2, <2>1, <2>2, <2>4, <2>5 DEF AccountsInv, AccountsTypeOK
  <2>7. \A y \in Email : \A z : InPost(z, y, letters, work)
                                  => InPost(z, y, letters', work')
    BY <1>1, <1>2, <2>4, PostStays
  <2>8. InPost(x, e, letters', work')
    BY <2>3, <2>4 DEF InPost, AccountsInv, AccountsTypeOK
  <2>9. /\ \A y \in Email \ {e} : user'[y] = user[y]
        /\ user'[e] = row
    BY <1>1, <2>4 DEF AccountsInv, AccountsTypeOK
  <2>10. row # Absent
    BY <2>1 DEF UserRow, UserStatus, Absent
  <2>11. \A a \in acted' : a \in acted \/ Proved(a[1], a[2], mailed', accepted')
    BY <1>1, <1>2, <1>4
  <2>12. Lawful(w, user', mailed', accepted')
    BY <2>3 DEF Lawful
  <2>13. \A y \in Email : user'[y] # Absent
           => \/ user[y] # Absent /\ user'[y].password = user[y].password
              \/ accidents' = 0 => InPost(user'[y].password, y, letters', work')
    BY <2>1, <2>8, <2>9
  <2>14. \A y \in Email : user[y] # Absent => user'[y] # Absent
    BY <2>9, <2>10
  <2> QED BY <1>2, <2>3, <2>4, <2>6, <2>7, <2>11, <2>12, <2>13, <2>14, AccountStep
<1> QED BY <1>3, <1>4 DEF SaveUser

\* The password leaves the post for the letters.
LEMMA MailPasswordKeepsAccounts ==
  ASSUME AccountsInv, NEW c \in Call, MailPassword(c)
  PROVE  AccountsInv'
<1> DEFINE e == work[c].e
           x == work[c].password
<1>1. work[c].op = "mailPassword" /\ e \in Email /\ x \in Password
  BY AccountWorkAt, AccountWorkFields DEF MailPassword, Letter
<1>2. /\ letters' = [letters EXCEPT ![e] = letters[e] \cup {x}]
      /\ work' = [work EXCEPT ![c] = Idle]
      /\ UNCHANGED <<user, otp, mailed, accepted, acted, accidents, serial>>
  BY DEF MailPassword, Goto
<1>3. AccountsTypeOK'
  <2>1. letters' \in [Email -> SUBSET Password]
    BY <1>1, <1>2 DEF AccountsInv, AccountsTypeOK
  <2> QED BY <1>2, <2>1, NextAccountWork DEF AccountsInv, AccountsTypeOK
<1>4. \A y \in Email : \A z : InPost(z, y, letters, work)
                                => InPost(z, y, letters', work')
  <2> SUFFICES ASSUME NEW y \in Email, NEW z, InPost(z, y, letters, work)
               PROVE  InPost(z, y, letters', work')
    OBVIOUS
  <2>1. letters[y] \subseteq letters'[y] /\ x \in letters'[e]
    BY <1>1, <1>2 DEF AccountsInv, AccountsTypeOK
  <2>2. CASE z \in letters[y]
    BY <2>1, <2>2 DEF InPost
  <2>3. ASSUME NEW d \in Call,
               \/ work[d].op = "mailPassword" /\ work[d].e = y /\ work[d].password = z
               \/ work[d].op = "savePassword" /\ work[d].e = y /\ work[d].row.password = z
        PROVE  InPost(z, y, letters', work')
    <3>1. CASE d = c
      BY <1>1, <2>1, <2>3, <3>1 DEF InPost
    <3>2. CASE d # c
      <4>1. work'[d] = work[d]
        BY <1>2, <3>2 DEF AccountsInv, AccountsTypeOK
      <4> QED BY <2>3, <4>1 DEF InPost
    <3> QED BY <3>1, <3>2
  <2> QED BY <2>2, <2>3 DEF InPost
<1>5. Idle.op = "idle"
  BY DEF Idle
<1>6. Lawful(Idle, user', mailed', accepted')
  BY <1>5 DEF Lawful
<1> QED BY <1>2, <1>3, <1>4, <1>5, <1>6, AccountStep

\* A row that was read is put back, with another status.
LEMMA SaveStatusKeepsAccounts ==
  ASSUME AccountsInv, NEW c \in Call, SaveUserRow(c), work[c].op = "saveStatus"
  PROVE  AccountsInv'
<1> DEFINE e == work[c].e
           row == work[c].row
<1>1. e \in Email /\ row \in UserRow
  BY AccountWorkAt, AccountWorkFields DEF SaveRow
<1>2. /\ user' = [user EXCEPT ![e] = row]
      /\ work' = [work EXCEPT ![c] = Idle]
      /\ UNCHANGED <<otp, letters, mailed, accepted, acted, accidents, serial>>
  BY DEF SaveUserRow, Goto
<1>3. AccountsTypeOK'
  BY <1>1, <1>2, NextAccountWork DEF AccountsInv, AccountsTypeOK
<1>4. \A y \in Email : \A z : InPost(z, y, letters, work)
                                => InPost(z, y, letters', work')
  BY <1>2, PostStays
<1>5. accidents = 0 => InPost(row.password, e, letters, work)
  BY DEF AccountsInv, PasswordsInv
<1> HIDE DEF e, row
<1>6. \A y \in Email : \/ user'[y] = user[y]
                       \/ y = e /\ user'[y] = row
  BY <1>1, <1>2 DEF AccountsInv, AccountsTypeOK
<1>7. row # Absent
  BY <1>1 DEF UserRow, UserStatus, Absent
<1>8. \A y \in Email : user'[y] # Absent
        => \/ user[y] # Absent /\ user'[y].password = user[y].password
           \/ accidents' = 0 => InPost(user'[y].password, y, letters', work')
  BY <1>1, <1>2, <1>4, <1>5, <1>6
<1>9. Idle.op = "idle"
  BY DEF Idle
<1>10. Lawful(Idle, user', mailed', accepted')
  BY <1>9 DEF Lawful
<1>11. \A y \in Email : user[y] # Absent => user'[y] # Absent
  BY <1>6, <1>7
<1> QED BY <1>2, <1>3, <1>4, <1>8, <1>9, <1>10, <1>11, AccountStep

\* A new password stays in the post when it is saved.
LEMMA SavePasswordKeepsAccounts ==
  ASSUME AccountsInv, NEW c \in Call, SaveUserRow(c), work[c].op = "savePassword"
  PROVE  AccountsInv'
<1> DEFINE e == work[c].e
           row == work[c].row
           w == [op |-> "mailPassword", e |-> e, password |-> row.password]
<1>1. /\ e \in Email /\ row \in UserRow
      /\ Proved(e, "forgotPassword", mailed, accepted)
  BY AccountWorkAt, AccountWorkFields DEF SaveRow, Lawful
<1>2. /\ user' = [user EXCEPT ![e] = row]
      /\ acted' = acted \cup {<<e, "forgotPassword">>}
      /\ work' = [work EXCEPT ![c] = w]
      /\ UNCHANGED <<otp, letters, mailed, accepted, accidents, serial>>
  BY DEF SaveUserRow, Goto
<1>3. work[c].e = e /\ work[c].row = row
  OBVIOUS
<1>4. w \in AccountWork
  BY <1>1, NextAccountWork DEF UserRow
<1>5. w.op = "mailPassword" /\ w.e = e /\ w.password = row.password
  OBVIOUS
<1> HIDE DEF e, row, w
<1>6. acted' \in SUBSET (Email \X Kind)
  BY <1>1, <1>2 DEF AccountsInv, AccountsTypeOK, Kind
<1>7. AccountsTypeOK'
  BY <1>1, <1>2, <1>4, <1>6 DEF AccountsInv, AccountsTypeOK
<1>8. /\ work'[c] = w
      /\ \A d \in Call \ {c} : work'[d] = work[d]
  BY <1>2 DEF AccountsInv, AccountsTypeOK
<1>9. \A y \in Email : \A z : InPost(z, y, letters, work)
                                => InPost(z, y, letters', work')
  <2> SUFFICES ASSUME NEW y \in Email, NEW z, InPost(z, y, letters, work)
               PROVE  InPost(z, y, letters', work')
    OBVIOUS
  <2>1. CASE z \in letters[y]
    BY <1>2, <2>1 DEF InPost
  <2>2. ASSUME NEW d \in Call,
               \/ work[d].op = "mailPassword" /\ work[d].e = y /\ work[d].password = z
               \/ work[d].op = "savePassword" /\ work[d].e = y /\ work[d].row.password = z
        PROVE  InPost(z, y, letters', work')
    <3>1. CASE d = c
      BY <1>3, <1>5, <1>8, <2>2, <3>1 DEF InPost
    <3>2. CASE d # c
      BY <1>8, <2>2, <3>2 DEF InPost
    <3> QED BY <3>1, <3>2
  <2> QED BY <2>1, <2>2 DEF InPost
<1>10. InPost(row.password, e, letters', work')
  BY <1>5, <1>8 DEF InPost
<1>11. \A y \in Email : \/ user'[y] = user[y]
                        \/ y = e /\ user'[y] = row
  BY <1>1, <1>2 DEF AccountsInv, AccountsTypeOK
<1>12. row # Absent
  BY <1>1 DEF UserRow, UserStatus, Absent
<1>13. \A y \in Email : user[y] # Absent => user'[y] # Absent
  BY <1>11, <1>12
<1>14. Lawful(w, user', mailed', accepted')
  BY <1>5 DEF Lawful
<1>15. \A a \in acted' : a \in acted \/ Proved(a[1], a[2], mailed', accepted')
  BY <1>1, <1>2
<1>16. \A y \in Email : user'[y] # Absent
         => \/ user[y] # Absent /\ user'[y].password = user[y].password
            \/ accidents' = 0 => InPost(user'[y].password, y, letters', work')
  BY <1>10, <1>11
<1> QED BY <1>2, <1>5, <1>7, <1>9, <1>13, <1>14, <1>15, <1>16, AccountStep

LEMMA SetProfileKeepsAccounts ==
  ASSUME AccountsInv, NEW c \in Call, SetProfile(c)
  PROVE  AccountsInv'
<1> DEFINE e == work[c].e
           row == [user[e] EXCEPT !.profile = work[c].profile]
<1>1. /\ work[c].op = "setProfile" /\ e \in Email /\ work[c].profile \in Profile
      /\ user[e] # Absent
  BY AccountWorkAt, AccountWorkFields DEF SetProfile, PutProfile, Lawful
<1>2. user[e] \in UserRow
  BY <1>1, UserExists DEF AccountsInv, Exists
<1>3. row \in UserRow /\ row.password = user[e].password
  BY <1>1, <1>2 DEF UserRow
<1>4. /\ user' = [user EXCEPT ![e] = row]
      /\ work' = [work EXCEPT ![c] = Idle]
      /\ UNCHANGED <<otp, letters, mailed, accepted, acted, accidents, serial>>
  BY DEF SetProfile, Goto
<1> HIDE DEF e, row
<1>5. AccountsTypeOK'
  BY <1>1, <1>3, <1>4, NextAccountWork DEF AccountsInv, AccountsTypeOK
<1>6. \A y \in Email : \A z : InPost(z, y, letters, work)
                                => InPost(z, y, letters', work')
  BY <1>1, <1>4, PostStays
<1>7. \A y \in Email : \/ user'[y] = user[y]
                       \/ y = e /\ user'[y] = row
  BY <1>1, <1>4 DEF AccountsInv, AccountsTypeOK
<1>8. row # Absent
  BY <1>3 DEF UserRow, UserStatus, Absent
<1>9. Idle.op = "idle"
  BY DEF Idle
<1>10. Lawful(Idle, user', mailed', accepted')
  BY <1>9 DEF Lawful
<1>11. \A y \in Email : user'[y] # Absent
         => user[y] # Absent /\ user'[y].password = user[y].password
  BY <1>1, <1>3, <1>7
<1>12. \A y \in Email : user[y] # Absent => user'[y] # Absent
  BY <1>7, <1>8
<1> QED BY <1>4, <1>5, <1>6, <1>9, <1>10, <1>11, <1>12, AccountStep

LEMMA MailCodeKeepsAccounts ==
  ASSUME AccountsInv, NEW c \in Call, MailCode(c)
  PROVE  AccountsInv'
<1> DEFINE w == [work[c] EXCEPT !.op = "putCode"]
           t == <<work[c].e, work[c].kind, work[c].code>>
<1>1. work[c].op = "mailCode" /\ work[c] \in OnCode
  BY AccountWorkAt, AccountWorkFields DEF MailCode
<1>2. /\ work[c].e \in Email /\ work[c].kind \in Kind /\ work[c].code \in Code
      /\ w = [op |-> "putCode", e |-> work[c].e, kind |-> work[c].kind,
              code |-> work[c].code]
  BY <1>1 DEF OnCode
<1>3. /\ w.op = "putCode" /\ <<w.e, w.kind, w.code>> = t
      /\ w \in AccountWork
  BY <1>2, NextAccountWork
<1>4. t \in Codes
  BY <1>2 DEF Codes
<1>5. /\ mailed' = mailed \cup {t}
      /\ work' = [work EXCEPT ![c] = w]
      /\ UNCHANGED <<user, otp, letters, accepted, acted, accidents, serial>>
  BY DEF MailCode, Goto
<1> HIDE DEF w, t
<1>6. AccountsTypeOK'
  BY <1>3, <1>4, <1>5 DEF AccountsInv, AccountsTypeOK
<1>7. \A y \in Email : \A z : InPost(z, y, letters, work)
                                => InPost(z, y, letters', work')
  BY <1>1, <1>5, PostStays
<1>8. Lawful(w, user', mailed', accepted')
  BY <1>3, <1>5 DEF Lawful
<1> QED BY <1>3, <1>5, <1>6, <1>7, <1>8, AccountStep

\* putCode, putVerified: over what is kept.
LEMMA KeepCodeKeepsAccounts ==
  ASSUME AccountsInv, NEW c \in Call, PutCode(c) \/ PutVerified(c)
  PROVE  AccountsInv'
<1> DEFINE e == work[c].e
           kind == work[c].kind
           k == work[c].code
<1>1. work[c].op \in {"putCode", "putVerified"}
  BY DEF PutCode, PutVerified
<1>2. /\ e \in Email /\ kind \in Kind /\ k \in Code
      /\ <<e, kind, k>> \in mailed
      /\ work[c].op = "putVerified" => <<e, kind, k>> \in accepted
  BY <1>1, AccountWorkAt, AccountWorkFields DEF OnCode, Lawful
<1>3. PICK st \in {"pending", "verified"} :
        /\ otp' = [otp EXCEPT ![e][kind] = [code |-> k, status |-> st]]
        /\ st = "verified" => work[c].op = "putVerified"
  BY DEF PutCode, PutVerified
<1>4. /\ work' = [work EXCEPT ![c] = Idle]
      /\ UNCHANGED <<user, letters, mailed, accepted, acted, accidents, serial>>
  BY DEF PutCode, PutVerified, Goto
<1> DEFINE row == [code |-> k, status |-> st]
<1>5. row \in Otp /\ row.code = k /\ row.status = st
  BY <1>2 DEF Otp
<1>6. otp' = [otp EXCEPT ![e][kind] = row]
  BY <1>3
<1> HIDE DEF e, kind, k, row
<1>7. otp' \in [Email -> [Kind -> Otp \cup {Absent}]]
  <2>1. otp[e] \in [Kind -> Otp \cup {Absent}]
    BY <1>2 DEF AccountsInv, AccountsTypeOK
  <2>2. [otp[e] EXCEPT ![kind] = row] \in [Kind -> Otp \cup {Absent}]
    BY <1>5, <2>1
  <2> QED BY <1>2, <1>6, <2>2 DEF AccountsInv, AccountsTypeOK
<1>8. AccountsTypeOK'
  BY <1>4, <1>7, NextAccountWork DEF AccountsInv, AccountsTypeOK
<1>9. \A y \in Email, z \in Kind :
        \/ otp'[y][z] = otp[y][z]
        \/ y = e /\ z = kind /\ otp'[y][z] = row
  BY <1>2, <1>6 DEF AccountsInv, AccountsTypeOK
<1>10. KeptCode(e, kind, row, mailed', accepted')
  BY <1>2, <1>3, <1>4, <1>5 DEF KeptCode
<1>11. \A y \in Email : \A z : InPost(z, y, letters, work)
                                => InPost(z, y, letters', work')
  BY <1>1, <1>4, PostStays
<1>12. Idle.op = "idle"
  BY DEF Idle
<1>13. Lawful(Idle, user', mailed', accepted')
  BY <1>12 DEF Lawful
<1>14. \A y \in Email, z \in Kind :
         \/ otp'[y][z] = otp[y][z]
         \/ KeptCode(y, z, otp'[y][z], mailed', accepted')
  BY <1>9, <1>10
<1> QED BY <1>4, <1>8, <1>11, <1>12, <1>13, <1>14, AccountStep

LEMMA FailKeepsAccounts ==
  ASSUME AccountsInv, NEW c \in Call, Fail(c), UNCHANGED accounts
  PROVE  AccountsInv'
<1>1. /\ work' = [work EXCEPT ![c] = Idle] /\ accidents' = accidents + 1
      /\ UNCHANGED <<user, otp, letters, mailed, accepted, acted, serial>>
  BY DEF Fail, accounts
<1>2. AccountsTypeOK' /\ accidents' # 0
  BY <1>1, NextAccountWork DEF AccountsInv, AccountsTypeOK
<1>3. Idle.op = "idle"
  BY DEF Idle
<1>4. Lawful(Idle, user', mailed', accepted')
  BY <1>3 DEF Lawful
<1> QED BY <1>1, <1>2, <1>3, <1>4, AccountStep

LEMMA AccountsKept ==
  ASSUME AccountsInv, AccountsNext
  PROVE  AccountsInv'
<1>1. ASSUME NEW c \in Call, SaveUserRow(c)
      PROVE  AccountsInv'
  BY <1>1, SaveStatusKeepsAccounts, SavePasswordKeepsAccounts DEF SaveUserRow
<1> QED
  BY <1>1, ArrivalKeepsAccounts, SaveUserKeepsAccounts, MailPasswordKeepsAccounts,
     SetProfileKeepsAccounts, MailCodeKeepsAccounts, KeepCodeKeepsAccounts,
     FailKeepsAccounts DEF AccountsNext, AccountContinues

LEMMA AccountsStart ==
  ASSUME AccountsInit
  PROVE  AccountsInv
<1>1. AccountsTypeOK
  BY NextAccountWork DEF AccountsInit, CallsInit, AccountsTypeOK
<1>2. CodesInv
  BY DEF AccountsInit, CallsInit, CodesInv, KeptCode, Lawful, Idle
<1>3. PasswordsInv
  BY DEF AccountsInit, CallsInit, PasswordsInv, Idle
<1> QED BY <1>1, <1>2, <1>3 DEF AccountsInv

LEMMA AccountsInvGives ==
  ASSUME AccountsInv
  PROVE  AccountsTypeOK /\ CodeBeforeAct /\ PasswordIsKnown
<1>1. CodeBeforeAct
  BY DEF AccountsInv, CodesInv, CodeBeforeAct, Proved, KeptCode
<1>2. PasswordIsKnown
  <2>1. \A e \in Email : \A x : InPost(x, e, letters, work)
                                  => x \in letters[e] \cup OnTheWay(e)
    BY DEF InPost, OnTheWay
  <2> QED BY <2>1 DEF AccountsInv, PasswordsInv, PasswordIsKnown, Exists
<1> QED BY <1>1, <1>2 DEF AccountsInv

-----------------------------------------------------------------------------
\* The catalogue.  The rows of a table sn of seasons, and those of one type.
Rows(sn) == {s \in Season : sn[s] # NoRow}
Typed(sn, type) == {s \in Season : sn[s] # NoRow /\ sn[s].type = type}

Most(type) == IF type = "in_season" THEN 1 ELSE 2

\* There are finitely many seasons, not more than may be, of a type in other months.
Fit(sn) ==
  /\ IsFiniteSet(Rows(sn))
  /\ \A type \in SeasonType : Cardinality(Typed(sn, type)) <= Most(type)
  /\ \A r, s \in Rows(sn) : r # s /\ sn[r].type = sn[s].type => sn[r].month # sn[s].month

\* The seasons will fit when w is written.
WillFit(w, sn) ==
  /\ w.op = "insertSeason" =>
       \A s \in Season : sn[s] = NoRow
         => Fit([sn EXCEPT ![s] = [month |-> w.month, type |-> w.type,
                                   status |-> "active"]])
  /\ w.op = "saveSeason" => Fit([sn EXCEPT ![w.s] = w.row])

\* The status of a row is the one decided, or will be when w is written.
Decided(w, sn, en, dc) ==
  /\ \A s \in Season : sn[s] # NoRow
       => sn[s].status = dc[s] \/ (w.op = "saveSeason" /\ w.s = s)
  /\ \A i \in Entry : en[i] # NoRow
       => en[i].status = dc[i] \/ (w.op = "saveEntry" /\ w.i = i)
  /\ w.op = "saveSeason" => w.row.status = dc[w.s]
  /\ w.op = "saveEntry" => w.row.status = dc[w.i]

\* While w is the only work in flight.
InOrder(w, sn, en, dc, acc) ==
  Fit(sn) /\ WillFit(w, sn) /\ (acc = 0 => Decided(w, sn, en, dc))

OneCall == \A c, d \in Call : work[c] # Idle /\ work[d] # Idle => c = d

CatalogueSerialInv ==
  serial => /\ OneCall
            /\ Quiet => InOrder(Idle, season, entry, decided, accidents)
            /\ \A c \in Call : work[c] # Idle
                 => InOrder(work[c], season, entry, decided, accidents)

\* A row that is saved is there.
Present(w, sn, en) == /\ w.op = "saveSeason" => sn[w.s] # NoRow
                      /\ w.op = "saveEntry" => en[w.i] # NoRow

CatalogueInv ==
  /\ CatalogueTypeOK
  /\ decided = [x \in Season \cup Entry |-> decided[x]]
  /\ \A c \in Call : Present(work[c], season, entry)
  /\ NamesDiffer
  /\ CatalogueSerialInv

-----------------------------------------------------------------------------
LEMMA CatalogueWorkFields ==
  ASSUME NEW w \in CatalogueWork
  PROVE  /\ w.op = "insertSeason" => w \in InsertSeason
         /\ w.op = "saveSeason" => w \in PutSeason
         /\ w.op = "insertEntry" => w \in InsertEntry
         /\ w.op = "saveEntry" => w \in PutEntry
BY DEF CatalogueWork, Idle, InsertSeason, PutSeason, InsertEntry, PutEntry

LEMMA NextCatalogueWork ==
  /\ Idle \in CatalogueWork
  /\ \A m \in Month, t \in SeasonType :
       [op |-> "insertSeason", month |-> m, type |-> t] \in CatalogueWork
  /\ \A s \in Season, row \in SeasonRow :
       [op |-> "saveSeason", s |-> s, row |-> row] \in CatalogueWork
  /\ \A n \in Name : [op |-> "insertEntry", name |-> n] \in CatalogueWork
  /\ \A i \in Entry, row \in EntryRow :
       [op |-> "saveEntry", i |-> i, row |-> row] \in CatalogueWork
<1>1. \A m \in Month, t \in SeasonType :
        [op |-> "insertSeason", month |-> m, type |-> t] \in InsertSeason
  BY DEF InsertSeason
<1>2. \A s \in Season, row \in SeasonRow :
        [op |-> "saveSeason", s |-> s, row |-> row] \in PutSeason
  BY DEF PutSeason
<1>3. \A n \in Name : [op |-> "insertEntry", name |-> n] \in InsertEntry
  BY DEF InsertEntry
<1>4. \A i \in Entry, row \in EntryRow :
        [op |-> "saveEntry", i |-> i, row |-> row] \in PutEntry
  BY DEF PutEntry
<1> QED BY <1>1, <1>2, <1>3, <1>4 DEF CatalogueWork

\* The statuses of entries, whatever the table.
LEMMA EntryStatuses ==
  /\ \A t \in Named : StatusOf(t) \subseteq UNION {StatusOf(u) : u \in Named}
  /\ {"active", "inactive", "free"} \subseteq UNION {StatusOf(u) : u \in Named}
<1>1. \A t \in Named : StatusOf(t) \in {StatusOf(u) : u \in Named}
  OBVIOUS
<1>2. \A t \in Named : StatusOf(t) \subseteq UNION {StatusOf(u) : u \in Named}
  BY <1>1
<1>3. "plants" \in Named /\ "lands" \in Named
  BY DEF Named
<1>4. {"active", "inactive"} \subseteq StatusOf("plants") /\ "free" \in StatusOf("lands")
  BY DEF StatusOf, LandStatus
<1> QED BY <1>2, <1>3, <1>4

\* More elements, fewer elements, of a finite set.
LEMMA TypedIsFinite ==
  ASSUME NEW sn, IsFiniteSet(Rows(sn)), NEW type
  PROVE  IsFiniteSet(Typed(sn, type)) /\ Cardinality(Typed(sn, type)) \in Nat
<1>1. Typed(sn, type) \in SUBSET Rows(sn)
  BY DEF Typed, Rows
<1> QED BY <1>1, FS_Subset, FS_CardinalityType

\* Writing a row of a type for which there is room, in a month of its own.
LEMMA RowFits ==
  ASSUME NEW sn \in [Season -> SeasonRow \cup {NoRow}], Fit(sn),
         NEW s \in Season, NEW row \in SeasonRow,
         \/ sn[s] # NoRow /\ sn[s].type = row.type
         \/ Cardinality(Typed(sn, row.type)) < Most(row.type),
         \A r \in Rows(sn) \ {s} : sn[r].type = row.type => sn[r].month # row.month
  PROVE  Fit([sn EXCEPT ![s] = row])
<1> DEFINE sn2 == [sn EXCEPT ![s] = row]
<1>1. sn2[s] = row /\ \A r \in Season \ {s} : sn2[r] = sn[r]
  OBVIOUS
<1>2. row # NoRow /\ row.type \in SeasonType
  BY DEF SeasonRow, NoRow
<1> HIDE DEF sn2
<1>3. IsFiniteSet(Rows(sn2))
  <2>1. Rows(sn2) = Rows(sn) \cup {s}
    BY <1>1, <1>2 DEF Rows
  <2> QED BY <2>1, FS_AddElement DEF Fit
<1>4. \A type \in SeasonType : Cardinality(Typed(sn2, type)) <= Most(type)
  <2> SUFFICES ASSUME NEW type \in SeasonType
               PROVE  Cardinality(Typed(sn2, type)) <= Most(type)
    OBVIOUS
  <2>1. /\ IsFiniteSet(Typed(sn, type)) /\ Cardinality(Typed(sn, type)) \in Nat
        /\ Cardinality(Typed(sn, type)) <= Most(type) /\ Most(type) \in Nat
    BY TypedIsFinite DEF Fit, Most
  <2>2. CASE type # row.type
    <3>1. Typed(sn2, type) \in SUBSET Typed(sn, type)
      BY <1>1, <2>2 DEF Typed
    <3>2. Cardinality(Typed(sn2, type)) <= Cardinality(Typed(sn, type))
      BY <2>1, <3>1, FS_Subset
    <3>3. Cardinality(Typed(sn2, type)) \in Nat
      BY <1>3, TypedIsFinite
    <3> QED BY <2>1, <3>2, <3>3
  <2>3. CASE type = row.type
    <3>1. Typed(sn2, type) = Typed(sn, type) \cup {s}
      BY <1>1, <1>2, <2>3 DEF Typed
    <3>2. Cardinality(Typed(sn2, type)) =
            IF s \in Typed(sn, type) THEN Cardinality(Typed(sn, type))
            ELSE Cardinality(Typed(sn, type)) + 1
      BY <2>1, <3>1, FS_AddElement
    <3>3. s \in Typed(sn, type) \/ Cardinality(Typed(sn, type)) < Most(type)
      BY <2>3 DEF Typed
    <3> QED BY <2>1, <3>2, <3>3
  <2> QED BY <2>2, <2>3
<1>5. \A r, q \in Rows(sn2) : r # q /\ sn2[r].type = sn2[q].type
        => sn2[r].month # sn2[q].month
  BY <1>1 DEF Fit, Rows
<1> QED BY <1>3, <1>4, <1>5 DEF Fit, sn2

\* A step of call c, alone when calls do not overlap.
LEMMA CatalogueStep ==
  ASSUME CatalogueInv, NEW c \in Call, NEW w \in CatalogueWork,
         work' = [work EXCEPT ![c] = w],
         table' = table, serial' = serial, accidents' \in Nat,
         season' \in [Season -> SeasonRow \cup {NoRow}],
         entry' \in [Entry -> EntryRow \cup {NoRow}],
         decided' = [x \in Season \cup Entry |-> decided'[x]],
         \A s \in Season : season[s] # NoRow => season'[s] # NoRow,
         \A i \in Entry : entry[i] # NoRow => entry'[i] # NoRow,
         Present(w, season', entry'),
         NamesDiffer',
         serial => \A d \in Call \ {c} : work[d] = Idle,
         serial /\ InOrder(work[c], season, entry, decided, accidents)
           => InOrder(w, season', entry', decided', accidents')
  PROVE  CatalogueInv'
<1>1. /\ work'[c] = w
      /\ \A d \in Call \ {c} : work'[d] = work[d]
  BY DEF CatalogueInv, CatalogueTypeOK
<1>2. CatalogueTypeOK'
  BY DEF CatalogueInv, CatalogueTypeOK
<1>3. \A d \in Call : Present(work'[d], season', entry')
  <2> SUFFICES ASSUME NEW d \in Call \ {c}
               PROVE  Present(work[d], season', entry')
    BY <1>1
  <2>1. /\ work[d].op = "saveSeason" => work[d].s \in Season
        /\ work[d].op = "saveEntry" => work[d].i \in Entry
    BY CatalogueWorkFields DEF CatalogueInv, CatalogueTypeOK, PutSeason, PutEntry
  <2> QED BY <2>1 DEF CatalogueInv, Present
<1>4. CatalogueSerialInv'
  <2> SUFFICES ASSUME serial
               PROVE  /\ OneCall'
                      /\ Quiet' => InOrder(Idle, season', entry', decided', accidents')
                      /\ \A d \in Call : work'[d] # Idle
                           => InOrder(work'[d], season', entry', decided', accidents')
    BY DEF CatalogueSerialInv
  <2>1. \A d \in Call \ {c} : work'[d] = Idle
    BY <1>1
  <2>2. InOrder(work[c], season, entry, decided, accidents)
    BY DEF CatalogueInv, CatalogueSerialInv, Quiet
  <2>3. InOrder(w, season', entry', decided', accidents')
    BY <2>2
  <2>4. Quiet' => w = Idle
    BY <1>1 DEF Quiet
  <2> QED BY <1>1, <2>1, <2>3, <2>4 DEF OneCall
<1> QED BY <1>2, <1>3, <1>4 DEF CatalogueInv

\* A handler that goes on with a write.
LEMMA WriteKeepsCatalogue ==
  ASSUME CatalogueInv, NEW c \in Call, NEW w \in CatalogueWork, Write(c, w),
         decided' = [x \in Season \cup Entry |-> decided'[x]],
         Present(w, season, entry),
         serial /\ Fit(season) => WillFit(w, season),
         serial /\ accidents = 0 /\ Decided(Idle, season, entry, decided)
           => Decided(w, season, entry, decided')
  PROVE  CatalogueInv'
<1>1. /\ work' = [work EXCEPT ![c] = w] /\ work[c] = Idle
      /\ serial => \A d \in Call : work[d] = Idle
      /\ UNCHANGED <<table, season, entry, accidents, serial>>
  BY DEF Write, Start, Goto, Quiet
<1>2. /\ accidents' \in Nat
      /\ season' \in [Season -> SeasonRow \cup {NoRow}]
      /\ entry' \in [Entry -> EntryRow \cup {NoRow}]
  BY <1>1 DEF CatalogueInv, CatalogueTypeOK
<1>3. NamesDiffer'
  BY <1>1 DEF CatalogueInv, NamesDiffer, Entries
<1>4. serial /\ InOrder(work[c], season, entry, decided, accidents)
        => InOrder(w, season', entry', decided', accidents')
  BY <1>1 DEF InOrder
<1> QED BY <1>1, <1>2, <1>3, <1>4, CatalogueStep

\* Deciding nothing, or what is about to be written.
LEMMA DecidedStays ==
  ASSUME NEW w, NEW sn, NEW en, NEW dc, Decided(Idle, sn, en, dc),
         w.op = "saveSeason" => w.s \in Season /\ sn[w.s] # NoRow /\ w.row.status = sn[w.s].status,
         w.op = "saveEntry" => w.i \in Entry /\ en[w.i] # NoRow /\ w.row.status = en[w.i].status
  PROVE  Decided(w, sn, en, dc)
BY DEF Decided, Idle

LEMMA SeasonArrivalKeepsCatalogue ==
  ASSUME CatalogueInv, NEW c \in Call, SeasonArrives(c)
  PROVE  CatalogueInv'
<1> PICK m \in Month, type \in SeasonType :
      \/ CreatePlantSeason(c, m, type)
      \/ \E s \in Season : UpdatePlantSeason(c, s, m, type)
      \/ \E s \in Season : RemovePlantSeason(c, s)
  BY DEF SeasonArrives
<1>0. /\ season \in [Season -> SeasonRow \cup {NoRow}]
      /\ decided = [x \in Season \cup Entry |-> decided[x]]
      /\ Rows(season) = Seasons
      /\ \A t \in SeasonType : Typed(season, t) = OfType(t)
      /\ \A t \in SeasonType : RoomFor(t) => Cardinality(Typed(season, t)) < Most(t)
  <2>1. \A t \in SeasonType : Typed(season, t) = OfType(t)
    BY DEF Typed, OfType, Seasons
  <2> QED BY <2>1 DEF CatalogueInv, CatalogueTypeOK, Rows, Seasons, RoomFor, Most
<1>1. ASSUME CreatePlantSeason(c, m, type)
      PROVE  CatalogueInv'
  <2> DEFINE w == [op |-> "insertSeason", month |-> m, type |-> type]
             row == [month |-> m, type |-> type, status |-> "active"]
  <2>1. w \in CatalogueWork
    BY NextCatalogueWork
  <2>2. row \in SeasonRow /\ row.type = type /\ row.month = m
    BY DEF SeasonRow
  <2>3. /\ w.op = "insertSeason" /\ w.month = m /\ w.type = type
        /\ Write(c, w) /\ decided' = decided
    BY <1>1 DEF CreatePlantSeason
  <2>4. Fit(season) => WillFit(w, season)
    <3> SUFFICES ASSUME Fit(season), NEW s \in Season, season[s] = NoRow
                 PROVE  Fit([season EXCEPT ![s] = row])
      BY <2>3 DEF WillFit
    <3>1. Cardinality(Typed(season, type)) < Most(type)
      BY <1>0, <1>1 DEF CreatePlantSeason
    <3>2. \A r \in Rows(season) \ {s} : season[r].type = type => season[r].month # m
      BY <1>0, <1>1 DEF CreatePlantSeason, OfType
    <3> HIDE DEF row
    <3> QED BY <1>0, <2>2, <3>1, <3>2, RowFits
  <2> HIDE DEF w
  <2>5. Present(w, season, entry)
    BY <2>3 DEF Present
  <2>6. Decided(Idle, season, entry, decided) => Decided(w, season, entry, decided')
    BY <2>3, DecidedStays
  <2> QED BY <1>0, <2>1, <2>3, <2>4, <2>5, <2>6, WriteKeepsCatalogue
<1>2. ASSUME NEW s \in Season, UpdatePlantSeason(c, s, m, type)
      PROVE  CatalogueInv'
  <2> DEFINE row == [season[s] EXCEPT !.month = m, !.type = type]
             w == [op |-> "saveSeason", s |-> s, row |-> row]
  <2>1. season[s] \in SeasonRow /\ season[s] # NoRow
    BY <1>0, <1>2 DEF UpdatePlantSeason, Seasons
  <2>2. /\ row \in SeasonRow /\ row.type = type /\ row.month = m
        /\ row.status = season[s].status
    BY <2>1 DEF SeasonRow
  <2>3. Write(c, w) /\ decided' = decided
    BY <1>2 DEF UpdatePlantSeason
  <2> HIDE DEF row
  <2>4. w \in CatalogueWork /\ w.op = "saveSeason" /\ w.s = s /\ w.row = row
    BY <2>2, NextCatalogueWork
  <2> HIDE DEF w
  <2>5. Fit(season) => WillFit(w, season)
    <3> SUFFICES ASSUME Fit(season)
                 PROVE  Fit([season EXCEPT ![s] = row])
      BY <2>4 DEF WillFit
    <3>1. \/ season[s] # NoRow /\ season[s].type = row.type
          \/ Cardinality(Typed(season, row.type)) < Most(row.type)
      BY <1>0, <1>2, <2>1, <2>2 DEF UpdatePlantSeason
    <3>2. \A r \in Rows(season) \ {s} : season[r].type = row.type
            => season[r].month # row.month
      BY <1>0, <1>2, <2>2 DEF UpdatePlantSeason
    <3> QED BY <1>0, <2>2, <3>1, <3>2, RowFits
  <2>6. Present(w, season, entry)
    BY <2>1, <2>4 DEF Present
  <2>7. Decided(Idle, season, entry, decided) => Decided(w, season, entry, decided')
    BY <2>1, <2>2, <2>3, <2>4, DecidedStays
  <2> QED BY <1>0, <2>3, <2>4, <2>5, <2>6, <2>7, WriteKeepsCatalogue
<1>3. ASSUME NEW s \in Season, RemovePlantSeason(c, s)
      PROVE  CatalogueInv'
  <2> DEFINE row == [season[s] EXCEPT !.status = "deleted"]
             w == [op |-> "saveSeason", s |-> s, row |-> row]
  <2>1. season[s] \in SeasonRow /\ season[s] # NoRow
    BY <1>0, <1>3 DEF RemovePlantSeason, NoRow
  <2>2. /\ row \in SeasonRow /\ row.type = season[s].type
        /\ row.month = season[s].month /\ row.status = "deleted"
    BY <2>1 DEF SeasonRow
  <2>3. Write(c, w) /\ Decide(s, "deleted")
    BY <1>3 DEF RemovePlantSeason
  <2> HIDE DEF row
  <2>4. w \in CatalogueWork /\ w.op = "saveSeason" /\ w.s = s /\ w.row = row
    BY <2>2, NextCatalogueWork
  <2> HIDE DEF w
  <2>5. Fit(season) => WillFit(w, season)
    <3> SUFFICES ASSUME Fit(season)
                 PROVE  Fit([season EXCEPT ![s] = row])
      BY <2>4 DEF WillFit
    <3>1. \A r \in Rows(season) \ {s} : season[r].type = row.type
            => season[r].month # row.month
      BY <2>1, <2>2 DEF Fit, Rows
    <3> QED BY <1>0, <2>1, <2>2, <3>1, RowFits
  <2>6. Present(w, season, entry)
    BY <2>1, <2>4 DEF Present
  <2>7. decided' = [x \in Season \cup Entry |-> decided'[x]]
    BY <1>0, <2>3 DEF Decide
  <2>8. accidents = 0 /\ serial /\ Decided(Idle, season, entry, decided)
          => Decided(w, season, entry, decided')
    <3> SUFFICES ASSUME accidents = 0, serial, Decided(Idle, season, entry, decided)
                 PROVE  Decided(w, season, entry, decided')
      OBVIOUS
    <3>1. /\ decided'[s] = "deleted"
          /\ \A x \in (Season \cup Entry) \ {s} : decided'[x] = decided[x]
      BY <1>0, <2>3 DEF Decide
    <3>2. s \notin Entry
      BY CatalogueAssumption
    <3> QED BY <2>2, <2>4, <3>1, <3>2 DEF Decided, Idle
  <2> QED BY <2>3, <2>4, <2>5, <2>6, <2>7, <2>8, WriteKeepsCatalogue
<1> QED BY <1>1, <1>2, <1>3

\* A row that is edited, with the status it has or one that is decided for it.
LEMMA EditKeepsCatalogue ==
  ASSUME CatalogueInv, NEW c \in Call, NEW i \in Entry, NEW name \in Name,
         entry[i] # NoRow,
         \/ Edit(c, i, name)
         \/ \E s \in UNION {StatusOf(t) : t \in Named} : EditAndDecide(c, i, name, s)
  PROVE  CatalogueInv'
<1>1. entry[i] \in EntryRow
  BY DEF CatalogueInv, CatalogueTypeOK
<1>2. ASSUME NEW row \in EntryRow, NEW w,
             w = [op |-> "saveEntry", i |-> i, row |-> row],
             Write(c, w),
             \/ decided' = decided /\ row.status = entry[i].status
             \/ Decide(i, row.status)
      PROVE  CatalogueInv'
  <2>1. w \in CatalogueWork /\ w.op = "saveEntry" /\ w.i = i /\ w.row = row
    BY <1>2, NextCatalogueWork
  <2>2. Present(w, season, entry) /\ WillFit(w, season)
    BY <2>1 DEF Present, WillFit
  <2>3. decided = [x \in Season \cup Entry |-> decided[x]]
    BY DEF CatalogueInv
  <2>4. decided' = [x \in Season \cup Entry |-> decided'[x]]
    BY <1>2, <2>3 DEF Decide
  <2>5. ASSUME serial, accidents = 0, Decided(Idle, season, entry, decided)
        PROVE  Decided(w, season, entry, decided')
    <3>1. CASE decided' = decided /\ row.status = entry[i].status
      BY <2>1, <2>5, <3>1, DecidedStays
    <3>2. CASE Decide(i, row.status)
      <4>1. /\ decided'[i] = row.status
            /\ \A x \in (Season \cup Entry) \ {i} : decided'[x] = decided[x]
        BY <2>3, <2>5, <3>2 DEF Decide
      <4>2. i \notin Season
        BY CatalogueAssumption
      <4> QED BY <2>1, <2>5, <4>1, <4>2 DEF Decided, Idle
    <3> QED BY <1>2, <3>1, <3>2
  <2> QED BY <1>2, <2>1, <2>2, <2>4, <2>5, WriteKeepsCatalogue
<1>3. CASE Edit(c, i, name)
  <2> DEFINE row == [entry[i] EXCEPT !.name = name]
  <2>1. row \in EntryRow /\ row.status = entry[i].status
    BY <1>1 DEF EntryRow
  <2>2. Write(c, [op |-> "saveEntry", i |-> i, row |-> row]) /\ decided' = decided
    BY <1>3 DEF Edit
  <2> HIDE DEF row
  <2> QED BY <1>2, <2>1, <2>2
<1>4. ASSUME NEW s \in UNION {StatusOf(t) : t \in Named}, EditAndDecide(c, i, name, s)
      PROVE  CatalogueInv'
  <2> DEFINE row == [name |-> name, status |-> s]
  <2>1. row \in EntryRow /\ row.status = s
    BY DEF EntryRow
  <2>2. Write(c, [op |-> "saveEntry", i |-> i, row |-> row]) /\ Decide(i, s)
    BY <1>4 DEF EditAndDecide
  <2> HIDE DEF row
  <2> QED BY <1>2, <2>1, <2>2
<1> QED BY <1>3, <1>4

LEMMA CreateEntryKeepsCatalogue ==
  ASSUME CatalogueInv, NEW c \in Call, NEW name \in Name, CreateEntry(c, name)
  PROVE  CatalogueInv'
<1> DEFINE w == [op |-> "insertEntry", name |-> name]
<1>1. w \in CatalogueWork /\ w.op = "insertEntry" /\ Write(c, w) /\ decided' = decided
  BY NextCatalogueWork DEF CreateEntry
<1> HIDE DEF w
<1>2. Present(w, season, entry) /\ WillFit(w, season)
  BY <1>1 DEF Present, WillFit
<1>3. Decided(Idle, season, entry, decided) => Decided(w, season, entry, decided')
  BY <1>1, DecidedStays
<1>4. decided' = [x \in Season \cup Entry |-> decided'[x]]
  BY <1>1 DEF CatalogueInv
<1> QED BY <1>1, <1>2, <1>3, <1>4, WriteKeepsCatalogue

LEMMA EntryArrivalKeepsCatalogue ==
  ASSUME CatalogueInv, NEW c \in Call, EntryArrives(c)
  PROVE  CatalogueInv'
<1> DEFINE Status == UNION {StatusOf(t) : t \in Named}
<1>1. \A i \in Entry : i \in Entries \/ entry[i].status = "active"
        => entry[i] # NoRow /\ entry[i].name \in Name
  BY DEF Entries, NoRow, CatalogueInv, CatalogueTypeOK, EntryRow
<1>2. table \in Named => StatusOf(table) \subseteq Status
  BY EntryStatuses
<1>3. "inactive" \in Status
  BY EntryStatuses
<1> HIDE DEF Status
<1>4. ASSUME NEW name \in Name,
             \/ CreatePlant(c, name) \/ CreateLand(c, name)
             \/ CreateLandType(c, name) \/ CreateServicePackage(c, name)
      PROVE  CatalogueInv'
  BY <1>4, CreateEntryKeepsCatalogue DEF CreatePlant, CreateLand, CreateLandType,
     CreateServicePackage
<1>5. ASSUME NEW i \in Entry, NEW name \in Name, entry[i] # NoRow,
             Edit(c, i, name) \/ \E s \in Status : EditAndDecide(c, i, name, s)
      PROVE  CatalogueInv'
  BY <1>5, EditKeepsCatalogue DEF Status
<1>6. ASSUME NEW i \in Entry, NEW name \in Name,
             UpdateLand(c, i, name) \/ UpdateLandType(c, i, name)
      PROVE  CatalogueInv'
  BY <1>1, <1>5, <1>6 DEF UpdateLand, UpdateLandType
<1>7. ASSUME NEW i \in Entry, NEW name \in Name, NEW s \in StatusOf(table),
             UpdatePlant(c, i, name, s) \/ UpdateServicePackage(c, i, name, s)
      PROVE  CatalogueInv'
  <2>1. table \in Named
    BY <1>7 DEF UpdatePlant, UpdateServicePackage, Named
  <2> QED BY <1>1, <1>2, <1>5, <1>7, <2>1 DEF UpdatePlant, UpdateServicePackage
<1>8. ASSUME NEW i \in Entry,
             RemovePlant(c, i) \/ DeleteLandType(c, i) \/ DeleteServicePackage(c, i)
      PROVE  CatalogueInv'
  BY <1>1, <1>3, <1>5, <1>8 DEF RemovePlant, DeleteLandType, DeleteServicePackage
<1>9. ASSUME NEW i \in Entry, NEW s \in StatusOf(table), UpdateLandStatus(c, i, s)
      PROVE  CatalogueInv'
  <2>1. table \in Named
    BY <1>9 DEF UpdateLandStatus, Named
  <2> QED BY <1>1, <1>2, <1>5, <1>9, <2>1 DEF UpdateLandStatus
<1> QED BY <1>4, <1>6, <1>7, <1>8, <1>9 DEF EntryArrives

-----------------------------------------------------------------------------
\* A call that goes on is alone when calls do not overlap.
LEMMA CatalogueWorkAt ==
  ASSUME CatalogueInv, NEW c \in Call, work[c].op # "idle"
  PROVE  /\ work[c] \in CatalogueWork
         /\ Present(work[c], season, entry)
         /\ serial => \A d \in Call \ {c} : work[d] = Idle
<1>1. work[c] # Idle
  BY DEF Idle
<1> QED BY <1>1 DEF CatalogueInv, CatalogueTypeOK, CatalogueSerialInv, OneCall

LEMMA SaveNewSeasonKeepsCatalogue ==
  ASSUME CatalogueInv, NEW c \in Call, SaveNewSeason(c)
  PROVE  CatalogueInv'
<1>1. PICK s \in Season \ Seasons :
        /\ season' = [season EXCEPT ![s] =
             [month |-> work[c].month, type |-> work[c].type, status |-> "active"]]
        /\ Decide(s, "active")
  BY DEF SaveNewSeason
<1> DEFINE row == [month |-> work[c].month, type |-> work[c].type, status |-> "active"]
<1>2. /\ work[c].op = "insertSeason"
      /\ work' = [work EXCEPT ![c] = Idle]
      /\ UNCHANGED <<table, entry, accidents, serial>>
  BY DEF SaveNewSeason, Goto
<1>3. work[c].month \in Month /\ work[c].type \in SeasonType
  BY <1>2, CatalogueWorkAt, CatalogueWorkFields DEF InsertSeason
<1>4. row \in SeasonRow /\ row # NoRow /\ row.status = "active"
  BY <1>3 DEF SeasonRow, NoRow
<1>5. season' = [season EXCEPT ![s] = row] /\ season[s] = NoRow
  BY <1>1 DEF Seasons
<1>6. WillFit(work[c], season) => Fit(season')
  BY <1>2, <1>5 DEF WillFit
<1> HIDE DEF row
<1>7. /\ season \in [Season -> SeasonRow \cup {NoRow}]
      /\ decided = [x \in Season \cup Entry |-> decided[x]]
  BY DEF CatalogueInv, CatalogueTypeOK
<1>8. /\ season'[s] = row
      /\ \A x \in Season \ {s} : season'[x] = season[x]
  BY <1>5, <1>7
<1>9. Idle.op = "idle"
  BY DEF Idle
<1>10. ASSUME serial, InOrder(work[c], season, entry, decided, accidents)
       PROVE  InOrder(Idle, season', entry', decided', accidents')
  <2>1. Fit(season')
    BY <1>6, <1>10 DEF InOrder
  <2>2. WillFit(Idle, season')
    BY <1>9 DEF WillFit
  <2>3. ASSUME accidents = 0
        PROVE  Decided(Idle, season', entry', decided')
    <3>1. /\ decided'[s] = "active"
          /\ \A x \in (Season \cup Entry) \ {s} : decided'[x] = decided[x]
      BY <1>1, <1>7, <1>10, <2>3 DEF Decide
    <3>2. s \notin Entry
      BY CatalogueAssumption
    <3>3. Decided(work[c], season, entry, decided)
      BY <1>10, <2>3 DEF InOrder
    <3> QED BY <1>2, <1>4, <1>8, <1>9, <3>1, <3>2, <3>3 DEF Decided
  <2> QED BY <1>2, <2>1, <2>2, <2>3 DEF InOrder
<1>11. decided' = [x \in Season \cup Entry |-> decided'[x]]
  BY <1>1, <1>7 DEF Decide
<1>12. Present(Idle, season', entry')
  BY <1>9 DEF Present
<1>13. /\ season' \in [Season -> SeasonRow \cup {NoRow}]
       /\ entry' \in [Entry -> EntryRow \cup {NoRow}] /\ accidents' \in Nat
       /\ NamesDiffer'
  BY <1>2, <1>4, <1>5, <1>7 DEF CatalogueInv, CatalogueTypeOK, NamesDiffer, Entries
<1>14. serial => \A d \in Call \ {c} : work[d] = Idle
  BY <1>2, CatalogueWorkAt
<1> QED BY <1>2, <1>4, <1>8, <1>10, <1>11, <1>12, <1>13, <1>14, NextCatalogueWork,
           CatalogueStep

LEMMA SaveSeasonKeepsCatalogue ==
  ASSUME CatalogueInv, NEW c \in Call, SaveSeason(c)
  PROVE  CatalogueInv'
<1> DEFINE s == work[c].s
           row == work[c].row
<1>1. /\ work[c].op = "saveSeason"
      /\ season' = [season EXCEPT ![s] = row]
      /\ work' = [work EXCEPT ![c] = Idle]
      /\ UNCHANGED <<table, entry, decided, accidents, serial>>
  BY DEF SaveSeason, Goto
<1>2. s \in Season /\ row \in SeasonRow
  BY <1>1, CatalogueWorkAt, CatalogueWorkFields DEF PutSeason
<1>3. row # NoRow
  BY <1>2 DEF SeasonRow, NoRow
<1>4. work[c].s = s /\ work[c].row = row
  OBVIOUS
<1> HIDE DEF s, row
<1>5. /\ season'[s] = row
      /\ \A x \in Season \ {s} : season'[x] = season[x]
  BY <1>1, <1>2 DEF CatalogueInv, CatalogueTypeOK
<1>6. Idle.op = "idle"
  BY DEF Idle
<1>7. ASSUME InOrder(work[c], season, entry, decided, accidents)
      PROVE  InOrder(Idle, season', entry', decided', accidents')
  <2>1. Fit(season')
    BY <1>1, <1>4, <1>7 DEF InOrder, WillFit
  <2>2. WillFit(Idle, season')
    BY <1>6 DEF WillFit
  <2>3. Decided(work[c], season, entry, decided) => Decided(Idle, season', entry', decided')
    BY <1>1, <1>4, <1>5, <1>6 DEF Decided
  <2> QED BY <1>1, <1>7, <2>1, <2>2, <2>3 DEF InOrder
<1>8. Present(Idle, season', entry')
  BY <1>6 DEF Present
<1>9. /\ season' \in [Season -> SeasonRow \cup {NoRow}]
      /\ entry' \in [Entry -> EntryRow \cup {NoRow}] /\ accidents' \in Nat
      /\ decided' = [x \in Season \cup Entry |-> decided'[x]]
      /\ NamesDiffer'
  BY <1>1, <1>2 DEF CatalogueInv, CatalogueTypeOK, NamesDiffer, Entries
<1>10. serial => \A d \in Call \ {c} : work[d] = Idle
  BY <1>1, CatalogueWorkAt
<1> QED BY <1>1, <1>3, <1>5, <1>7, <1>8, <1>9, <1>10, NextCatalogueWork, CatalogueStep

\* What the database accepts has a name of its own.
LEMMA NameIsFree ==
  ASSUME CatalogueInv, NEW i \in Entry, NEW row \in EntryRow,
         table' = table, entry' = [entry EXCEPT ![i] = row],
         ~Refused(row.name, Entries \ {i})
  PROVE  NamesDiffer'
<1> SUFFICES ASSUME table \in {"plants", "lands"}, NEW j \in Entry, NEW k \in Entry,
                    entry'[j] # NoRow, entry'[k] # NoRow, j # k
             PROVE  entry'[j].name # entry'[k].name
  BY DEF NamesDiffer, Entries
<1>1. /\ entry'[i] = row
      /\ \A x \in Entry \ {i} : entry'[x] = entry[x]
  BY DEF CatalogueInv, CatalogueTypeOK
<1>2. \A x \in Entry \ {i} : entry[x] # NoRow => entry[x].name # row.name
  BY DEF Refused, Taken, Entries
<1>3. \A x, y \in Entry : entry[x] # NoRow /\ entry[y] # NoRow /\ x # y
        => entry[x].name # entry[y].name
  BY DEF CatalogueInv, NamesDiffer, Entries
<1> QED BY <1>1, <1>2, <1>3

LEMMA SaveNewEntryKeepsCatalogue ==
  ASSUME CatalogueInv, NEW c \in Call, SaveNewEntry(c)
  PROVE  CatalogueInv'
<1> DEFINE name == work[c].name
<1>1. /\ work[c].op = "insertEntry"
      /\ work' = [work EXCEPT ![c] = Idle]
      /\ UNCHANGED <<table, season, accidents, serial>>
  BY DEF SaveNewEntry, Goto
<1>2. name \in Name
  BY <1>1, CatalogueWorkAt, CatalogueWorkFields DEF InsertEntry
<1> HIDE DEF name
<1>3. Idle.op = "idle"
  BY DEF Idle
<1>4. /\ season' \in [Season -> SeasonRow \cup {NoRow}]
      /\ entry \in [Entry -> EntryRow \cup {NoRow}] /\ accidents' \in Nat
      /\ decided = [x \in Season \cup Entry |-> decided[x]]
      /\ serial => \A d \in Call \ {c} : work[d] = Idle
  BY <1>1, CatalogueWorkAt DEF CatalogueInv, CatalogueTypeOK
<1>5. CASE UNCHANGED <<entry, decided>>
  <2>1. Present(Idle, season', entry') /\ NamesDiffer'
    BY <1>1, <1>3, <1>5 DEF Present, CatalogueInv, NamesDiffer, Entries
  <2>2. InOrder(work[c], season, entry, decided, accidents)
          => InOrder(Idle, season, entry, decided, accidents)
    BY <1>1, <1>3 DEF InOrder, WillFit, Decided
  <2> QED BY <1>1, <1>4, <1>5, <2>1, <2>2, NextCatalogueWork, CatalogueStep
<1>6. ASSUME NEW i \in Entry, entry[i] = NoRow,
             ~Refused(name, Entries),
             entry' = [entry EXCEPT ![i] = [name |-> name, status |-> FirstStatus(table)]],
             Decide(i, FirstStatus(table))
      PROVE  CatalogueInv'
  <2> DEFINE row == [name |-> name, status |-> FirstStatus(table)]
  <2>1. row.status = FirstStatus(table) /\ row.name = name
    OBVIOUS
  <2>2. row \in EntryRow
    <3>1. FirstStatus(table) \in UNION {StatusOf(t) : t \in Named}
      BY EntryStatuses DEF FirstStatus
    <3> QED BY <1>2, <3>1 DEF EntryRow
  <2>3. row # NoRow
    <3>1. \A t \in Named : "none" \notin StatusOf(t)
      BY DEF StatusOf, LandStatus
    <3> QED BY <2>1, <2>2, <3>1 DEF EntryRow, NoRow
  <2>4. entry' = [entry EXCEPT ![i] = row]
    BY <1>6
  <2> HIDE DEF row
  <2>5. /\ entry'[i] = row
        /\ \A x \in Entry \ {i} : entry'[x] = entry[x]
    BY <1>4, <2>4
  <2>6. NamesDiffer'
    <3>1. ~Refused(row.name, Entries \ {i})
      BY <1>6, <2>1 DEF Refused, Taken
    <3> QED BY <1>1, <2>2, <2>4, <3>1, NameIsFree
  <2>7. decided' = [x \in Season \cup Entry |-> decided'[x]]
    BY <1>4, <1>6 DEF Decide
  <2>8. ASSUME serial, InOrder(work[c], season, entry, decided, accidents)
        PROVE  InOrder(Idle, season', entry', decided', accidents')
    <3>1. Fit(season) /\ WillFit(Idle, season)
      BY <1>3, <2>8 DEF InOrder, WillFit
    <3>2. ASSUME accidents = 0
          PROVE  Decided(Idle, season, entry', decided')
      <4>1. /\ decided'[i] = row.status
            /\ \A x \in (Season \cup Entry) \ {i} : decided'[x] = decided[x]
        BY <1>4, <1>6, <2>1, <2>8, <3>2 DEF Decide
      <4>2. i \notin Season
        BY CatalogueAssumption
      <4>3. Decided(work[c], season, entry, decided)
        BY <2>8, <3>2 DEF InOrder
      <4> QED BY <1>1, <1>3, <2>5, <4>1, <4>2, <4>3 DEF Decided
    <3> QED BY <1>1, <3>1, <3>2 DEF InOrder
  <2>9. Present(Idle, season', entry')
    BY <1>3 DEF Present
  <2>10. entry' \in [Entry -> EntryRow \cup {NoRow}]
    BY <1>4, <2>2, <2>4
  <2>11. \A x \in Entry : entry[x] # NoRow => entry'[x] # NoRow
    BY <2>3, <2>5
  <2> QED BY <1>1, <1>4, <2>6, <2>7, <2>8, <2>9, <2>10, <2>11, NextCatalogueWork,
             CatalogueStep
<1> QED BY <1>5, <1>6 DEF SaveNewEntry, Entries, name

LEMMA SaveEntryKeepsCatalogue ==
  ASSUME CatalogueInv, NEW c \in Call, SaveEntry(c)
  PROVE  CatalogueInv'
<1> DEFINE i == work[c].i
           row == work[c].row
<1>1. /\ work[c].op = "saveEntry"
      /\ work' = [work EXCEPT ![c] = Idle]
      /\ UNCHANGED <<table, season, accidents, serial>>
  BY DEF SaveEntry, Goto
<1>2. i \in Entry /\ row \in EntryRow /\ entry[i] # NoRow
  BY <1>1, CatalogueWorkAt, CatalogueWorkFields DEF PutEntry, Present
<1>3. /\ season' \in [Season -> SeasonRow \cup {NoRow}]
      /\ entry \in [Entry -> EntryRow \cup {NoRow}] /\ accidents' \in Nat
      /\ decided = [x \in Season \cup Entry |-> decided[x]]
      /\ serial => \A d \in Call \ {c} : work[d] = Idle
  BY <1>1, CatalogueWorkAt DEF CatalogueInv, CatalogueTypeOK
<1>4. work[c].i = i /\ work[c].row = row /\ Idle.op = "idle"
  BY DEF Idle
<1> HIDE DEF i, row
<1>5. Present(Idle, season', entry') /\ WillFit(Idle, season)
  BY <1>4 DEF Present, WillFit
<1>6. i \notin Season
  BY <1>2, CatalogueAssumption
<1>7. CASE /\ decided' = [decided EXCEPT ![i] = entry[i].status]
           /\ UNCHANGED entry
  <2>1. /\ decided'[i] = entry[i].status
        /\ \A x \in (Season \cup Entry) \ {i} : decided'[x] = decided[x]
        /\ decided' = [x \in Season \cup Entry |-> decided'[x]]
    BY <1>2, <1>3, <1>7
  <2>2. NamesDiffer'
    BY <1>1, <1>7 DEF CatalogueInv, NamesDiffer, Entries
  <2>3. Decided(work[c], season, entry, decided) => Decided(Idle, season, entry, decided')
    BY <1>1, <1>4, <1>6, <2>1 DEF Decided
  <2>4. InOrder(work[c], season, entry, decided, accidents)
          => InOrder(Idle, season', entry', decided', accidents')
    BY <1>1, <1>5, <1>7, <2>3 DEF InOrder
  <2> QED BY <1>1, <1>3, <1>5, <1>7, <2>1, <2>2, <2>4, NextCatalogueWork, CatalogueStep
<1>8. CASE /\ ~Refused(row.name, Entries \ {i})
           /\ entry' = [entry EXCEPT ![i] = row]
           /\ UNCHANGED decided
  <2>1. /\ entry'[i] = row
        /\ \A x \in Entry \ {i} : entry'[x] = entry[x]
        /\ entry' \in [Entry -> EntryRow \cup {NoRow}]
    BY <1>2, <1>3, <1>8
  <2>2. row # NoRow
    <3>1. \A t \in Named : "none" \notin StatusOf(t)
      BY DEF StatusOf, LandStatus
    <3> QED BY <1>2, <3>1 DEF EntryRow, NoRow
  <2>3. NamesDiffer'
    BY <1>1, <1>2, <1>8, NameIsFree
  <2>4. Decided(work[c], season, entry, decided) => Decided(Idle, season, entry', decided)
    BY <1>1, <1>4, <2>1 DEF Decided
  <2>5. InOrder(work[c], season, entry, decided, accidents)
          => InOrder(Idle, season', entry', decided', accidents')
    BY <1>1, <1>5, <1>8, <2>4 DEF InOrder
  <2>6. \A x \in Entry : entry[x] # NoRow => entry'[x] # NoRow
    BY <2>1, <2>2
  <2>7. decided' = [x \in Season \cup Entry |-> decided'[x]]
    BY <1>3, <1>8
  <2> QED BY <1>1, <1>3, <1>5, <2>1, <2>3, <2>5, <2>6, <2>7, NextCatalogueWork,
             CatalogueStep
<1> QED BY <1>7, <1>8 DEF SaveEntry, i, row

LEMMA FailKeepsCatalogue ==
  ASSUME CatalogueInv, NEW c \in Call, Fail(c), UNCHANGED catalogue
  PROVE  CatalogueInv'
<1>1. /\ work' = [work EXCEPT ![c] = Idle] /\ work[c] # Idle
      /\ accidents' = accidents + 1
      /\ UNCHANGED <<table, season, entry, decided, serial>>
  BY DEF Fail, catalogue
<1>2. accidents' \in Nat /\ accidents' # 0
  BY <1>1 DEF CatalogueInv, CatalogueTypeOK
<1>3. serial => \A d \in Call \ {c} : work[d] = Idle
  BY <1>1 DEF CatalogueInv, CatalogueSerialInv, OneCall
<1>4. Idle.op = "idle"
  BY DEF Idle
<1>5. InOrder(work[c], season, entry, decided, accidents)
        => InOrder(Idle, season', entry', decided', accidents')
  BY <1>1, <1>2, <1>4 DEF InOrder, WillFit
<1>6. Present(Idle, season', entry')
  BY <1>4 DEF Present
<1>7. /\ season' \in [Season -> SeasonRow \cup {NoRow}]
      /\ entry' \in [Entry -> EntryRow \cup {NoRow}]
      /\ decided' = [x \in Season \cup Entry |-> decided'[x]]
      /\ NamesDiffer'
  BY <1>1 DEF CatalogueInv, CatalogueTypeOK, NamesDiffer, Entries
<1> QED BY <1>1, <1>2, <1>3, <1>5, <1>6, <1>7, NextCatalogueWork, CatalogueStep

LEMMA CatalogueKept ==
  ASSUME CatalogueInv, CatalogueNext
  PROVE  CatalogueInv'
BY SeasonArrivalKeepsCatalogue, EntryArrivalKeepsCatalogue, SaveNewSeasonKeepsCatalogue,
   SaveSeasonKeepsCatalogue, SaveNewEntryKeepsCatalogue, SaveEntryKeepsCatalogue,
   FailKeepsCatalogue DEF CatalogueNext

LEMMA CatalogueStarts ==
  ASSUME CatalogueInit
  PROVE  CatalogueInv
<1>1. CatalogueTypeOK
  BY NextCatalogueWork, CallsBoundAssumption DEF CatalogueInit, CallsInit, CatalogueTypeOK
<1>2. /\ \A s \in Season : season[s] = NoRow
      /\ \A i \in Entry : entry[i] = NoRow
      /\ \A c \in Call : work[c] = Idle
      /\ decided = [x \in Season \cup Entry |-> decided[x]]
  BY DEF CatalogueInit, CallsInit
<1>3. Fit(season)
  <2>1. Rows(season) = {} /\ \A type \in SeasonType : Typed(season, type) = {}
    BY <1>2 DEF Rows, Typed
  <2> QED BY <2>1, FS_EmptySet DEF Fit, Most
<1>4. InOrder(Idle, season, entry, decided, accidents)
  BY <1>2, <1>3 DEF InOrder, WillFit, Decided, Idle
<1>5. CatalogueSerialInv
  BY <1>2, <1>4 DEF CatalogueSerialInv, OneCall
<1>6. NamesDiffer /\ \A c \in Call : Present(work[c], season, entry)
  BY <1>2 DEF NamesDiffer, Entries, Present, Idle
<1> QED BY <1>1, <1>2, <1>5, <1>6 DEF CatalogueInv

LEMMA CatalogueInvGives ==
  ASSUME CatalogueInv
  PROVE  CatalogueTypeOK /\ SeasonsFit /\ NamesDiffer /\ DecisionCounts
<1>1. SeasonsFit
  <2> SUFFICES ASSUME serial
               PROVE  /\ Cardinality(OfType("in_season")) <= 1
                      /\ Cardinality(OfType("out_season")) <= 2
                      /\ \A r, s \in Seasons :
                           r # s /\ season[r].type = season[s].type
                           => season[r].month # season[s].month
    BY DEF SeasonsFit
  <2>1. Fit(season)
    BY DEF CatalogueInv, CatalogueSerialInv, Quiet, InOrder
  <2>2. \A type : Typed(season, type) = OfType(type)
    BY DEF Typed, OfType, Seasons
  <2>3. Rows(season) = Seasons
    BY DEF Rows, Seasons
  <2> QED BY <2>1, <2>2, <2>3 DEF Fit, Most, SeasonType
<1>2. DecisionCounts
  BY DEF CatalogueInv, CatalogueSerialInv, InOrder, Decided, DecisionCounts, Idle,
     Seasons, Entries
<1> QED BY <1>1, <1>2 DEF CatalogueInv

-----------------------------------------------------------------------------
\* Standard processes.  What the write a makes of the table st of processes, of the
\* table er of requests, and of the seasons ap whose process was accepted.
OnStandards(a, st) ==
  IF "standard" \in DOMAIN a THEN [st EXCEPT ![a.s] = a.standard] ELSE st

OnErrands(a, er) ==
  IF "errand" \in DOMAIN a THEN [er EXCEPT ![a.r].status = a.errand]
  ELSE IF "task" \in DOMAIN a THEN [er EXCEPT ![a.r].task = a.task]
  ELSE er

OnApproved(a, ap) ==
  IF "standard" \in DOMAIN a /\ a.standard = "accepted" THEN ap \cup {a.s} ELSE ap

\* A write is to a request that is there, and completes one only when it may.
Founded(a, er, ap) ==
  /\ "r" \in DOMAIN a => er[a.r] # NoErrand
  /\ "errand" \in DOMAIN a /\ a.errand = "completed" => er[a.r].s \in ap

\* So is the second of a list, once the first is made.
WorkFounded(w, er, ap) ==
  /\ w.op \in {"saveEdited", "editStages"} /\ w.was = "accepted" => w.s \in ap
  /\ w.op = "write" =>
       /\ Founded(w.list[1], er, ap)
       /\ Len(w.list) = 2 => Founded(w.list[2], er, OnApproved(w.list[1], ap))

\* A completed request is of a process that was not rejected since.
Agreeing(st, er) ==
  \A r \in Errand : er[r] # NoErrand /\ er[r].status = "completed"
    => st[er[r].s] \in {"accepted", "in_active"}

\* So it will be when w has made its writes.
WillAgree(w, st, er) ==
  IF w.op # "write" THEN Agreeing(st, er)
  ELSE LET st2 == OnStandards(w.list[1], st)
           er2 == OnErrands(w.list[1], er)
       IN  IF Len(w.list) = 2
           THEN Agreeing(OnStandards(w.list[2], st2), OnErrands(w.list[2], er2))
           ELSE Agreeing(st2, er2)

OneErrand(er) ==
  \A q, r \in Errand : er[q] # NoErrand /\ er[r] # NoErrand /\ er[q].s = er[r].s => q = r

\* While w is the only work in flight.
InStep(w, st, er, acc) ==
  /\ OneErrand(er)
  /\ w.op = "insertErrand" => \A r \in Errand : er[r] # NoErrand => er[r].s # w.s
  /\ acc = 0 => /\ WillAgree(w, st, er)
                /\ w.op \in {"saveEdited", "editStages"} => st[w.s] = w.was

StandardSerialInv ==
  serial => /\ OneCall
            /\ Quiet => InStep(Idle, standard, errand, accidents)
            /\ \A c \in Call : work[c] # Idle => InStep(work[c], standard, errand, accidents)

StandardInv ==
  /\ StandardTypeOK
  /\ CompletedWasApproved
  /\ \A c \in Call : WorkFounded(work[c], errand, approved)
  /\ StandardSerialInv

-----------------------------------------------------------------------------
StandardWork == {Idle} \cup Insert \cup Editing \cup List

\* The three kinds of write differ in their fields.
LEMMA WriteKinds ==
  ASSUME NEW a \in Writes
  PROVE  \/ /\ DOMAIN a = {"s", "standard"} /\ a.s \in PlantSeason
            /\ a.standard \in StandardStatus
         \/ /\ DOMAIN a = {"r", "errand"} /\ a.r \in Errand /\ a.errand \in ErrandStatus
         \/ /\ DOMAIN a = {"r", "task"} /\ a.r \in Errand /\ a.task \in {"open", "assigned"}
BY DEF Writes, PutStandard, PutErrand, PutTask

LEMMA WriteFields ==
  /\ \A s \in PlantSeason, x \in StandardStatus :
       /\ ToStandard(s, x) \in Writes
       /\ DOMAIN ToStandard(s, x) = {"s", "standard"}
       /\ ToStandard(s, x).s = s /\ ToStandard(s, x).standard = x
  /\ \A r \in Errand, x \in ErrandStatus :
       /\ ToErrand(r, x) \in Writes
       /\ DOMAIN ToErrand(r, x) = {"r", "errand"}
       /\ ToErrand(r, x).r = r /\ ToErrand(r, x).errand = x
  /\ \A r \in Errand, x \in {"open", "assigned"} :
       /\ ToTask(r, x) \in Writes
       /\ DOMAIN ToTask(r, x) = {"r", "task"}
       /\ ToTask(r, x).r = r /\ ToTask(r, x).task = x
BY DEF Writes, PutStandard, PutErrand, PutTask, ToStandard, ToErrand, ToTask

LEMMA StandardWorkFields ==
  ASSUME NEW w \in StandardWork
  PROVE  /\ w.op \in {"insertStandard", "insertErrand"} => w \in Insert
         /\ w.op \in {"saveEdited", "editStages"} => w \in Editing
         /\ w.op = "write" => w \in List
BY DEF StandardWork, Idle, Insert, Editing, List

\* A list of writes has one or two.
LEMMA ListShape ==
  ASSUME NEW w \in List
  PROVE  /\ w.op = "write"
         /\ \/ \E a \in Writes : w.list = <<a>>
            \/ \E a, b \in Writes : w.list = <<a, b>>
<1>1. w.op = "write" /\ \E n \in 1 .. 2 : w.list \in [1 .. n -> Writes]
  BY DEF List
<1>2. ASSUME w.list \in [1 .. 1 -> Writes]
      PROVE  \E a \in Writes : w.list = <<a>>
  <2>1. w.list[1] \in Writes /\ w.list = <<w.list[1]>>
    BY <1>2
  <2> QED BY <2>1
<1>3. ASSUME w.list \in [1 .. 2 -> Writes]
      PROVE  \E a, b \in Writes : w.list = <<a, b>>
  <2>1. w.list[1] \in Writes /\ w.list[2] \in Writes /\ w.list = <<w.list[1], w.list[2]>>
    BY <1>3
  <2> QED BY <2>1
<1> QED BY <1>1, <1>2, <1>3

LEMMA TodoIsWork ==
  /\ Idle \in StandardWork /\ Todo(<<>>) = Idle
  /\ \A a \in Writes :
       /\ Todo(<<a>>) \in StandardWork
       /\ Todo(<<a>>).op = "write" /\ Todo(<<a>>).list = <<a>>
  /\ \A a, b \in Writes :
       /\ Todo(<<a, b>>) \in StandardWork
       /\ Todo(<<a, b>>).op = "write" /\ Todo(<<a, b>>).list = <<a, b>>
<1>1. Idle \in StandardWork /\ Todo(<<>>) = Idle
  BY DEF StandardWork, Todo
<1>2. ASSUME NEW a \in Writes
      PROVE  /\ Todo(<<a>>) \in StandardWork
             /\ Todo(<<a>>).op = "write" /\ Todo(<<a>>).list = <<a>>
  <2>1. Todo(<<a>>) = [op |-> "write", list |-> <<a>>]
    BY DEF Todo
  <2>2. <<a>> \in [1 .. 1 -> Writes]
    OBVIOUS
  <2>3. [op |-> "write", list |-> <<a>>] \in List
    BY <2>2 DEF List
  <2> QED BY <2>1, <2>3 DEF StandardWork
<1>3. ASSUME NEW a \in Writes, NEW b \in Writes
      PROVE  /\ Todo(<<a, b>>) \in StandardWork
             /\ Todo(<<a, b>>).op = "write" /\ Todo(<<a, b>>).list = <<a, b>>
  <2>1. Todo(<<a, b>>) = [op |-> "write", list |-> <<a, b>>]
    BY DEF Todo
  <2>2. <<a, b>> \in [1 .. 2 -> Writes]
    OBVIOUS
  <2>3. [op |-> "write", list |-> <<a, b>>] \in List
    BY <2>2 DEF List
  <2> QED BY <2>1, <2>3 DEF StandardWork
<1> QED BY <1>1, <1>2, <1>3

\* What the three kinds of write do.
LEMMA StandardWritten ==
  ASSUME NEW s \in PlantSeason, NEW x \in StandardStatus,
         NEW st \in [PlantSeason -> StandardStatus \cup {"none"}], NEW er
  PROVE  LET a == ToStandard(s, x)
         IN  /\ a \in Writes /\ DOMAIN a = {"s", "standard"}
             /\ a.s = s /\ a.standard = x
             /\ OnStandards(a, st) \in [PlantSeason -> StandardStatus \cup {"none"}]
             /\ OnStandards(a, st)[s] = x
             /\ \A y \in PlantSeason \ {s} : OnStandards(a, st)[y] = st[y]
             /\ OnErrands(a, er) = er
             /\ \A ap : OnApproved(a, ap) = IF x = "accepted" THEN ap \cup {s} ELSE ap
<1> DEFINE a == ToStandard(s, x)
<1>1. a \in Writes /\ DOMAIN a = {"s", "standard"} /\ a.s = s /\ a.standard = x
  BY WriteFields
<1> HIDE DEF a
<1>2. OnStandards(a, st) = [st EXCEPT ![s] = x]
  BY <1>1 DEF OnStandards
<1>3. OnErrands(a, er) = er
  BY <1>1 DEF OnErrands
<1>4. \A ap : OnApproved(a, ap) = IF x = "accepted" THEN ap \cup {s} ELSE ap
  BY <1>1 DEF OnApproved
<1> QED BY <1>1, <1>2, <1>3, <1>4 DEF a

LEMMA ErrandWritten ==
  ASSUME NEW r \in Errand, NEW x \in ErrandStatus,
         NEW er \in [Errand -> ErrandRow \cup {NoErrand}], er[r] # NoErrand, NEW st
  PROVE  LET a == ToErrand(r, x)
         IN  /\ a \in Writes /\ DOMAIN a = {"r", "errand"}
             /\ a.r = r /\ a.errand = x
             /\ OnErrands(a, er) \in [Errand -> ErrandRow \cup {NoErrand}]
             /\ OnErrands(a, er)[r] # NoErrand
             /\ OnErrands(a, er)[r].s = er[r].s /\ OnErrands(a, er)[r].status = x
             /\ \A q \in Errand \ {r} : OnErrands(a, er)[q] = er[q]
             /\ OnStandards(a, st) = st
             /\ \A ap : OnApproved(a, ap) = ap
<1> DEFINE a == ToErrand(r, x)
           row == [er[r] EXCEPT !.status = x]
<1>1. a \in Writes /\ DOMAIN a = {"r", "errand"} /\ a.r = r /\ a.errand = x
  BY WriteFields
<1> HIDE DEF a
<1>2. OnErrands(a, er) = [er EXCEPT ![r].status = x]
  BY <1>1 DEF OnErrands
<1>3. er[r] \in ErrandRow
  OBVIOUS
<1>4. row \in ErrandRow /\ row.s = er[r].s /\ row.status = x
  BY <1>3 DEF ErrandRow
<1>5. row # NoErrand
  BY <1>4 DEF NoErrand, ErrandStatus
<1>6. [er EXCEPT ![r].status = x] = [er EXCEPT ![r] = row]
  OBVIOUS
<1> HIDE DEF row
<1>7. OnStandards(a, st) = st /\ \A ap : OnApproved(a, ap) = ap
  BY <1>1 DEF OnStandards, OnApproved
<1> QED BY <1>1, <1>2, <1>4, <1>5, <1>6, <1>7 DEF a

LEMMA TaskWritten ==
  ASSUME NEW r \in Errand, NEW x \in {"open", "assigned"},
         NEW er \in [Errand -> ErrandRow \cup {NoErrand}], er[r] # NoErrand, NEW st
  PROVE  LET a == ToTask(r, x)
         IN  /\ a \in Writes /\ DOMAIN a = {"r", "task"}
             /\ a.r = r /\ a.task = x
             /\ OnErrands(a, er) \in [Errand -> ErrandRow \cup {NoErrand}]
             /\ OnErrands(a, er)[r] # NoErrand
             /\ OnErrands(a, er)[r].s = er[r].s
             /\ OnErrands(a, er)[r].status = er[r].status
             /\ \A q \in Errand \ {r} : OnErrands(a, er)[q] = er[q]
             /\ OnStandards(a, st) = st
             /\ \A ap : OnApproved(a, ap) = ap
<1> DEFINE a == ToTask(r, x)
           row == [er[r] EXCEPT !.task = x]
<1>1. a \in Writes /\ DOMAIN a = {"r", "task"} /\ a.r = r /\ a.task = x
  BY WriteFields
<1> HIDE DEF a
<1>2. OnErrands(a, er) = [er EXCEPT ![r].task = x]
  BY <1>1 DEF OnErrands
<1>3. er[r] \in ErrandRow
  OBVIOUS
<1>4. row \in ErrandRow /\ row.s = er[r].s /\ row.status = er[r].status
  BY <1>3 DEF ErrandRow
<1>5. row # NoErrand
  BY <1>3, <1>4 DEF NoErrand, ErrandStatus, ErrandRow
<1>6. [er EXCEPT ![r].task = x] = [er EXCEPT ![r] = row]
  OBVIOUS
<1> HIDE DEF row
<1>7. OnStandards(a, st) = st /\ \A ap : OnApproved(a, ap) = ap
  BY <1>1 DEF OnStandards, OnApproved
<1> QED BY <1>1, <1>2, <1>4, <1>5, <1>6, <1>7 DEF a

\* What was founded stays so: rows are of the same season, approvals are not undone.
LEMMA FoundedStays ==
  ASSUME NEW a \in Writes, NEW er, NEW er2, NEW ap, NEW ap2, ap \subseteq ap2,
         \A r \in Errand : er[r] # NoErrand
           => er2[r] # NoErrand /\ er2[r].s = er[r].s,
         Founded(a, er, ap)
  PROVE  Founded(a, er2, ap2) /\ OnApproved(a, ap) \subseteq OnApproved(a, ap2)
BY WriteKinds DEF Founded, OnApproved

LEMMA WorkFoundedStays ==
  ASSUME NEW w \in StandardWork, NEW er, NEW er2, NEW ap, NEW ap2, ap \subseteq ap2,
         \A r \in Errand : er[r] # NoErrand
           => er2[r] # NoErrand /\ er2[r].s = er[r].s,
         WorkFounded(w, er, ap)
  PROVE  WorkFounded(w, er2, ap2)
<1>1. ASSUME w.op = "write"
      PROVE  /\ Founded(w.list[1], er2, ap2)
             /\ Len(w.list) = 2 => Founded(w.list[2], er2, OnApproved(w.list[1], ap2))
  <2>1. w \in List
    BY <1>1, StandardWorkFields
  <2>2. CASE \E a \in Writes : w.list = <<a>>
    BY <1>1, <2>2, FoundedStays DEF WorkFounded
  <2>3. CASE \E a, b \in Writes : w.list = <<a, b>>
    <3>1. PICK a \in Writes, b \in Writes : w.list = <<a, b>>
      BY <2>3
    <3>2. w.list[1] = a /\ w.list[2] = b /\ Len(w.list) = 2
      BY <3>1
    <3>3. Founded(a, er, ap) /\ Founded(b, er, OnApproved(a, ap))
      BY <1>1, <3>2 DEF WorkFounded
    <3>4. Founded(a, er2, ap2) /\ OnApproved(a, ap) \subseteq OnApproved(a, ap2)
      BY <3>3, FoundedStays
    <3>5. Founded(b, er2, OnApproved(a, ap2))
      BY <3>3, <3>4, FoundedStays
    <3> QED BY <3>2, <3>4, <3>5
  <2> QED BY <2>1, <2>2, <2>3, ListShape
<1> QED BY <1>1 DEF WorkFounded

\* A step of call c that leaves it w.
LEMMA StandardStep ==
  ASSUME StandardInv, NEW c \in Call, NEW w \in StandardWork,
         work' = [work EXCEPT ![c] = w], serial' = serial, accidents' \in Nat,
         standard' \in [PlantSeason -> StandardStatus \cup {"none"}],
         errand' \in [Errand -> ErrandRow \cup {NoErrand}],
         approved' \in SUBSET PlantSeason, approved \subseteq approved',
         \A r \in Errand : errand[r] # NoErrand
           => errand'[r] # NoErrand /\ errand'[r].s = errand[r].s,
         CompletedWasApproved',
         WorkFounded(w, errand', approved'),
         serial => \A d \in Call \ {c} : work[d] = Idle,
         serial /\ InStep(work[c], standard, errand, accidents)
           => InStep(w, standard', errand', accidents')
  PROVE  StandardInv'
<1>1. /\ work'[c] = w
      /\ \A d \in Call \ {c} : work'[d] = work[d]
  BY DEF StandardInv, StandardTypeOK
<1>2. StandardTypeOK'
  BY DEF StandardInv, StandardTypeOK, StandardWork
<1>3. \A d \in Call : WorkFounded(work'[d], errand', approved')
  <2>1. \A d \in Call : work[d] \in StandardWork
    BY DEF StandardInv, StandardTypeOK, StandardWork
  <2> QED BY <1>1, <2>1, WorkFoundedStays DEF StandardInv
<1>4. StandardSerialInv'
  <2> SUFFICES ASSUME serial
               PROVE  /\ OneCall'
                      /\ Quiet' => InStep(Idle, standard', errand', accidents')
                      /\ \A d \in Call : work'[d] # Idle
                           => InStep(work'[d], standard', errand', accidents')
    BY DEF StandardSerialInv
  <2>1. \A d \in Call \ {c} : work'[d] = Idle
    BY <1>1
  <2>2. InStep(work[c], standard, errand, accidents)
    BY DEF StandardInv, StandardSerialInv, Quiet
  <2>3. InStep(w, standard', errand', accidents')
    BY <2>2
  <2>4. Quiet' => w = Idle
    BY <1>1 DEF Quiet
  <2> QED BY <1>1, <2>1, <2>3, <2>4 DEF OneCall
<1> QED BY <1>2, <1>3, <1>4 DEF StandardInv

\* What is asked of a list of one write, and of a list of two.
LEMMA OneWrite ==
  ASSUME NEW a \in Writes, NEW st, NEW er
  PROVE  /\ \A ap : WorkFounded(Todo(<<a>>), er, ap) <=> Founded(a, er, ap)
         /\ \A acc : InStep(Todo(<<a>>), st, er, acc)
              <=> /\ OneErrand(er)
                  /\ acc = 0 => Agreeing(OnStandards(a, st), OnErrands(a, er))
<1> DEFINE w == Todo(<<a>>)
<1>1. w.op = "write" /\ w.list = <<a>>
  BY TodoIsWork
<1>2. w.list[1] = a /\ Len(w.list) # 2
  BY <1>1
<1> HIDE DEF w
<1>3. \A ap : WorkFounded(w, er, ap) <=> Founded(a, er, ap)
  BY <1>1, <1>2 DEF WorkFounded
<1>4. WillAgree(w, st, er) <=> Agreeing(OnStandards(a, st), OnErrands(a, er))
  BY <1>1, <1>2 DEF WillAgree
<1>5. \A acc : InStep(w, st, er, acc)
        <=> OneErrand(er) /\ (acc = 0 => WillAgree(w, st, er))
  BY <1>1 DEF InStep
<1> QED BY <1>3, <1>4, <1>5 DEF w

LEMMA TwoWrites ==
  ASSUME NEW a \in Writes, NEW b \in Writes, NEW st, NEW er
  PROVE  /\ \A ap : WorkFounded(Todo(<<a, b>>), er, ap)
              <=> Founded(a, er, ap) /\ Founded(b, er, OnApproved(a, ap))
         /\ \A acc : InStep(Todo(<<a, b>>), st, er, acc)
              <=> /\ OneErrand(er)
                  /\ acc = 0 => Agreeing(OnStandards(b, OnStandards(a, st)),
                                         OnErrands(b, OnErrands(a, er)))
<1> DEFINE w == Todo(<<a, b>>)
<1>1. w.op = "write" /\ w.list = <<a, b>>
  BY TodoIsWork
<1>2. w.list[1] = a /\ w.list[2] = b /\ Len(w.list) = 2
  BY <1>1
<1> HIDE DEF w
<1>3. \A ap : WorkFounded(w, er, ap)
        <=> Founded(a, er, ap) /\ Founded(b, er, OnApproved(a, ap))
  BY <1>1, <1>2 DEF WorkFounded
<1>4. WillAgree(w, st, er)
        <=> Agreeing(OnStandards(b, OnStandards(a, st)), OnErrands(b, OnErrands(a, er)))
  BY <1>1, <1>2 DEF WillAgree
<1>5. \A acc : InStep(w, st, er, acc)
        <=> OneErrand(er) /\ (acc = 0 => WillAgree(w, st, er))
  BY <1>1 DEF InStep
<1> QED BY <1>3, <1>4, <1>5 DEF w

\* A call that starts.
LEMMA StandardStart ==
  ASSUME StandardInv, NEW c \in Call, NEW w \in StandardWork, Arrives(c, w),
         WorkFounded(w, errand, approved),
         serial /\ OneErrand(errand)
           /\ (accidents = 0 => Agreeing(standard, errand))
           => InStep(w, standard, errand, accidents)
  PROVE  StandardInv'
<1>1. /\ work' = [work EXCEPT ![c] = w] /\ work[c] = Idle
      /\ serial => \A d \in Call : work[d] = Idle
      /\ UNCHANGED <<accidents, serial, standard, errand, approved>>
  BY DEF Arrives, Start, Goto, Quiet, standards
<1>2. /\ accidents' \in Nat
      /\ standard' \in [PlantSeason -> StandardStatus \cup {"none"}]
      /\ errand' \in [Errand -> ErrandRow \cup {NoErrand}]
      /\ approved' \in SUBSET PlantSeason
  BY <1>1 DEF StandardInv, StandardTypeOK
<1>3. CompletedWasApproved'
  BY <1>1 DEF StandardInv, CompletedWasApproved, Errands
<1>4. InStep(Idle, standard, errand, accidents)
        => OneErrand(errand) /\ (accidents = 0 => Agreeing(standard, errand))
  BY DEF InStep, WillAgree, Idle
<1>5. WorkFounded(w, errand', approved')
  BY <1>1
<1> QED BY <1>1, <1>2, <1>3, <1>4, <1>5, StandardStep

\* A call that will write one thing, and one that will write two.
LEMMA StartOneWrite ==
  ASSUME StandardInv, NEW c \in Call, NEW a \in Writes, Arrives(c, Todo(<<a>>)),
         Founded(a, errand, approved),
         serial /\ OneErrand(errand) /\ Agreeing(standard, errand)
           => Agreeing(OnStandards(a, standard), OnErrands(a, errand))
  PROVE  StandardInv'
BY TodoIsWork, OneWrite, StandardStart

LEMMA StartTwoWrites ==
  ASSUME StandardInv, NEW c \in Call, NEW a \in Writes, NEW b \in Writes,
         Arrives(c, Todo(<<a, b>>)),
         Founded(a, errand, approved), Founded(b, errand, OnApproved(a, approved)),
         serial /\ OneErrand(errand) /\ Agreeing(standard, errand)
           => Agreeing(OnStandards(b, OnStandards(a, standard)),
                       OnErrands(b, OnErrands(a, errand)))
  PROVE  StandardInv'
BY TodoIsWork, TwoWrites, StandardStart

\* A request that is not completed by a write, and a process that is not rejected or
\* put up again, agree as before.
LEMMA StillAgreeing ==
  ASSUME NEW er \in [Errand -> ErrandRow \cup {NoErrand}],
         NEW st \in [PlantSeason -> StandardStatus \cup {"none"}], Agreeing(st, er)
  PROVE  /\ \A r \in Errand, x \in ErrandStatus :
              er[r] # NoErrand /\ (x = "completed" => st[er[r].s] \in {"accepted", "in_active"})
              => Agreeing(st, OnErrands(ToErrand(r, x), er))
         /\ \A r \in Errand, x \in {"open", "assigned"} :
              er[r] # NoErrand => Agreeing(st, OnErrands(ToTask(r, x), er))
         /\ \A s \in PlantSeason, x \in {"accepted", "in_active"} :
              Agreeing(OnStandards(ToStandard(s, x), st), er)
<1>1. ASSUME NEW r \in Errand, NEW x \in ErrandStatus, er[r] # NoErrand,
             x = "completed" => st[er[r].s] \in {"accepted", "in_active"}
      PROVE  Agreeing(st, OnErrands(ToErrand(r, x), er))
  BY <1>1, ErrandWritten DEF Agreeing
<1>2. ASSUME NEW r \in Errand, NEW x \in {"open", "assigned"}, er[r] # NoErrand
      PROVE  Agreeing(st, OnErrands(ToTask(r, x), er))
  BY <1>2, TaskWritten DEF Agreeing
<1>3. ASSUME NEW s \in PlantSeason, NEW x \in {"accepted", "in_active"}
      PROVE  Agreeing(OnStandards(ToStandard(s, x), st), er)
  <2>1. x \in StandardStatus
    BY DEF StandardStatus
  <2>2. \A r \in Errand : er[r] # NoErrand => er[r].s \in PlantSeason
    BY DEF ErrandRow
  <2> QED BY <2>1, <2>2, StandardWritten DEF Agreeing
<1> QED BY <1>1, <1>2, <1>3

\* A step that sets only the status, or only the task, of a request.
LEMMA StartErrandWrite ==
  ASSUME StandardInv, NEW c \in Call, NEW r \in Errand, errand[r] # NoErrand,
         NEW x \in ErrandStatus \ {"completed"}, Arrives(c, Todo(<<ToErrand(r, x)>>))
  PROVE  StandardInv'
<1> DEFINE a == ToErrand(r, x)
<1>1. /\ a \in Writes /\ DOMAIN a = {"r", "errand"} /\ a.r = r /\ a.errand = x
      /\ OnStandards(a, standard) = standard
  BY WriteFields, ErrandWritten DEF StandardInv, StandardTypeOK
<1>2. Agreeing(standard, errand) => Agreeing(standard, OnErrands(a, errand))
  BY StillAgreeing DEF StandardInv, StandardTypeOK
<1>3. Arrives(c, Todo(<<a>>))
  OBVIOUS
<1> HIDE DEF a
<1>4. Founded(a, errand, approved)
  BY <1>1 DEF Founded
<1> QED BY <1>1, <1>2, <1>3, <1>4, StartOneWrite

LEMMA CreateErrandKeepsStandards ==
  ASSUME StandardInv, NEW c \in Call, NEW s \in PlantSeason,
         CreateRequestProcessStandard(c, s)
  PROVE  StandardInv'
<1> DEFINE w == [op |-> "insertErrand", s |-> s]
<1>1. w \in StandardWork /\ w.op = "insertErrand" /\ w.s = s /\ Arrives(c, w)
  BY DEF CreateRequestProcessStandard, StandardWork, Insert
<1> HIDE DEF w
<1>2. \A r \in Errand : errand[r] # NoErrand => errand[r].s # s
  BY DEF CreateRequestProcessStandard, ErrandOf, Errands
<1> QED BY <1>1, <1>2, StandardStart DEF WorkFounded, InStep, WillAgree

LEMMA CreateStandardKeepsStandards ==
  ASSUME StandardInv, NEW c \in Call, NEW s \in PlantSeason, CreateProcessStandard(c, s)
  PROVE  StandardInv'
<1> DEFINE w == [op |-> "insertStandard", s |-> s]
<1>1. w \in StandardWork /\ w.op = "insertStandard" /\ Arrives(c, w)
  BY DEF CreateProcessStandard, StandardWork, Insert
<1> HIDE DEF w
<1> QED BY <1>1, StandardStart DEF WorkFounded, InStep, WillAgree

LEMMA UpdateKeepsStandards ==
  ASSUME StandardInv, NEW c \in Call, NEW s \in PlantSeason, UpdateProcessStandard(c, s)
  PROVE  StandardInv'
<1> DEFINE w == [op |-> "saveEdited", s |-> s, was |-> standard[s]]
<1>1. standard[s] \in StandardStatus
  BY DEF UpdateProcessStandard, StandardInv, StandardTypeOK
<1>2. /\ w \in StandardWork /\ Arrives(c, w)
      /\ w.op = "saveEdited" /\ w.s = s /\ w.was = standard[s]
  BY <1>1 DEF UpdateProcessStandard, StandardWork, Editing
<1> HIDE DEF w
<1>3. w.was = "accepted" => w.s \in approved
  BY <1>2 DEF StandardInv, CompletedWasApproved
<1> QED BY <1>2, <1>3, StandardStart DEF WorkFounded, InStep, WillAgree

\* What updateProcessStandardStatus writes: the process, and its request if it has one.
LEMMA ConcatWrites ==
  ASSUME NEW a, NEW b
  PROVE  /\ <<a>> \o <<>> = <<a>>
         /\ <<>> \o <<a>> = <<a>>
         /\ <<a>> \o <<b>> = <<a, b>>
<1>1. <<a>> \o <<>> = <<a>>
  OBVIOUS
<1>2. <<>> \o <<a>> = <<a>>
  OBVIOUS
<1>3. <<a>> \o <<b>> = <<a, b>>
  <2>1. <<a>> \in Seq({a, b}) /\ <<b>> \in Seq({a, b}) /\ <<a, b>> \in Seq({a, b})
    OBVIOUS
  <2>2. <<a>> \o <<b>> \in Seq({a, b}) /\ Len(<<a>> \o <<b>>) = 2
    BY <2>1
  <2>3. (<<a>> \o <<b>>)[1] = a /\ (<<a>> \o <<b>>)[2] = b
    BY <2>1
  <2>4. \A q \in Seq({a, b}) : Len(q) = 2 => q = <<q[1], q[2]>>
    <3> SUFFICES ASSUME NEW q \in Seq({a, b}), Len(q) = 2
                 PROVE  q = <<q[1], q[2]>>
      OBVIOUS
    <3>1. q \in [1 .. 2 -> {a, b}]
      OBVIOUS
    <3> QED BY <3>1
  <2> QED BY <2>2, <2>3, <2>4
<1> QED BY <1>1, <1>2, <1>3

LEMMA AcceptKeepsStandards ==
  ASSUME StandardInv, NEW c \in Call, NEW s \in PlantSeason, AcceptStandard(c, s)
  PROVE  StandardInv'
<1> DEFINE a == ToStandard(s, "accepted")
<1>1. /\ standard \in [PlantSeason -> StandardStatus \cup {"none"}]
      /\ errand \in [Errand -> ErrandRow \cup {NoErrand}]
  BY DEF StandardInv, StandardTypeOK
<1>2. "accepted" \in StandardStatus /\ "completed" \in ErrandStatus
  BY DEF StandardStatus, ErrandStatus
<1>3. /\ a \in Writes /\ DOMAIN a = {"s", "standard"}
      /\ OnErrands(a, errand) = errand
      /\ OnStandards(a, standard)[s] = "accepted"
      /\ OnStandards(a, standard) \in [PlantSeason -> StandardStatus \cup {"none"}]
      /\ OnApproved(a, approved) = approved \cup {s}
  BY <1>1, <1>2, StandardWritten
<1>4. Agreeing(standard, errand) => Agreeing(OnStandards(a, standard), errand)
  BY <1>1, StillAgreeing
<1>5. Founded(a, errand, approved)
  BY <1>3 DEF Founded
<1>6. CASE Arrives(c, Todo(<<a>> \o <<>>))
  <2>1. Arrives(c, Todo(<<a>>))
    BY <1>6, ConcatWrites
  <2> HIDE DEF a
  <2> QED BY <1>3, <1>4, <1>5, <2>1, StartOneWrite
<1>7. ASSUME NEW r \in Errand, errand[r] # NoErrand, errand[r].s = s,
             Arrives(c, Todo(<<a>> \o <<ToErrand(r, "completed")>>))
      PROVE  StandardInv'
  <2> DEFINE b == ToErrand(r, "completed")
             st == OnStandards(a, standard)
  <2>1. Arrives(c, Todo(<<a, b>>))
    BY <1>7, ConcatWrites
  <2>2. /\ b \in Writes /\ DOMAIN b = {"r", "errand"} /\ b.r = r
        /\ OnStandards(b, st) = st
    BY <1>1, <1>2, <1>7, ErrandWritten
  <2>3. Agreeing(st, errand) => Agreeing(st, OnErrands(b, errand))
    BY <1>1, <1>2, <1>3, <1>7, StillAgreeing
  <2> HIDE DEF a, b, st
  <2>4. Founded(b, errand, OnApproved(a, approved))
    BY <1>3, <1>7, <2>2 DEF Founded
  <2>5. Agreeing(standard, errand)
          => Agreeing(OnStandards(b, OnStandards(a, standard)),
                      OnErrands(b, OnErrands(a, errand)))
    BY <1>3, <1>4, <2>2, <2>3 DEF st
  <2> QED BY <1>3, <1>5, <2>1, <2>2, <2>4, <2>5, StartTwoWrites
<1> QED BY <1>6, <1>7 DEF AcceptStandard, ErrandWrites, ErrandOf, Errands

LEMMA RejectKeepsStandards ==
  ASSUME StandardInv, NEW c \in Call, NEW s \in PlantSeason, RejectStandard(c, s)
  PROVE  StandardInv'
<1> DEFINE a == ToStandard(s, "rejected")
           st == OnStandards(a, standard)
<1>1. /\ standard \in [PlantSeason -> StandardStatus \cup {"none"}]
      /\ errand \in [Errand -> ErrandRow \cup {NoErrand}]
  BY DEF StandardInv, StandardTypeOK
<1>2. "rejected" \in StandardStatus /\ "rejected" \in ErrandStatus
  BY DEF StandardStatus, ErrandStatus
<1>3. /\ a \in Writes /\ DOMAIN a = {"s", "standard"}
      /\ OnErrands(a, errand) = errand
      /\ \A y \in PlantSeason \ {s} : st[y] = standard[y]
      /\ OnApproved(a, approved) = approved
  BY <1>1, <1>2, StandardWritten
<1>4. Founded(a, errand, approved)
  BY <1>3 DEF Founded
<1>5. \A r \in Errand : errand[r] # NoErrand => errand[r].s \in PlantSeason
  BY <1>1 DEF ErrandRow
<1>6. ASSUME ErrandOf(s) = {}, Arrives(c, Todo(<<a>> \o <<>>))
      PROVE  StandardInv'
  <2>1. Arrives(c, Todo(<<a>>))
    BY <1>6, ConcatWrites
  <2>2. \A r \in Errand : errand[r] # NoErrand => errand[r].s # s
    BY <1>6 DEF ErrandOf, Errands
  <2>3. Agreeing(standard, errand) => Agreeing(st, errand)
    BY <1>3, <1>5, <2>2 DEF Agreeing
  <2> HIDE DEF a
  <2> QED BY <1>3, <1>4, <2>1, <2>3, StartOneWrite
<1>7. ASSUME NEW r \in Errand, errand[r] # NoErrand, errand[r].s = s,
             Arrives(c, Todo(<<a>> \o <<ToErrand(r, "rejected")>>))
      PROVE  StandardInv'
  <2> DEFINE b == ToErrand(r, "rejected")
             er == OnErrands(b, errand)
  <2>1. Arrives(c, Todo(<<a, b>>))
    BY <1>7, ConcatWrites
  <2>2. /\ b \in Writes /\ DOMAIN b = {"r", "errand"} /\ b.r = r /\ b.errand = "rejected"
        /\ OnStandards(b, st) = st
        /\ er[r].status = "rejected"
        /\ \A q \in Errand \ {r} : er[q] = errand[q]
    BY <1>1, <1>2, <1>7, ErrandWritten
  <2> HIDE DEF a, b, st, er
  <2>3. OneErrand(errand) /\ Agreeing(standard, errand) => Agreeing(st, er)
    <3> SUFFICES ASSUME OneErrand(errand), Agreeing(standard, errand),
                        NEW q \in Errand, er[q] # NoErrand, er[q].status = "completed"
                 PROVE  st[er[q].s] \in {"accepted", "in_active"}
      BY DEF Agreeing
    <3>1. q # r /\ er[q] = errand[q]
      BY <2>2
    <3>2. errand[q].s # s
      BY <1>7, <3>1 DEF OneErrand
    <3> QED BY <1>3, <1>5, <3>1, <3>2 DEF Agreeing
  <2>4. Founded(b, errand, OnApproved(a, approved))
    BY <1>7, <2>2 DEF Founded
  <2>5. /\ OnStandards(b, OnStandards(a, standard)) = st
        /\ OnErrands(b, OnErrands(a, errand)) = er
    BY <1>3, <2>2 DEF st, er
  <2> QED BY <1>3, <1>4, <2>1, <2>2, <2>3, <2>4, <2>5, StartTwoWrites
<1> QED BY <1>6, <1>7 DEF RejectStandard, ErrandWrites, ErrandOf, Errands

LEMMA RemoveKeepsStandards ==
  ASSUME StandardInv, NEW c \in Call, NEW s \in PlantSeason, RemoveProcessStandard(c, s)
  PROVE  StandardInv'
<1> DEFINE a == ToStandard(s, "in_active")
<1>1. /\ standard \in [PlantSeason -> StandardStatus \cup {"none"}]
      /\ errand \in [Errand -> ErrandRow \cup {NoErrand}]
  BY DEF StandardInv, StandardTypeOK
<1>2. "in_active" \in StandardStatus
  BY DEF StandardStatus
<1>3. /\ a \in Writes /\ DOMAIN a = {"s", "standard"}
      /\ OnErrands(a, errand) = errand
  BY <1>1, <1>2, StandardWritten
<1>4. Agreeing(standard, errand) => Agreeing(OnStandards(a, standard), errand)
  BY <1>1, StillAgreeing
<1>5. Arrives(c, Todo(<<a>>))
  BY DEF RemoveProcessStandard
<1> HIDE DEF a
<1>6. Founded(a, errand, approved)
  BY <1>3 DEF Founded
<1> QED BY <1>3, <1>4, <1>5, <1>6, StartOneWrite

LEMMA ConfirmKeepsStandards ==
  ASSUME StandardInv, NEW c \in Call, NEW r \in Errand, ConfirmErrand(c, r)
  PROVE  StandardInv'
<1> DEFINE s == errand[r].s
           a == ToStandard(s, "accepted")
           b == ToErrand(r, "completed")
           st == OnStandards(a, standard)
<1>1. /\ standard \in [PlantSeason -> StandardStatus \cup {"none"}]
      /\ errand \in [Errand -> ErrandRow \cup {NoErrand}]
      /\ "accepted" \in StandardStatus /\ "completed" \in ErrandStatus
  BY DEF StandardInv, StandardTypeOK, StandardStatus, ErrandStatus
<1>2. errand[r] # NoErrand
  BY DEF ConfirmErrand, NoErrand
<1>3. s \in PlantSeason
  BY <1>1, <1>2 DEF ErrandRow
<1>4. Arrives(c, Todo(<<a, b>>))
  BY DEF ConfirmErrand
<1> HIDE DEF s
<1>5. /\ a \in Writes /\ DOMAIN a = {"s", "standard"}
      /\ OnErrands(a, errand) = errand
      /\ st[s] = "accepted"
      /\ st \in [PlantSeason -> StandardStatus \cup {"none"}]
      /\ OnApproved(a, approved) = approved \cup {s}
  BY <1>1, <1>3, StandardWritten
<1>6. Agreeing(standard, errand) => Agreeing(st, errand)
  BY <1>1, <1>3, StillAgreeing
<1>7. /\ b \in Writes /\ DOMAIN b = {"r", "errand"} /\ b.r = r
      /\ OnStandards(b, st) = st
  BY <1>1, <1>2, ErrandWritten
<1>8. Agreeing(st, errand) => Agreeing(st, OnErrands(b, errand))
  BY <1>1, <1>2, <1>5, StillAgreeing DEF s
<1> HIDE DEF a, b, st
<1>9. Founded(a, errand, approved)
  BY <1>5 DEF Founded
<1>10. Founded(b, errand, OnApproved(a, approved))
  BY <1>2, <1>5, <1>7 DEF Founded, s
<1>11. Agreeing(standard, errand)
         => Agreeing(OnStandards(b, OnStandards(a, standard)),
                     OnErrands(b, OnErrands(a, errand)))
  BY <1>5, <1>6, <1>7, <1>8 DEF st
<1> QED BY <1>4, <1>5, <1>7, <1>9, <1>10, <1>11, StartTwoWrites

LEMMA AssignKeepsStandards ==
  ASSUME StandardInv, NEW c \in Call, NEW r \in Errand, AssignStandardTask(c, r)
  PROVE  StandardInv'
<1> DEFINE a == ToTask(r, "assigned")
           b == ToErrand(r, "assigned")
           er == OnErrands(a, errand)
<1>1. /\ standard \in [PlantSeason -> StandardStatus \cup {"none"}]
      /\ errand \in [Errand -> ErrandRow \cup {NoErrand}]
      /\ "assigned" \in ErrandStatus
  BY DEF StandardInv, StandardTypeOK, ErrandStatus
<1>2. errand[r] # NoErrand /\ Arrives(c, Todo(<<a, b>>))
  BY DEF AssignStandardTask, HasTask, Errands
<1>3. /\ a \in Writes /\ DOMAIN a = {"r", "task"} /\ a.r = r
      /\ OnStandards(a, standard) = standard
      /\ er \in [Errand -> ErrandRow \cup {NoErrand}] /\ er[r] # NoErrand
  BY <1>1, <1>2, TaskWritten
<1>4. /\ b \in Writes /\ DOMAIN b = {"r", "errand"} /\ b.r = r /\ b.errand = "assigned"
      /\ OnStandards(b, standard) = standard
  BY <1>1, <1>2, ErrandWritten
<1>5. Agreeing(standard, errand) => Agreeing(standard, er)
  BY <1>1, <1>2, StillAgreeing
<1>6. Agreeing(standard, er) => Agreeing(standard, OnErrands(b, er))
  BY <1>1, <1>3, StillAgreeing
<1> HIDE DEF a, b, er
<1>7. Founded(a, errand, approved) /\ Founded(b, errand, OnApproved(a, approved))
  BY <1>2, <1>3, <1>4 DEF Founded
<1>8. Agreeing(standard, errand)
        => Agreeing(OnStandards(b, OnStandards(a, standard)),
                    OnErrands(b, OnErrands(a, errand)))
  BY <1>3, <1>4, <1>5, <1>6 DEF er
<1> QED BY <1>2, <1>3, <1>4, <1>7, <1>8, StartTwoWrites

LEMMA StandardArrivalKeepsStandards ==
  ASSUME StandardInv, NEW c \in Call, StandardArrives(c)
  PROVE  StandardInv'
<1>1. ASSUME NEW r \in Errand,
             \/ StartStandardTask(c, r) \/ ApproveStandardTask(c, r)
             \/ ReportOnStandard(c, r) \/ RejectErrand(c, r)
      PROVE  StandardInv'
  <2>1. errand[r] # NoErrand
    BY <1>1 DEF StartStandardTask, ApproveStandardTask, ReportOnStandard, RejectErrand,
       IsAssigned, Errands, NoErrand
  <2>2. \E x \in ErrandStatus \ {"completed"} : Arrives(c, Todo(<<ToErrand(r, x)>>))
    BY <1>1 DEF StartStandardTask, ApproveStandardTask, ReportOnStandard, RejectErrand,
       ErrandStatus
  <2> QED BY <2>1, <2>2, StartErrandWrite
<1> QED BY <1>1, CreateErrandKeepsStandards, CreateStandardKeepsStandards,
       UpdateKeepsStandards, AcceptKeepsStandards, RejectKeepsStandards,
       RemoveKeepsStandards, ConfirmKeepsStandards, AssignKeepsStandards
       DEF StandardArrives

\* CompletedWasApproved, in the tables st, er and ap.
Sanctioned(st, er, ap) ==
  /\ \A r \in Errand : er[r] # NoErrand /\ er[r].status = "completed" => er[r].s \in ap
  /\ \A s \in PlantSeason : st[s] = "accepted" => s \in ap

\* What a founded write leaves as it was.
LEMMA WriteIsSanctioned ==
  ASSUME NEW a \in Writes,
         NEW st \in [PlantSeason -> StandardStatus \cup {"none"}],
         NEW er \in [Errand -> ErrandRow \cup {NoErrand}],
         NEW ap \in SUBSET PlantSeason,
         Founded(a, er, ap), Sanctioned(st, er, ap)
  PROVE  /\ OnStandards(a, st) \in [PlantSeason -> StandardStatus \cup {"none"}]
         /\ OnErrands(a, er) \in [Errand -> ErrandRow \cup {NoErrand}]
         /\ OnApproved(a, ap) \in SUBSET PlantSeason /\ ap \subseteq OnApproved(a, ap)
         /\ \A q \in Errand :
              /\ OnErrands(a, er)[q] # NoErrand <=> er[q] # NoErrand
              /\ er[q] # NoErrand => OnErrands(a, er)[q].s = er[q].s
         /\ Sanctioned(OnStandards(a, st), OnErrands(a, er), OnApproved(a, ap))
<1>1. ASSUME NEW s \in PlantSeason, NEW x \in StandardStatus, a = ToStandard(s, x)
      PROVE  /\ OnStandards(a, st) \in [PlantSeason -> StandardStatus \cup {"none"}]
             /\ OnErrands(a, er) = er
             /\ OnApproved(a, ap) \in SUBSET PlantSeason /\ ap \subseteq OnApproved(a, ap)
             /\ Sanctioned(OnStandards(a, st), er, OnApproved(a, ap))
  <2>1. /\ OnStandards(a, st) \in [PlantSeason -> StandardStatus \cup {"none"}]
        /\ OnStandards(a, st)[s] = x
        /\ \A y \in PlantSeason \ {s} : OnStandards(a, st)[y] = st[y]
        /\ OnErrands(a, er) = er
        /\ OnApproved(a, ap) = IF x = "accepted" THEN ap \cup {s} ELSE ap
    BY <1>1, StandardWritten
  <2>2. ap \subseteq OnApproved(a, ap) /\ OnApproved(a, ap) \in SUBSET PlantSeason
    BY <2>1
  <2>3. x = "accepted" => s \in OnApproved(a, ap)
    BY <2>1
  <2> QED BY <2>1, <2>2, <2>3 DEF Sanctioned
<1>2. ASSUME NEW r \in Errand, er[r] # NoErrand,
             \/ \E x \in ErrandStatus : a = ToErrand(r, x)
             \/ \E x \in {"open", "assigned"} : a = ToTask(r, x)
      PROVE  /\ OnStandards(a, st) = st /\ OnApproved(a, ap) = ap
             /\ OnErrands(a, er) \in [Errand -> ErrandRow \cup {NoErrand}]
             /\ \A q \in Errand :
                  /\ OnErrands(a, er)[q] # NoErrand <=> er[q] # NoErrand
                  /\ er[q] # NoErrand => OnErrands(a, er)[q].s = er[q].s
             /\ Sanctioned(st, OnErrands(a, er), ap)
  <2>1. ASSUME NEW x \in ErrandStatus, a = ToErrand(r, x)
        PROVE  /\ OnErrands(a, er) \in [Errand -> ErrandRow \cup {NoErrand}]
               /\ OnErrands(a, er)[r] # NoErrand /\ OnErrands(a, er)[r].s = er[r].s
               /\ OnErrands(a, er)[r].status = "completed" => er[r].s \in ap
               /\ \A q \in Errand \ {r} : OnErrands(a, er)[q] = er[q]
               /\ OnStandards(a, st) = st /\ OnApproved(a, ap) = ap
    <3>1. DOMAIN a = {"r", "errand"} /\ a.r = r /\ a.errand = x
      BY <2>1, WriteFields
    <3>2. x = "completed" => er[r].s \in ap
      BY <3>1 DEF Founded
    <3> QED BY <1>2, <2>1, <3>2, ErrandWritten
  <2>2. ASSUME NEW x \in {"open", "assigned"}, a = ToTask(r, x)
        PROVE  /\ OnErrands(a, er) \in [Errand -> ErrandRow \cup {NoErrand}]
               /\ OnErrands(a, er)[r] # NoErrand /\ OnErrands(a, er)[r].s = er[r].s
               /\ OnErrands(a, er)[r].status = "completed" => er[r].s \in ap
               /\ \A q \in Errand \ {r} : OnErrands(a, er)[q] = er[q]
               /\ OnStandards(a, st) = st /\ OnApproved(a, ap) = ap
    BY <1>2, <2>2, TaskWritten DEF Sanctioned
  <2> DEFINE er2 == OnErrands(a, er)
  <2>3. /\ er2 \in [Errand -> ErrandRow \cup {NoErrand}]
        /\ er2[r] # NoErrand /\ er2[r].s = er[r].s
        /\ er2[r].status = "completed" => er[r].s \in ap
        /\ \A q \in Errand \ {r} : er2[q] = er[q]
        /\ OnStandards(a, st) = st /\ OnApproved(a, ap) = ap
    BY <1>2, <2>1, <2>2
  <2> HIDE DEF er2
  <2>4. Sanctioned(st, er2, ap)
    BY <1>2, <2>3 DEF Sanctioned
  <2> QED BY <1>2, <2>3, <2>4 DEF er2
<1>3. \/ \E s \in PlantSeason, x \in StandardStatus : a = ToStandard(s, x)
      \/ \E r \in Errand, x \in ErrandStatus : a = ToErrand(r, x)
      \/ \E r \in Errand, x \in {"open", "assigned"} : a = ToTask(r, x)
  BY DEF Writes, PutStandard, PutErrand, PutTask, ToStandard, ToErrand, ToTask
<1>4. \/ \E s \in PlantSeason, x \in StandardStatus : a = ToStandard(s, x)
      \/ \E r \in Errand : /\ er[r] # NoErrand
                           /\ \/ \E x \in ErrandStatus : a = ToErrand(r, x)
                              \/ \E x \in {"open", "assigned"} : a = ToTask(r, x)
  BY <1>3, WriteFields DEF Founded
<1>5. CASE \E s \in PlantSeason, x \in StandardStatus : a = ToStandard(s, x)
  BY <1>1, <1>5
<1>6. CASE \E r \in Errand : /\ er[r] # NoErrand
                             /\ \/ \E x \in ErrandStatus : a = ToErrand(r, x)
                                \/ \E x \in {"open", "assigned"} : a = ToTask(r, x)
  BY <1>2, <1>6
<1> QED BY <1>4, <1>5, <1>6

LEMMA StandardWorkAt ==
  ASSUME StandardInv, NEW c \in Call, work[c].op # "idle"
  PROVE  /\ work[c] \in StandardWork /\ WorkFounded(work[c], errand, approved)
         /\ serial => \A d \in Call \ {c} : work[d] = Idle
<1>1. work[c] # Idle
  BY DEF Idle
<1> QED BY <1>1 DEF StandardInv, StandardTypeOK, StandardWork, StandardSerialInv, OneCall

\* The head of a list is written, and the rest is left.
LEMMA WriteKeepsStandards ==
  ASSUME StandardInv, NEW c \in Call, work[c].op = "write", WriteNext(c),
         standard' = OnStandards(Head(work[c].list), standard),
         errand' = OnErrands(Head(work[c].list), errand),
         approved' = OnApproved(Head(work[c].list), approved)
  PROVE  StandardInv'
<1>1. /\ work[c] \in StandardWork /\ WorkFounded(work[c], errand, approved)
      /\ serial => \A d \in Call \ {c} : work[d] = Idle
  BY StandardWorkAt
<1>2. /\ work' = [work EXCEPT ![c] = Todo(Tail(work[c].list))]
      /\ UNCHANGED <<accidents, serial>>
  BY DEF WriteNext, Goto
<1>3. /\ standard \in [PlantSeason -> StandardStatus \cup {"none"}]
      /\ errand \in [Errand -> ErrandRow \cup {NoErrand}]
      /\ approved \in SUBSET PlantSeason /\ accidents' \in Nat
      /\ Sanctioned(standard, errand, approved)
  BY <1>2 DEF StandardInv, StandardTypeOK, CompletedWasApproved, Errands, Sanctioned
<1>4. ASSUME NEW a \in Writes, Head(work[c].list) = a, Founded(a, errand, approved),
             NEW w \in StandardWork, w = Todo(Tail(work[c].list)),
             WorkFounded(w, errand', approved'),
             serial /\ OneErrand(errand') /\ InStep(work[c], standard, errand, accidents)
               => InStep(w, standard', errand', accidents)
      PROVE  StandardInv'
  <2>1. /\ standard' \in [PlantSeason -> StandardStatus \cup {"none"}]
        /\ errand' \in [Errand -> ErrandRow \cup {NoErrand}]
        /\ approved' \in SUBSET PlantSeason /\ approved \subseteq approved'
        /\ \A q \in Errand : /\ errand'[q] # NoErrand <=> errand[q] # NoErrand
                             /\ errand[q] # NoErrand => errand'[q].s = errand[q].s
        /\ Sanctioned(standard', errand', approved')
    BY <1>3, <1>4, WriteIsSanctioned
  <2>2. OneErrand(errand) => OneErrand(errand')
    BY <2>1 DEF OneErrand
  <2>3. CompletedWasApproved'
    BY <2>1 DEF CompletedWasApproved, Errands, Sanctioned
  <2>4. InStep(work[c], standard, errand, accidents) => OneErrand(errand)
    BY DEF InStep
  <2>5. serial /\ InStep(work[c], standard, errand, accidents)
          => InStep(w, standard', errand', accidents')
    BY <1>2, <1>4, <2>2, <2>4
  <2> QED BY <1>1, <1>2, <1>3, <1>4, <2>1, <2>3, <2>5, StandardStep
<1>5. work[c] = Todo(work[c].list) /\ work[c] \in List
  <2>1. work[c] \in List
    BY <1>1, StandardWorkFields
  <2>2. work[c].list # <<>>
    BY <2>1, ListShape
  <2>3. work[c] = [op |-> "write", list |-> work[c].list]
    BY <2>1 DEF List
  <2> QED BY <2>1, <2>2, <2>3 DEF Todo
<1>6. ASSUME NEW a \in Writes, work[c].list = <<a>>
      PROVE  StandardInv'
  <2>1. Head(work[c].list) = a /\ Tail(work[c].list) = <<>> /\ work[c] = Todo(<<a>>)
    BY <1>5, <1>6
  <2>2. Founded(a, errand, approved)
    BY <1>1, <2>1, OneWrite
  <2>3. Todo(Tail(work[c].list)) = Idle /\ Idle \in StandardWork /\ Idle.op = "idle"
    BY <2>1, TodoIsWork DEF Idle
  <2>4. WorkFounded(Idle, errand', approved')
    BY <2>3 DEF WorkFounded
  <2>5. OneErrand(errand') /\ InStep(work[c], standard, errand, accidents)
          => InStep(Idle, standard', errand', accidents)
    <3>1. InStep(work[c], standard, errand, accidents) /\ accidents = 0
            => Agreeing(standard', errand')
      BY <2>1, OneWrite
    <3> QED BY <2>3, <3>1 DEF InStep, WillAgree
  <2> QED BY <1>4, <2>1, <2>2, <2>3, <2>4, <2>5
<1>7. ASSUME NEW a \in Writes, NEW b \in Writes, work[c].list = <<a, b>>
      PROVE  StandardInv'
  <2>1. /\ Head(work[c].list) = a /\ Tail(work[c].list) = <<b>>
        /\ work[c] = Todo(<<a, b>>)
    BY <1>5, <1>7
  <2>2. Founded(a, errand, approved) /\ Founded(b, errand, approved')
    BY <1>1, <2>1, TwoWrites
  <2>3. /\ \A q \in Errand : errand[q] # NoErrand
             => errand'[q] # NoErrand /\ errand'[q].s = errand[q].s
    BY <1>3, <2>1, <2>2, WriteIsSanctioned
  <2>4. Founded(b, errand', approved')
    BY <2>2, <2>3, FoundedStays
  <2>5. Todo(<<b>>) \in StandardWork /\ WorkFounded(Todo(<<b>>), errand', approved')
    BY <2>4, TodoIsWork, OneWrite
  <2>6. OneErrand(errand') /\ InStep(work[c], standard, errand, accidents)
          => InStep(Todo(<<b>>), standard', errand', accidents)
    <3>1. InStep(work[c], standard, errand, accidents) /\ accidents = 0
            => Agreeing(OnStandards(b, standard'), OnErrands(b, errand'))
      BY <2>1, TwoWrites
    <3> QED BY <3>1, OneWrite
  <2> QED BY <1>4, <2>1, <2>2, <2>5, <2>6
<1> QED BY <1>5, <1>6, <1>7, ListShape

LEMMA SetKeepsStandards ==
  ASSUME StandardInv, NEW c \in Call,
         SetStandard(c) \/ SetErrandStatus(c) \/ SetTask(c)
  PROVE  StandardInv'
<1> DEFINE a == Head(work[c].list)
<1>1. work[c].op = "write" /\ WriteNext(c)
  BY DEF SetStandard, SetErrandStatus, SetTask, IsNext
<1>2. a \in Writes
  <2>1. work[c] \in List
    BY <1>1, StandardWorkAt, StandardWorkFields
  <2> QED BY <2>1, ListShape
<1>3. CASE SetStandard(c)
  <2>1. DOMAIN a = {"s", "standard"}
    BY <1>2, <1>3, WriteKinds DEF SetStandard, IsNext
  <2>2. /\ standard' = OnStandards(a, standard)
        /\ errand' = OnErrands(a, errand)
        /\ approved' = OnApproved(a, approved)
    BY <1>3, <2>1 DEF SetStandard, OnStandards, OnErrands, OnApproved
  <2> QED BY <1>1, <2>2, WriteKeepsStandards
<1>4. CASE SetErrandStatus(c)
  <2>1. DOMAIN a = {"r", "errand"}
    BY <1>2, <1>4, WriteKinds DEF SetErrandStatus, IsNext
  <2>2. /\ standard' = OnStandards(a, standard)
        /\ errand' = OnErrands(a, errand)
        /\ approved' = OnApproved(a, approved)
    BY <1>4, <2>1 DEF SetErrandStatus, OnStandards, OnErrands, OnApproved
  <2> QED BY <1>1, <2>2, WriteKeepsStandards
<1>5. CASE SetTask(c)
  <2>1. DOMAIN a = {"r", "task"}
    BY <1>2, <1>5, WriteKinds DEF SetTask, IsNext
  <2>2. /\ standard' = OnStandards(a, standard)
        /\ errand' = OnErrands(a, errand)
        /\ approved' = OnApproved(a, approved)
    BY <1>5, <2>1 DEF SetTask, OnStandards, OnErrands, OnApproved
  <2> QED BY <1>1, <2>2, WriteKeepsStandards
<1> QED BY <1>3, <1>4, <1>5

LEMMA SaveErrandKeepsStandards ==
  ASSUME StandardInv, NEW c \in Call, SaveErrand(c)
  PROVE  StandardInv'
<1>1. work[c].op = "insertErrand"
  BY DEF SaveErrand
<1>2. /\ work[c] \in Insert
      /\ serial => \A d \in Call \ {c} : work[d] = Idle
  BY <1>1, StandardWorkAt, StandardWorkFields
<1> DEFINE s == work[c].s
           row == [s |-> s, status |-> "pending", task |-> "none"]
<1>3. s \in PlantSeason
  BY <1>2 DEF Insert
<1>4. PICK r \in Errand :
        /\ errand[r] = NoErrand
        /\ errand' = [errand EXCEPT ![r] = row]
        /\ Goto(c, Todo(<<ToTask(r, "open")>>))
  BY DEF SaveErrand, Errands
<1>5. UNCHANGED <<standard, approved>>
  BY DEF SaveErrand
<1> HIDE DEF s
<1>6. row \in ErrandRow /\ row.s = s /\ row.status = "pending"
  BY <1>3 DEF ErrandRow, ErrandStatus
<1>7. row # NoErrand
  BY <1>6 DEF NoErrand
<1> HIDE DEF row
<1> DEFINE a == ToTask(r, "open")
           w == Todo(<<a>>)
<1>8. /\ a \in Writes /\ DOMAIN a = {"r", "task"} /\ a.r = r
  BY WriteFields
<1>9. /\ work' = [work EXCEPT ![c] = w] /\ UNCHANGED <<accidents, serial>>
  BY <1>4 DEF Goto
<1>10. /\ standard \in [PlantSeason -> StandardStatus \cup {"none"}]
       /\ errand \in [Errand -> ErrandRow \cup {NoErrand}]
       /\ approved \in SUBSET PlantSeason /\ accidents' \in Nat
  BY <1>9 DEF StandardInv, StandardTypeOK
<1>11. /\ errand' \in [Errand -> ErrandRow \cup {NoErrand}]
       /\ errand'[r] = row
       /\ \A q \in Errand \ {r} : errand'[q] = errand[q]
  BY <1>4, <1>6, <1>10
<1>12. Agreeing(standard, errand') => Agreeing(standard, OnErrands(a, errand'))
  BY <1>7, <1>10, <1>11, StillAgreeing
<1>13. OnStandards(a, standard) = standard
  BY <1>7, <1>11, TaskWritten
<1>14. w \in StandardWork
  BY <1>8, TodoIsWork
<1> HIDE DEF a
<1>15. Founded(a, errand', approved)
  BY <1>7, <1>8, <1>11 DEF Founded
<1>16. WorkFounded(w, errand', approved')
  BY <1>5, <1>8, <1>15, OneWrite
<1>17. InStep(work[c], standard, errand, accidents)
         => InStep(w, standard', errand', accidents')
  <2> SUFFICES ASSUME InStep(work[c], standard, errand, accidents)
               PROVE  InStep(w, standard, errand', accidents)
    BY <1>5, <1>9
  <2>1. OneErrand(errand')
    BY <1>1, <1>4, <1>6, <1>11 DEF InStep, OneErrand, s
  <2>2. accidents = 0 => Agreeing(standard, errand')
    BY <1>1, <1>6, <1>11 DEF InStep, WillAgree, Agreeing
  <2> QED BY <1>8, <1>12, <1>13, <2>1, <2>2, OneWrite
<1>18. CompletedWasApproved'
  BY <1>5, <1>6, <1>11 DEF StandardInv, CompletedWasApproved, Errands
<1>19. \A q \in Errand : errand[q] # NoErrand
         => errand'[q] # NoErrand /\ errand'[q].s = errand[q].s
  BY <1>4, <1>11
<1> QED BY <1>2, <1>5, <1>9, <1>10, <1>11, <1>14, <1>16, <1>17, <1>18, <1>19, StandardStep

LEMMA SaveStandardKeepsStandards ==
  ASSUME StandardInv, NEW c \in Call, SaveNewStandard(c)
  PROVE  StandardInv'
<1> DEFINE s == work[c].s
           x == IF standard[s] = "none" THEN "pending" ELSE standard[s]
<1>1. /\ work[c].op = "insertStandard"
      /\ standard' = [standard EXCEPT ![s] = x]
      /\ work' = [work EXCEPT ![c] = Idle]
      /\ UNCHANGED <<accidents, serial, errand, approved>>
  BY DEF SaveNewStandard, Goto
<1>2. /\ work[c] \in Insert
      /\ serial => \A d \in Call \ {c} : work[d] = Idle
  BY <1>1, StandardWorkAt, StandardWorkFields
<1>3. s \in PlantSeason
  BY <1>2 DEF Insert
<1>4. /\ standard \in [PlantSeason -> StandardStatus \cup {"none"}]
      /\ errand' \in [Errand -> ErrandRow \cup {NoErrand}]
      /\ approved' \in SUBSET PlantSeason /\ accidents' \in Nat
  BY <1>1 DEF StandardInv, StandardTypeOK
<1>5. x \in StandardStatus
  BY <1>3, <1>4 DEF StandardStatus
<1>6. standard[s] = "none" \/ x = standard[s]
  OBVIOUS
<1>7. x = "accepted" => standard[s] = "accepted"
  OBVIOUS
<1> HIDE DEF s, x
<1>8. /\ standard' \in [PlantSeason -> StandardStatus \cup {"none"}]
      /\ standard'[s] = x
      /\ \A y \in PlantSeason \ {s} : standard'[y] = standard[y]
  BY <1>1, <1>3, <1>4, <1>5
<1>9. CompletedWasApproved'
  BY <1>1, <1>7, <1>8 DEF StandardInv, CompletedWasApproved, Errands
<1>10. Agreeing(standard, errand) => Agreeing(standard', errand)
  <2>1. \A r \in Errand : errand[r] # NoErrand => errand[r].s \in PlantSeason
    BY <1>1, <1>4 DEF ErrandRow
  <2> QED BY <1>6, <1>8, <2>1 DEF Agreeing
<1>11. Idle.op = "idle" /\ Idle \in StandardWork
  BY DEF Idle, StandardWork
<1>12. InStep(work[c], standard, errand, accidents)
         => InStep(Idle, standard', errand', accidents')
  BY <1>1, <1>10, <1>11 DEF InStep, WillAgree
<1>13. WorkFounded(Idle, errand', approved')
  BY <1>11 DEF WorkFounded
<1> QED BY <1>1, <1>2, <1>4, <1>8, <1>9, <1>11, <1>12, <1>13, StandardStep

LEMMA SaveEditedKeepsStandards ==
  ASSUME StandardInv, NEW c \in Call, SaveEdited(c)
  PROVE  StandardInv'
<1> DEFINE s == work[c].s
           x == work[c].was
           w == [work[c] EXCEPT !.op = "editStages"]
<1>1. /\ work[c].op = "saveEdited"
      /\ standard' = [standard EXCEPT ![s] = x]
      /\ work' = [work EXCEPT ![c] = w]
      /\ UNCHANGED <<accidents, serial, errand, approved>>
  BY DEF SaveEdited, Goto
<1>2. /\ work[c] \in Editing /\ WorkFounded(work[c], errand, approved)
      /\ serial => \A d \in Call \ {c} : work[d] = Idle
  BY <1>1, StandardWorkAt, StandardWorkFields
<1>3. s \in PlantSeason /\ x \in StandardStatus /\ (x = "accepted" => s \in approved)
  BY <1>1, <1>2 DEF Editing, WorkFounded
<1>4. w \in StandardWork /\ w.op = "editStages" /\ w.s = s /\ w.was = x
  BY <1>2 DEF StandardWork, Editing
<1>5. work[c].s = s /\ work[c].was = x
  OBVIOUS
<1>6. /\ standard \in [PlantSeason -> StandardStatus \cup {"none"}]
      /\ errand' \in [Errand -> ErrandRow \cup {NoErrand}]
      /\ approved' \in SUBSET PlantSeason /\ accidents' \in Nat
  BY <1>1 DEF StandardInv, StandardTypeOK
<1> HIDE DEF s, x, w
<1>7. /\ standard' \in [PlantSeason -> StandardStatus \cup {"none"}]
      /\ standard'[s] = x
      /\ \A y \in PlantSeason \ {s} : standard'[y] = standard[y]
  BY <1>1, <1>3, <1>6
<1>8. CompletedWasApproved'
  BY <1>1, <1>3, <1>7 DEF StandardInv, CompletedWasApproved, Errands
<1>9. ASSUME InStep(work[c], standard, errand, accidents)
      PROVE  InStep(w, standard', errand', accidents')
  <2>1. accidents = 0 => standard[s] = x /\ Agreeing(standard, errand)
    BY <1>1, <1>5, <1>9 DEF InStep, WillAgree
  <2>2. accidents = 0 => standard' = standard
    BY <1>1, <1>3, <1>6, <2>1
  <2>3. OneErrand(errand)
    BY <1>9 DEF InStep
  <2> QED BY <1>1, <1>4, <2>1, <2>2, <2>3 DEF InStep, WillAgree
<1>10. WorkFounded(w, errand', approved')
  BY <1>1, <1>3, <1>4 DEF WorkFounded
<1> QED BY <1>1, <1>2, <1>4, <1>6, <1>7, <1>8, <1>9, <1>10, StandardStep

\* A step that writes nothing, and leaves the call w.
LEMMA StandardGoes ==
  ASSUME StandardInv, NEW c \in Call, work[c].op # "idle",
         NEW w \in StandardWork, Goto(c, w), UNCHANGED standards,
         WorkFounded(w, errand, approved),
         InStep(work[c], standard, errand, accidents)
           => InStep(w, standard, errand, accidents)
  PROVE  StandardInv'
<1>1. /\ work' = [work EXCEPT ![c] = w]
      /\ UNCHANGED <<accidents, serial, standard, errand, approved>>
  BY DEF Goto, standards
<1>2. /\ standard' \in [PlantSeason -> StandardStatus \cup {"none"}]
      /\ errand' \in [Errand -> ErrandRow \cup {NoErrand}]
      /\ approved' \in SUBSET PlantSeason /\ accidents' \in Nat
  BY <1>1 DEF StandardInv, StandardTypeOK
<1>3. CompletedWasApproved'
  BY <1>1 DEF StandardInv, CompletedWasApproved, Errands
<1>4. serial => \A d \in Call \ {c} : work[d] = Idle
  BY StandardWorkAt
<1> QED BY <1>1, <1>2, <1>3, <1>4, StandardStep

LEMMA EditStagesKeepsStandards ==
  ASSUME StandardInv, NEW c \in Call, EditStages(c)
  PROVE  StandardInv'
<1> DEFINE s == work[c].s
           a == ToStandard(s, "pending")
           st == OnStandards(a, standard)
<1>1. work[c].op = "editStages" /\ UNCHANGED standards
  BY DEF EditStages
<1>2. work[c] \in Editing
  BY <1>1, StandardWorkAt, StandardWorkFields
<1>3. s \in PlantSeason
  BY <1>2 DEF Editing
<1>4. /\ standard \in [PlantSeason -> StandardStatus \cup {"none"}]
      /\ errand \in [Errand -> ErrandRow \cup {NoErrand}]
      /\ "pending" \in StandardStatus /\ "pending_approval" \in ErrandStatus
  BY DEF StandardInv, StandardTypeOK, StandardStatus, ErrandStatus
<1>5. \A r \in Errand : errand[r] # NoErrand => errand[r].s \in PlantSeason
  BY <1>4 DEF ErrandRow
<1>6. work[c].s = s
  OBVIOUS
<1> HIDE DEF s
<1>7. /\ a \in Writes /\ DOMAIN a = {"s", "standard"}
      /\ \A y \in PlantSeason \ {s} : st[y] = standard[y]
  BY <1>3, <1>4, StandardWritten
<1>8. InStep(work[c], standard, errand, accidents)
        => /\ OneErrand(errand)
           /\ accidents = 0 => Agreeing(standard, errand) /\ standard[s] = work[c].was
  BY <1>1, <1>6 DEF InStep, WillAgree
<1>9. CASE Goto(c, Idle)
  <2>1. Idle \in StandardWork /\ Idle.op = "idle"
    BY DEF Idle, StandardWork
  <2> QED BY <1>1, <1>8, <1>9, <2>1, StandardGoes DEF WorkFounded, InStep, WillAgree
<1>10. ASSUME work[c].was = "rejected", Goto(c, Todo(<<>> \o <<a>>))
       PROVE  StandardInv'
  <2>1. Goto(c, Todo(<<a>>)) /\ OnErrands(a, errand) = errand
    BY <1>3, <1>4, <1>10, ConcatWrites, StandardWritten
  <2> HIDE DEF a
  <2>2. Agreeing(standard, errand) /\ standard[s] = "rejected" => Agreeing(st, errand)
    BY <1>5, <1>7 DEF Agreeing
  <2>3. Founded(a, errand, approved)
    BY <1>7 DEF Founded
  <2>4. Todo(<<a>>) \in StandardWork /\ WorkFounded(Todo(<<a>>), errand, approved)
    BY <1>7, <2>3, TodoIsWork, OneWrite
  <2>5. InStep(work[c], standard, errand, accidents)
          => InStep(Todo(<<a>>), standard, errand, accidents)
    BY <1>7, <1>8, <1>10, <2>1, <2>2, OneWrite
  <2> QED BY <1>1, <2>1, <2>4, <2>5, StandardGoes
<1>11. ASSUME work[c].was = "rejected", NEW r \in Errand, errand[r] # NoErrand,
              Goto(c, Todo(<<ToErrand(r, "pending_approval")>> \o <<a>>))
       PROVE  StandardInv'
  <2> DEFINE b == ToErrand(r, "pending_approval")
             er == OnErrands(b, errand)
  <2>1. Goto(c, Todo(<<b, a>>))
    BY <1>11, ConcatWrites
  <2>2. /\ b \in Writes /\ DOMAIN b = {"r", "errand"} /\ b.r = r
        /\ b.errand = "pending_approval"
        /\ OnStandards(b, standard) = standard
        /\ er \in [Errand -> ErrandRow \cup {NoErrand}]
        /\ \A ap : OnApproved(b, ap) = ap
    BY <1>4, <1>11, ErrandWritten
  <2>3. /\ er[r].status = "pending_approval" /\ er[r] # NoErrand
        /\ \A q \in Errand \ {r} : er[q] = errand[q]
    BY <1>4, <1>11, ErrandWritten
  <2>4. OnErrands(a, er) = er
    BY <1>3, <1>4, StandardWritten
  <2> HIDE DEF a, b, er
  <2>5. Agreeing(standard, errand) /\ standard[s] = "rejected" => Agreeing(st, er)
    BY <1>5, <1>7, <2>3 DEF Agreeing
  <2>6. Founded(b, errand, approved) /\ Founded(a, errand, OnApproved(b, approved))
    BY <1>7, <1>11, <2>2 DEF Founded
  <2>7. Todo(<<b, a>>) \in StandardWork /\ WorkFounded(Todo(<<b, a>>), errand, approved)
    BY <1>7, <2>2, <2>6, TodoIsWork, TwoWrites
  <2>8. /\ OnStandards(a, OnStandards(b, standard)) = st
        /\ OnErrands(a, OnErrands(b, errand)) = er
    BY <2>2, <2>4 DEF er
  <2>9. InStep(work[c], standard, errand, accidents)
          => InStep(Todo(<<b, a>>), standard, errand, accidents)
    BY <1>7, <1>8, <1>11, <2>2, <2>5, <2>8, TwoWrites
  <2> QED BY <1>1, <2>1, <2>7, <2>9, StandardGoes
<1> QED BY <1>9, <1>10, <1>11 DEF EditStages, ErrandWrites, ErrandOf, Errands, s

LEMMA FailKeepsStandards ==
  ASSUME StandardInv, NEW c \in Call, Fail(c), UNCHANGED standards
  PROVE  StandardInv'
<1>1. /\ work' = [work EXCEPT ![c] = Idle] /\ work[c] # Idle
      /\ accidents' = accidents + 1
      /\ UNCHANGED <<standard, errand, approved, serial>>
  BY DEF Fail, standards
<1>2. accidents' \in Nat /\ accidents' # 0
  BY <1>1 DEF StandardInv, StandardTypeOK
<1>3. serial => \A d \in Call \ {c} : work[d] = Idle
  BY <1>1 DEF StandardInv, StandardSerialInv, OneCall
<1>4. Idle.op = "idle" /\ Idle \in StandardWork
  BY DEF Idle, StandardWork
<1>5. InStep(work[c], standard, errand, accidents)
        => InStep(Idle, standard', errand', accidents')
  BY <1>1, <1>2, <1>4 DEF InStep
<1>6. /\ standard' \in [PlantSeason -> StandardStatus \cup {"none"}]
      /\ errand' \in [Errand -> ErrandRow \cup {NoErrand}]
      /\ approved' \in SUBSET PlantSeason
      /\ CompletedWasApproved'
  BY <1>1 DEF StandardInv, StandardTypeOK, CompletedWasApproved, Errands
<1>7. WorkFounded(Idle, errand', approved')
  BY <1>4 DEF WorkFounded
<1> QED BY <1>1, <1>2, <1>3, <1>4, <1>5, <1>6, <1>7, StandardStep

LEMMA StandardKept ==
  ASSUME StandardInv, StandardNext
  PROVE  StandardInv'
BY StandardArrivalKeepsStandards, SaveErrandKeepsStandards, SaveStandardKeepsStandards,
   SaveEditedKeepsStandards, EditStagesKeepsStandards, SetKeepsStandards,
   FailKeepsStandards DEF StandardNext

LEMMA StandardStarts ==
  ASSUME StandardInit
  PROVE  StandardInv
<1>1. StandardTypeOK
  BY CallsBoundAssumption DEF StandardInit, CallsInit, StandardTypeOK
<1>2. /\ \A r \in Errand : errand[r] = NoErrand
      /\ \A s \in PlantSeason : standard[s] = "none"
      /\ \A c \in Call : work[c] = Idle
  BY DEF StandardInit, CallsInit
<1>3. Idle.op = "idle"
  BY DEF Idle
<1>4. InStep(Idle, standard, errand, accidents)
  BY <1>2, <1>3 DEF InStep, WillAgree, Agreeing, OneErrand
<1>5. StandardSerialInv
  BY <1>2, <1>4 DEF StandardSerialInv, OneCall
<1>6. CompletedWasApproved
  BY <1>2 DEF CompletedWasApproved, Errands
<1>7. \A c \in Call : WorkFounded(work[c], errand, approved)
  BY <1>2, <1>3 DEF WorkFounded
<1> QED BY <1>1, <1>5, <1>6, <1>7 DEF StandardInv

LEMMA StandardInvGives ==
  ASSUME StandardInv
  PROVE  StandardTypeOK /\ CompletedWasApproved /\ CompletedIsAccepted
<1>1. ASSUME serial, Quiet
      PROVE  OneErrand(errand) /\ (accidents = 0 => Agreeing(standard, errand))
  BY <1>1 DEF StandardInv, StandardSerialInv, InStep, WillAgree, Idle
<1>2. CompletedIsAccepted
  BY <1>1 DEF CompletedIsAccepted, OneErrand, Agreeing, Errands, ErrandOf
<1> QED BY <1>2 DEF StandardInv

-----------------------------------------------------------------------------
\* The three together: what the behaviour is not about stays empty.
NoAccounts ==
  /\ \A e \in Email : user[e] = Absent
  /\ \A e \in Email, kind \in Kind : otp[e][kind] = Absent
  /\ acted = {}

NoCatalogue ==
  /\ \A s \in Season : season[s] = NoRow
  /\ \A i \in Entry : entry[i] = NoRow

NoStandards ==
  /\ \A r \in Errand : errand[r] = NoErrand
  /\ \A s \in PlantSeason : standard[s] = "none"

AdministrationInv ==
  /\ IF area = "accounts"  THEN AccountsInv  ELSE NoAccounts
  /\ IF area = "catalogue" THEN CatalogueInv ELSE NoCatalogue
  /\ IF area = "standards" THEN StandardInv  ELSE NoStandards

LEMMA AccountsStay ==
  ASSUME UNCHANGED accounts
  PROVE  /\ NoAccounts => NoAccounts'
         /\ AccountsInv /\ UNCHANGED calls => AccountsInv'
BY DEF accounts, calls, NoAccounts, AccountsInv, AccountsTypeOK, CodesInv, PasswordsInv

LEMMA CatalogueStays ==
  ASSUME UNCHANGED catalogue
  PROVE  /\ NoCatalogue => NoCatalogue'
         /\ CatalogueInv /\ UNCHANGED calls => CatalogueInv'
BY DEF catalogue, calls, NoCatalogue, CatalogueInv, CatalogueTypeOK, CatalogueSerialInv,
   OneCall, Quiet, NamesDiffer, Entries

LEMMA StandardsStay ==
  ASSUME UNCHANGED standards
  PROVE  /\ NoStandards => NoStandards'
         /\ StandardInv /\ UNCHANGED calls => StandardInv'
BY DEF standards, calls, NoStandards, StandardInv, StandardTypeOK, StandardSerialInv,
   OneCall, Quiet, CompletedWasApproved, Errands

LEMMA AdministrationInvHolds == Spec => []AdministrationInv
<1>1. Init => AdministrationInv
  <2> SUFFICES ASSUME Init PROVE AdministrationInv
    OBVIOUS
  <2>1. AccountsInv /\ CatalogueInv /\ StandardInv
    BY AccountsStart, CatalogueStarts, StandardStarts DEF Init
  <2>2. NoAccounts /\ NoCatalogue /\ NoStandards
    BY DEF Init, AccountsInit, CatalogueInit, StandardInit, NoAccounts, NoCatalogue,
       NoStandards
  <2> QED BY <2>1, <2>2 DEF AdministrationInv
<1>2. AdministrationInv /\ [Next]_vars => AdministrationInv'
  <2> SUFFICES ASSUME AdministrationInv, [Next]_vars PROVE AdministrationInv'
    OBVIOUS
  <2>1. CASE area = "accounts" /\ AccountsNext /\ UNCHANGED <<catalogue, standards, area>>
    BY <2>1, AccountsKept, CatalogueStays, StandardsStay DEF AdministrationInv
  <2>2. CASE area = "catalogue" /\ CatalogueNext /\ UNCHANGED <<accounts, standards, area>>
    BY <2>2, CatalogueKept, AccountsStay, StandardsStay DEF AdministrationInv
  <2>3. CASE area = "standards" /\ StandardNext /\ UNCHANGED <<accounts, catalogue, area>>
    BY <2>3, StandardKept, AccountsStay, CatalogueStays DEF AdministrationInv
  <2>4. CASE UNCHANGED vars
    BY <2>4, AccountsStay, CatalogueStays, StandardsStay DEF vars, AdministrationInv
  <2> QED BY <2>1, <2>2, <2>3, <2>4 DEF Next
<1> QED BY <1>1, <1>2, PTL DEF Spec

-----------------------------------------------------------------------------
\* Accounts are well formed; whoever registered or set a new password had been mailed
\* the code he gave; and until a mail is lost the password of an account was mailed to
\* its address or is about to be (create, updatePassword), for any number of accounts
\* and of calls that overlap and fail.
THEOREM AccountsHoldHolds == Spec => []AccountsHold
<1>1. AdministrationInv => AccountsHold
  <2>1. ASSUME NoAccounts
        PROVE  CodeBeforeAct /\ PasswordIsKnown
    BY <2>1 DEF NoAccounts, CodeBeforeAct, PasswordIsKnown, Exists
  <2> QED BY <2>1, AccountsInvGives DEF AdministrationInv, AccountsHold
<1> QED BY AdministrationInvHolds, <1>1, PTL

\* The catalogue is well formed; its seasons fit when calls do not overlap
\* (addPlantSeason, updatePlantSeason); names differ however they do (createPlant,
\* createLand); and what was decided last counts when none fails.
THEOREM CatalogueHoldsHolds == Spec => []CatalogueHolds
<1>1. AdministrationInv => CatalogueHolds
  <2>1. ASSUME NoCatalogue
        PROVE  SeasonsFit /\ NamesDiffer /\ DecisionCounts
    <3>1. /\ Seasons = {} /\ Entries = {}
          /\ \A type : OfType(type) = {}
      BY <2>1 DEF NoCatalogue, Seasons, Entries, OfType
    <3>2. SeasonsFit
      BY <3>1, FS_EmptySet DEF SeasonsFit
    <3> QED BY <3>1, <3>2 DEF NamesDiffer, DecisionCounts
  <2> QED BY <2>1, CatalogueInvGives DEF AdministrationInv, CatalogueHolds
<1> QED BY AdministrationInvHolds, <1>1, PTL

\* The standard processes are well formed; a request is completed, and a process
\* accepted, only after a manager accepted the process of that season
\* (updateProcessStandardStatus, confirmRequest), however the calls overlap and fail;
\* and when they do neither, a completed request has a process that was not rejected
\* or put up for approval again.
THEOREM StandardsHoldHolds == Spec => []StandardsHold
<1>1. AdministrationInv => StandardsHold
  <2>1. ASSUME NoStandards
        PROVE  CompletedWasApproved /\ CompletedIsAccepted
    BY <2>1 DEF NoStandards, CompletedWasApproved, CompletedIsAccepted, Errands, ErrandOf
  <2> QED BY <2>1, StandardInvGives DEF AdministrationInv, StandardsHold
<1> QED BY AdministrationInvHolds, <1>1, PTL
===============================================================================
