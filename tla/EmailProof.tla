------------------------------ MODULE EmailProof ------------------------------
(***************************************************************************)
(* The page on which a vendor registers, and its gate: a CAPTCHA, a code    *)
(* for the e-mail address given, the code typed back.  The code is mailed, *)
(* or shown on the page when the server has no SMTP_HOST.  The server      *)
(* keeps nothing: what it knows it signs into tokens that expire and are   *)
(* readable, and gets back from the page.  One request at a time is under  *)
(* way: busy disables every button.                                        *)
(***************************************************************************)
EXTENDS Naturals, FiniteSets

CONSTANTS
    Emails, Owned,  \* addresses that may be typed; those whose mail is read
    Absent,         \* no token, no request under way
    MaxEdits, MaxCodes, MaxLosses, MaxExpired  \* bounds

ASSUME EmailAssumption ==
    /\ Owned \subseteq Emails
    /\ {MaxEdits, MaxCodes, MaxLosses, MaxExpired} \subseteq Nat

VARIABLES
    email, emailVerified,  \* the page's state
    stage,                 \* EmailVerification's state
    captcha, token,        \* captchaToken, verificationToken
    call,                  \* the request under way, if busy
    smtp,                  \* whether the server can send mail
    issued,                \* history: the addresses and the codes made for them
    confirmed,             \* history: the addresses confirmed and the code typed
    edits, codes, losses, expired   \* how often, for the bounds

addressVars == <<email, emailVerified, edits>>
proofVars == <<stage, captcha, token>>
worldVars == <<smtp, issued, confirmed>>
emailVars == <<addressVars, proofVars, worldVars, call, codes, losses, expired>>

Code == 0..MaxCodes    \* 0 is a code that was never issued
Token == [email : Emails, code : Code, fresh : BOOLEAN]
Call == [kind : {"challenge", "send", "confirm"}, email : Emails,
         right : BOOLEAN, code : Code]

EmailTypeOK ==
    /\ email \in Emails /\ emailVerified \in BOOLEAN
    /\ stage \in {"idle", "captcha", "code", "done"}
    /\ captcha \in {"none", "fresh", "expired"}
    /\ token \in Token \cup {Absent}
    /\ call \in Call \cup {Absent}
    /\ smtp \in BOOLEAN
    /\ {issued, confirmed} \subseteq SUBSET (Emails \X Code)
    /\ stage = "captcha" => captcha # "none"
    /\ stage \in {"code", "done"} => token # Absent
    /\ emailVerified => stage = "done"

EmailInit ==
    /\ email \in Emails /\ emailVerified = FALSE
    /\ stage = "idle" /\ captcha = "none" /\ token = Absent /\ call = Absent
    /\ smtp \in BOOLEAN /\ issued = {} /\ confirmed = {}
    /\ edits = 0 /\ codes = 0 /\ losses = 0 /\ expired = 0

\* The address is typed anew, at any time: the page forgets that it was
\* verified, EmailVerification forgets nothing.
Edit(e) ==
    /\ e # email
    /\ edits < MaxEdits
    /\ edits' = edits + 1
    /\ email' = e
    /\ emailVerified' = FALSE
    /\ UNCHANGED <<proofVars, worldVars, call, codes, losses, expired>>

\* A button of EmailVerification, which shows the one of its stage.
Asks(kind, right, code) ==
    /\ ~emailVerified
    /\ call = Absent
    /\ call' = [kind |-> kind, email |-> email, right |-> right, code |-> code]
    /\ UNCHANGED <<addressVars, proofVars, worldVars, codes, losses, expired>>

\* Mutant of StartChallenge: no other code can be asked for.
StartChallengeOnce == stage = "idle" /\ Asks("challenge", FALSE, 0)

StartChallenge == stage \in {"idle", "code"} /\ Asks("challenge", FALSE, 0)
SendCode(right) == stage = "captcha" /\ Asks("send", right, 0)
ConfirmCode(code) == stage = "code" /\ Asks("confirm", FALSE, code)

Challenged ==
    /\ call # Absent /\ call.kind = "challenge"
    /\ call' = Absent
    /\ captcha' = "fresh"
    /\ stage' = "captcha"
    /\ UNCHANGED <<addressVars, worldVars, token, codes, losses, expired>>

\* The answer is right and in time: a new code for the address, which is mailed
\* if the server can.
Issues ==
    /\ call # Absent /\ call.kind = "send"
    /\ call.right /\ captcha = "fresh"
    /\ codes < MaxCodes
    /\ codes' = codes + 1
    /\ issued' = issued \cup {<<call.email, codes + 1>>}
    /\ UNCHANGED <<smtp, confirmed>>

\* The page gets address and code back, signed into a token, and the code
\* itself if it was not mailed.
CodeSent ==
    /\ Issues
    /\ call' = Absent
    /\ token' = [email |-> call.email, code |-> codes + 1, fresh |-> TRUE]
    /\ stage' = "code"
    /\ UNCHANGED <<addressVars, captcha, losses, expired>>

\* Mutant of Valid: the code is not compared.
ValidUncompared == token.fresh

\* confirm-code's checks of the token it gets back.
Valid == token.fresh /\ call.code = token.code

\* The code is confirmed, for the token's address; the page marks verified
\* whichever address its form has by now.
Confirmed ==
    /\ call # Absent /\ call.kind = "confirm"
    /\ Valid
    /\ call' = Absent
    /\ stage' = "done"
    /\ emailVerified' = TRUE
    /\ confirmed' = confirmed \cup {<<token.email, call.code>>}
    /\ UNCHANGED <<email, edits, captcha, token, smtp, issued, codes, losses, expired>>

\* A wrong answer or code, or an expired token: an error, the stage as it was.
CallRefused ==
    /\ call # Absent
    /\ \/ call.kind = "send" /\ ~(call.right /\ captcha = "fresh")
       \/ call.kind = "confirm" /\ ~Valid
    /\ call' = Absent
    /\ UNCHANGED <<addressVars, proofVars, worldVars, codes, losses, expired>>

\* The request or its answer is lost, the latter maybe after the mail was sent,
\* or the mail cannot be sent.
Lost ==
    /\ call # Absent
    /\ losses < MaxLosses
    /\ losses' = losses + 1
    /\ call' = Absent
    /\ Issues \/ UNCHANGED <<worldVars, codes>>
    /\ UNCHANGED <<addressVars, proofVars, expired>>

\* Five minutes after its challenge, ten after its mail, a token is refused.
Expire ==
    /\ expired < MaxExpired
    /\ expired' = expired + 1
    /\ \/ captcha = "fresh" /\ captcha' = "expired" /\ UNCHANGED token
       \/ /\ token # Absent /\ token.fresh
          /\ token' = [token EXCEPT !.fresh = FALSE]
          /\ UNCHANGED captcha
    /\ UNCHANGED <<addressVars, stage, worldVars, call, codes, losses>>

\* The form is sent and accepted, and another page shown; or it fails and stays.
Register ==
    /\ emailVerified
    /\ emailVerified' = FALSE
    /\ stage' = "idle" /\ captcha' = "none" /\ token' = Absent /\ call' = Absent
    /\ UNCHANGED <<email, edits, worldVars, codes, losses, expired>>

\* What may be typed: a code out of a mail, from the page or its token, or a
\* guess.
Typed == 0..codes

EmailNext ==
    \/ \E e \in Emails : Edit(e)
    \/ StartChallenge \/ \E right \in BOOLEAN : SendCode(right)
    \/ \E code \in Typed : ConfirmCode(code)
    \/ Challenged \/ CodeSent \/ Confirmed \/ CallRefused \/ Lost \/ Expire \/ Register

EmailSpec == EmailInit /\ [][EmailNext]_emailVars

\* The last token is worth a try.
Current == IF token = Absent THEN FALSE ELSE token.fresh /\ token.email = email

\* Whoever fills in the form knows its code: devCode, or their mail.
Readable == ~smtp \/ token.email \in Owned

\* What leads on to a verified address: to answer rightly, to type the code
\* that came last, and to ask for another one when that has expired or went
\* elsewhere.
Persist ==
    \/ ~Current /\ StartChallenge
    \/ SendCode(TRUE)
    \/ Current /\ Readable /\ ConfirmCode(token.code)

\* Whoever fills in the form does not give up, and the server answers.
ServerAnswers == Challenged \/ CodeSent \/ Confirmed \/ CallRefused

FairEmailSpec == EmailSpec /\ SF_emailVars(Persist) /\ WF_emailVars(ServerAnswers)
-----------------------------------------------------------------------------
\* An address is confirmed only by a code that was issued for it: not by one
\* issued for the address typed before it, nor by an earlier or a lost one's
\* token, whatever is typed and however often codes are sent again.
ConfirmedByItsCode == confirmed \subseteq issued

\* Where the component has no button that leads on.
DeadEnd == stage = "done" \/ (stage = "captcha" /\ captcha = "expired")

\* Somebody who reads the mail of the address given, or is shown the codes,
\* gets it verified in the end, whatever was lost or has expired on the way, or
\* comes to a dead end or to the bound on codes.
ReaderIsVerified ==
    ((email \in Owned \/ ~smtp) /\ edits = MaxEdits) ~>
        (emailVerified \/ DeadEnd \/ codes = MaxCodes)
=============================================================================
