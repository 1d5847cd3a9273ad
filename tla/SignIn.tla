--------------------------------- MODULE SignIn ---------------------------------
(***************************************************************************)
(* Who signs people in.  The mode of an installation is chosen once, into  *)
(* a file that is created and then written; a boot of Axis reads from it,  *)
(* from its own store of accounts and from whether the sidecar's socket    *)
(* is there, which of three authorities it will serve under: "open" (the   *)
(* single user), "sidecar", or "local" (its own, older, store).            *)
(*                                                                         *)
(* Abstracted: passwords, cookies, the rate limit; the sidecar is external *)
(* and its accounts are a set.                                             *)
(***************************************************************************)
EXTENDS Integers

CONSTANTS
  Chooser,    \* runs of `stellarc setup --auth`
  MaxStarts   \* bound: boots

ASSUME SignInAssumption == MaxStarts \in Nat /\ "axis" \notin Chooser

VARIABLES
  modeFile,   \* "absent", "torn", "authenticated", "single-user"
  accounts,   \* stores that hold an account, of "local" and "sidecar"
  socket,     \* whether auth.sock exists
  boot,       \* how far Axis is: "down", "read", "choosing", "loaded", "bootstrapped", "up"
  claimed,    \* legacy_users_exist, as the boot read it
  loaded,     \* the mode, as the boot read it
  authority,  \* under which Axis serves
  choosing,   \* [Chooser \cup {"axis"} -> the mode that is being written, or "-"]
  starts,
  first,      \* history: the authority that was first served under
  reclaimed   \* history: a local account was bootstrapped beside a sidecar

signInVars == <<modeFile, accounts, socket, boot, claimed, loaded, authority, choosing,
                starts, first, reclaimed>>

Mode == {"authenticated", "single-user"}

-----------------------------------------------------------------------------
(***************************************************************************)
(* AuthModeStore::choose: the file is created, which fails when there is   *)
(* one, and then written.  A writer that dies in between leaves it torn.   *)
(***************************************************************************)
Create(w, mode) ==
  /\ choosing[w] = "-" /\ modeFile = "absent"
  /\ modeFile' = "torn" /\ choosing' = [choosing EXCEPT ![w] = mode]

Choose(c, mode) ==
  /\ Create(c, mode)
  /\ UNCHANGED <<accounts, socket, boot, claimed, loaded, authority, starts, first, reclaimed>>
Written(c) ==
  /\ choosing[c] # "-"
  /\ modeFile' = choosing[c] /\ choosing' = [choosing EXCEPT ![c] = "-"]
  /\ UNCHANGED <<accounts, socket, boot, claimed, loaded, authority, starts, first, reclaimed>>
ChooserDies(c) ==
  /\ choosing[c] # "-" /\ choosing' = [choosing EXCEPT ![c] = "-"]
  /\ UNCHANGED <<modeFile, accounts, socket, boot, claimed, loaded, authority, starts,
                 first, reclaimed>>

-----------------------------------------------------------------------------
(***************************************************************************)
(* A boot.                                                                 *)
(***************************************************************************)
Start ==
  /\ boot = "down" /\ starts < MaxStarts
  /\ boot' = "read" /\ starts' = starts + 1
  /\ claimed' = ("local" \in accounts)
  /\ UNCHANGED <<modeFile, accounts, socket, loaded, authority, choosing, first, reclaimed>>

Fails == boot' = "down" /\ UNCHANGED <<loaded, choosing, modeFile>>

\* AuthModeStore::load; an installation with accounts is authenticated, and
\* otherwise the terminal is asked, if there is one.
LoadMode ==
  /\ boot = "read"
  /\ \/ modeFile \in Mode
        /\ boot' = "loaded" /\ loaded' = modeFile /\ UNCHANGED <<choosing, modeFile>>
     \/ modeFile = "torn" /\ Fails
     \/ modeFile = "absent" /\ ~claimed /\ Fails
     \/ \E mode \in IF claimed THEN {"authenticated"} ELSE Mode :
          Create("axis", mode) /\ boot' = "choosing" /\ loaded' = mode
  /\ UNCHANGED <<accounts, socket, claimed, authority, starts, first, reclaimed>>
\* The file may have been created by another between the two.
ChooseFails ==
  /\ boot = "read" /\ modeFile # "absent" /\ Fails
  /\ UNCHANGED <<accounts, socket, claimed, authority, starts, first, reclaimed>>
ModeWritten ==
  /\ boot = "choosing" /\ boot' = "loaded"
  /\ modeFile' = choosing["axis"] /\ choosing' = [choosing EXCEPT !["axis"] = "-"]
  /\ UNCHANGED <<accounts, socket, claimed, loaded, authority, starts, first, reclaimed>>

\* bootstrap_admin, from STELLARC_ADMIN_USERNAME and _PASSWORD, if they are set
Bootstrap(given) ==
  /\ boot = "loaded" /\ boot' = "bootstrapped"
  /\ accounts' = IF given THEN accounts \cup {"local"} ELSE accounts
  /\ reclaimed' = (reclaimed \/ (given /\ first = "sidecar"))
  /\ UNCHANGED <<modeFile, socket, claimed, loaded, authority, choosing, starts, first>>

\* Fault: without the sidecar's socket its own store is asked.
AuthorityFallback == IF loaded = "single-user" THEN "open"
                     ELSE IF claimed \/ ~socket THEN "local" ELSE "sidecar"
Authority == IF loaded = "single-user" THEN "open"
             ELSE IF claimed THEN "local"
             ELSE IF socket THEN "sidecar" ELSE "none"

Serve ==
  /\ boot = "bootstrapped"
  /\ IF Authority = "none"
     THEN boot' = "down" /\ UNCHANGED <<authority, first>>
     ELSE /\ boot' = "up" /\ authority' = Authority
          /\ first' = IF first = "none" THEN Authority ELSE first
  /\ reclaimed' = (reclaimed \/ (Authority = "sidecar" /\ "local" \in accounts))
  /\ UNCHANGED <<modeFile, accounts, socket, claimed, loaded, choosing, starts>>

\* Axis stops or dies, wherever it is.
Stop ==
  /\ boot # "down" /\ boot' = "down"
  /\ choosing' = [choosing EXCEPT !["axis"] = "-"]
  /\ UNCHANGED <<modeFile, accounts, socket, claimed, loaded, authority, starts, first, reclaimed>>

-----------------------------------------------------------------------------
\* POST /api/auth/register: with the sidecar it is the sidecar's; else the first account of the
\* store, in single-user mode as well.
RegisterUser ==
  /\ boot = "up"
  /\ accounts' = accounts \cup {IF authority = "sidecar" THEN "sidecar" ELSE "local"}
  /\ UNCHANGED <<modeFile, socket, boot, claimed, loaded, authority, choosing, starts,
                 first, reclaimed>>

\* The sidecar comes and goes; external.
Sidecar ==
  /\ socket' = ~socket
  /\ UNCHANGED <<modeFile, accounts, boot, claimed, loaded, authority, choosing, starts,
                 first, reclaimed>>

-----------------------------------------------------------------------------
SignInInit ==
  /\ modeFile = "absent" /\ accounts \in {{}, {"local"}} /\ socket = FALSE
  /\ boot = "down" /\ claimed = FALSE /\ loaded = "authenticated" /\ authority = "none"
  /\ choosing = [w \in Chooser \cup {"axis"} |-> "-"]
  /\ starts = 0 /\ first = "none" /\ reclaimed = FALSE

SignInNext ==
  \/ \E c \in Chooser :
       \/ \E mode \in Mode : Choose(c, mode)
       \/ Written(c) \/ ChooserDies(c)
  \/ Start \/ LoadMode \/ ChooseFails \/ ModeWritten \/ Serve \/ Stop \/ RegisterUser \/ Sidecar
  \/ \E given \in BOOLEAN : Bootstrap(given)

SignInSpec == SignInInit /\ [][SignInNext]_signInVars

-----------------------------------------------------------------------------
(***************************************************************************)
(* Properties.                                                             *)
(***************************************************************************)
(* Every variable has its type. *)
SignInTypeOK ==
  /\ modeFile \in {"absent", "torn"} \cup Mode /\ accounts \subseteq {"local", "sidecar"}
  /\ socket \in BOOLEAN /\ claimed \in BOOLEAN /\ reclaimed \in BOOLEAN
  /\ boot \in {"down", "read", "choosing", "loaded", "bootstrapped", "up"} /\ loaded \in Mode
  /\ {authority, first} \subseteq {"none", "open", "sidecar", "local"}
  /\ choosing \in [Chooser \cup {"axis"} -> Mode \cup {"-"}] /\ starts \in 0..MaxStarts

(* Whatever it crashes in, whoever else chooses the mode, and whether the  *)
(* sidecar is there or not, Axis serves under the authority it has first   *)
(* served under, where the accounts are that were registered since; or it  *)
(* does not serve.  The exception: an administrator bootstrapped from the  *)
(* environment beside the sidecar is not served in that boot, and in every *)
(* later one the sidecar's accounts are not.                               *)
AuthorityKept ==
  boot = "up" /\ ~reclaimed => authority = first

=============================================================================
