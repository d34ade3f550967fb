------------------------------- MODULE Access -------------------------------
(***************************************************************************)
(* Programs that change who may do what: access control lists (acl/),      *)
(* capabilities (cap/) and the credentials a command is started with       *)
(* (cap_launcher, cred_launcher, option -X of userns_child_exec).  They    *)
(* are sequential; what matters is the order of their calls and the state  *)
(* they leave when one of the calls fails.                                 *)
(***************************************************************************)
EXTENDS Unix, SequencesExt

-----------------------------------------------------------------------------
(* acl_update.  An ACL is a function from its entries to permissions; "u"  *)
(* and "g" are the entries of one named user and group.  A specification   *)
(* is a tag, whether it has a qualifier, and permissions (-m) or none      *)
(* (-x); "bad" is one that parseEntrySpec rejects.                         *)

Perms == {{"r"}, {"w"}}
Minimal == [USER_OBJ |-> {"r", "w"}, GROUP_OBJ |-> {"r"}] @@ ("OTHER" :> {})
Specs(op) == [tag : {"u", "g", "o", "m"}, qual : BOOLEAN, perms : IF op = "modify" THEN Perms ELSE {{}}]
             \cup {[tag |-> "bad", qual |-> FALSE, perms |-> {}]}

AclInit ==
  \E op \in {"modify", "remove"}, recalc \in BOOLEAN,
     acl \in {Minimal, << >>, Minimal @@ [USER |-> {"w"}, MASK |-> {"r", "w"}]} :   \* << >>: no default ACL
    \E list \in UNION {[1 .. n -> Specs(op)] : n \in 1 .. 2} :
      Start("acl_update", [p |-> "parse"], [op |-> op, recalc |-> recalc, list |-> list, file |-> acl, acl |-> acl, old |-> acl,
                                            en |-> 0])

\* a qualifier makes the entry one of a named user or group; other tags ignore it
parseEntrySpec(e) ==
  CASE e.tag = "u" -> IF e.qual THEN "USER" ELSE "USER_OBJ"
    [] e.tag = "g" -> IF e.qual THEN "GROUP" ELSE "GROUP_OBJ"
    [] e.tag = "o" -> "OTHER"
    [] e.tag = "m" -> "MASK"

\* no file is touched before the whole specification has been parsed
parseACL == Walk("p", "parse", IF \E i \in DOMAIN s.list : s.list[i].tag = "bad" THEN "failed" ELSE "entry")

Without(acl, k) == [e \in DOMAIN acl \ {k} |-> acl[e]]
Named(acl) == DOMAIN acl \cap {"USER", "GROUP"}

\* acl_calc_mask(3): the union of the permissions the mask limits, in an entry it creates if need be
CalcMask(acl) ==
  ("MASK" :> UNION {acl[e] : e \in DOMAIN acl \cap {"USER", "GROUP", "GROUP_OBJ"}}) @@ acl

\* acl_valid(3)
Valid(acl) == {"USER_OBJ", "GROUP_OBJ", "OTHER"} \subseteq DOMAIN acl /\ (Named(acl) # {} => "MASK" \in DOMAIN acl)

\* one entry: found and deleted, or found or created and given its permissions
Updated(e, acl) ==
  LET k   == parseEntrySpec(e)
      new == IF s.op = "remove" THEN Without(acl, k) ELSE (k :> e.perms) @@ acl
  IN  IF s.recalc THEN CalcMask(new) ELSE new

\* the file is set after every entry: an entry that fails leaves the ones before it in place
updateACL ==
  \/ s.en = Len(s.list) /\ Walk("p", "entry", "exit")
  \/ /\ pc["p"] = "entry" /\ s.en < Len(s.list)
     /\ LET new == Updated(s.list[s.en + 1], s.acl)
        IN  \/ ~Valid(new) /\ Walk("p", "entry", "failed")
            \/ Valid(new) /\ Do("p", "entry", "entry", [s EXCEPT !.acl = new, !.file = new, !.en = @ + 1])

acl_update(a) == prog = "acl_update" /\ a = "p" /\ (parseACL \/ updateACL)

-----------------------------------------------------------------------------
(* Credentials: user and group IDs, groups, the sets of capabilities       *)
(* permitted P, effective E, inheritable I, ambient A and bounding B, and  *)
(* the securebits.  s.c are those of the process, s.run those of the       *)
(* command it executes.                                                    *)

Caps == {"x", "y"}
Root(held) == [uid |-> 0, gid |-> 0, groups |-> 0, P |-> held, E |-> held, I |-> {}, A |-> {}, B |-> held, fixup |-> TRUE]

CredInit ==
  \/ \E held \in {Caps, {"x"}}, want \in {<< >>, <<"x">>, <<"y">>, <<"x", "y">>}, amb \in BOOLEAN, user \in {"known", "unknown"} :
       Start("cap_launcher", [p |-> "securebits"], [c |-> Root(held), want |-> want, amb |-> amb, user |-> user, run |-> << >>])
  \/ \E u, g, gs \in BOOLEAN, root \in BOOLEAN :
       Start("cred_launcher", [p |-> "setgroups"], [u |-> u, g |-> g, gs |-> gs, run |-> << >>,
                                                    c |-> IF root THEN Root(Caps) ELSE [Root({}) EXCEPT !.uid = 5]])
  \/ \E sets \in UNION {[1 .. n -> {"P", "E", "I", "B", "A"}] : n \in 1 .. 3}, add, root \in BOOLEAN, i \in SUBSET {"x"} :
       Start("modify_individual_capability", [p |-> "next"],
             [c |-> [Root(IF root THEN {"x"} ELSE {}) EXCEPT !.I = i], add |-> add, sets |-> sets, n |-> 0])
  \/ \E sh \in {"EACCES", "none", "record"}, pw \in {"right", "wrong", "malformed"}, user, may \in BOOLEAN :
       Start("check_password_caps", [p |-> "user"],
             [c |-> [Root({"x"}) EXCEPT !.uid = 5, !.E = {}, !.P = IF may THEN {"x"} ELSE {}], shadow |-> sh, pw |-> pw,
              user |-> user, asked |-> FALSE])

\* setresuid(2) away from root: the capabilities go, unless SECBIT_NO_SETUID_FIXUP is set
setresuid(c, u) == IF c.uid = 0 /\ u # 0 /\ c.fixup THEN [c EXCEPT !.uid = u, !.P = {}, !.E = {}, !.A = {}] ELSE [c EXCEPT !.uid = u]

\* cap_set_proc(3) may raise permitted capabilities never, and the others out of the permitted ones
Settable(c, new) == new.P \subseteq c.P /\ new.E \subseteq new.P /\ new.I \subseteq c.I \cup c.P
Settled(new) == [new EXCEPT !.A = @ \cap new.P \cap new.I]

\* execve(2) of a file without capabilities by a user other than root
Execed(c) == [c EXCEPT !.P = c.A, !.E = c.A]

\* modifyCapSetting: one capability in one set
modifyCapSetting(c, flag, cap, add) ==
  IF add THEN [c EXCEPT ![flag] = @ \cup {cap}] ELSE [c EXCEPT ![flag] = @ \ {cap}]

\* raiseCap: inheritable before ambient
raiseCap ==
  LET cap == Head(s.want)
      new == modifyCapSetting(s.c, "I", cap, TRUE)
  IN  \/ /\ Settable(s.c, new) /\ (s.amb => cap \in new.P)
         /\ Do("p", "raise", "raise", [s EXCEPT !.want = Tail(@), !.c = IF s.amb THEN [new EXCEPT !.A = @ \cup {cap}] ELSE new])
      \/ ~(Settable(s.c, new) /\ (s.amb => cap \in new.P)) /\ Walk("p", "raise", "failed")

\* setCredentials: groups, group ID and user ID, with the securebits set before
Launch ==
  \/ Do("p", "securebits", "groups", [s EXCEPT !.c.fixup = FALSE])
  \/ s.user = "unknown" /\ Walk("p", "groups", "failed")
  \/ s.user = "known" /\ Do("p", "groups", "uid", [s EXCEPT !.c.groups = 5, !.c.gid = 5])
  \/ Do("p", "uid", "raise", [s EXCEPT !.c = setresuid(@, 5)])

cap_launcher(a) ==
  /\ prog = "cap_launcher" /\ a = "p"
  /\ Launch \/ (s.want # << >> /\ raiseCap) \/ (s.want = << >> /\ Do("p", "raise", "exit", [s EXCEPT !.run = Execed(s.c)]))

\* each ID only if it is asked for; only root may
cred_launcher(a) ==
  LET set(from, to, asked, new) == \/ ~asked /\ Walk("p", from, to)
                                   \/ asked /\ s.c.uid = 0 /\ Do("p", from, to, [s EXCEPT !.c = new])
                                   \/ asked /\ s.c.uid # 0 /\ Walk("p", from, "failed")
  IN  /\ prog = "cred_launcher" /\ a = "p"
      /\ \/ set("setgroups", "setresgid", s.gs, [s.c EXCEPT !.groups = 7])
         \/ set("setresgid", "setresuid", s.g, [s.c EXCEPT !.gid = 7])
         \/ set("setresuid", "exec", s.u, setresuid(s.c, 7))
         \/ Do("p", "exec", "exit", [s EXCEPT !.run = s.c])

\* the sets one after the other, as they are listed; the first that fails ends the program
modify_individual_capability(a) ==
  LET f   == s.sets[s.n + 1]
      new == modifyCapSetting(s.c, f, "x", s.add)
      ok  == CASE f \in {"P", "E", "I"} -> Settable(s.c, new)
               [] f = "B"               -> ~s.add /\ s.c.E # {}
               [] f = "A"               -> s.add => "x" \in s.c.P \cap s.c.I
  IN  /\ prog = "modify_individual_capability" /\ a = "p"
      /\ \/ s.n = Len(s.sets) /\ Walk("p", "next", "exit")
         \/ s.n < Len(s.sets) /\ ok /\ Do("p", "next", "next", [s EXCEPT !.c = Settled(new), !.n = @ + 1])
         \/ s.n < Len(s.sets) /\ ~ok /\ Walk("p", "next", "failed")

\* the capability is raised for the one call that needs it, then all are dropped for good
check_password_caps(a) ==
  LET raised == modifyCapSetting(s.c, "E", "x", TRUE)
  IN  /\ prog = "check_password_caps" /\ a = "p"
      /\ \/ Walk("p", "user", IF s.user THEN "raise" ELSE "failed")
         \/ Settable(s.c, raised) /\ Do("p", "raise", "shadow", [s EXCEPT !.c = raised])
         \/ ~Settable(s.c, raised) /\ Walk("p", "raise", "failed")
         \/ Walk("p", "shadow", IF s.shadow = "EACCES" THEN "failed" ELSE "drop")
         \/ Do("p", "drop", "password", [s EXCEPT !.c.P = {}, !.c.E = {}, !.c.I = {}])
         \/ Do("p", "password", "crypt", [s EXCEPT !.asked = TRUE])
         \/ Walk("p", "crypt", IF s.pw = "right" THEN "exit" ELSE "failed")

-----------------------------------------------------------------------------
Init == AclInit \/ CredInit

Step(a) == \/ acl_update(a) \/ cap_launcher(a) \/ cred_launcher(a) \/ modify_individual_capability(a)
           \/ check_password_caps(a)

MustEnd == {"acl_update", "cap_launcher", "cred_launcher", "modify_individual_capability", "check_password_caps"}
Programs == MustEnd

\* what acl_update leaves is valid; all entries took effect, or those before the one that failed; the
\* mask it recalculates gives named users and groups what they were given and no more, whatever mask was asked for
AclSettled ==
  prog = "acl_update" =>
    LET key(i)  == parseEntrySpec(s.list[i])
        last(i) == \A j \in i + 1 .. s.en : key(j) # key(i)
    IN  /\ s.file = s.old \/ Valid(s.file)
        /\ s.en = 0 => s.file = s.old
        /\ s.en > 0 /\ s.recalc =>
             s.file["MASK"] = UNION {s.file[e] : e \in DOMAIN s.file \cap {"USER", "GROUP", "GROUP_OBJ"}}
        /\ \A i \in 1 .. s.en : last(i) /\ ~(s.recalc /\ key(i) = "MASK") =>
             IF s.op = "modify" THEN s.file[key(i)] = s.list[i].perms ELSE key(i) \notin DOMAIN s.file
        /\ pc["p"] = "exit" => s.en = Len(s.list)

\* a command runs with the IDs and the capabilities it is to have, and no others
LaunchedAs ==
  /\ prog = "cap_launcher" /\ pc["p"] = "exit" =>
       /\ s.run.uid = 5 /\ s.run.gid = 5 /\ s.run.groups = 5
       /\ s.run.P = s.run.A /\ s.run.A = IF s.amb THEN s.run.I ELSE {}
  /\ prog = "cap_launcher" /\ pc["p"] = "failed" => s.user = "unknown" \/ (s.want # << >> /\ s.want[1] \notin s.c.B)
  /\ prog = "cred_launcher" => /\ pc["p"] = "exit" => (s.u => s.run.uid = 7) /\ (s.g => s.run.gid = 7) /\ (s.gs => s.run.groups = 7)
                               /\ pc["p"] = "failed" => s.c.uid = 5

\* the sets stay consistent, and the password is asked for when no capability is left
CapsConsistent ==
  /\ prog = "modify_individual_capability" =>
       /\ s.c.E \subseteq s.c.P /\ s.c.A \subseteq s.c.P \cap s.c.I
       /\ pc["p"] = "exit" => \A i \in DOMAIN s.sets : "x" \in s.c[s.sets[i]] => s.add
  /\ prog = "check_password_caps" => /\ s.asked => s.c.P \cup s.c.E \cup s.c.I = {}
                                     /\ pc["p"] = "exit" => s.asked /\ s.pw = "right"

Safe == AclSettled /\ LaunchedAs /\ CapsConsistent
=============================================================================
