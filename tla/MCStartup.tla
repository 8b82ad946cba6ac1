------------------------------ MODULE MCStartup ------------------------------
EXTENDS Startup

Make(what)     == [does |-> "create", object |-> what, from |-> ""]
Add(what)      == [does |-> "column", object |-> what, from |-> ""]
Build(what)    == [does |-> "build", object |-> what, from |-> ""]
Copy(new, what) == [does |-> "copy", object |-> new, from |-> what]
Drop(what)     == [does |-> "drop", object |-> what, from |-> ""]
Rename(new, what) == [does |-> "rename", object |-> what, from |-> new]

\* The shapes the migrations have: tables only (001, 009), a column and then tables
\* (013), a table rebuilt under its name (010, 011), several columns (021).
MCScripts ==
  << <<Make("nodes"), Make("overrides")>>,
     <<Make("groups"), Build("overrides_new"), Copy("overrides_new", "overrides"),
       Drop("overrides"), Rename("overrides_new", "overrides")>>,
     <<Add("firewall_status"), Make("security_events")>>,
     <<Add("failed_login_count"), Add("locked_until")>> >>
=============================================================================
