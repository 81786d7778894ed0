-------------------------- MODULE MCNdbReconciler --------------------------
(***************************************************************************)
(* Instances of NdbReconciler for TLC.                                     *)
(***************************************************************************)
EXTENDS NdbReconciler

\* One update of any kind: each workload's template alone, all of them (a new
\* version of config.ini), none (a change only the annotations show), online
\* add of node groups, scaling the MySQL Servers, a new TDE secret, a new root
\* host with and without a new template.
AnyChange == {{}, {"mgmd"}, {"ndbmtd"}, {"mysqld"}, Workloads, {"addnode"}, {"scaleup"},
              {"scaledown"}, {"tde"}, {"roothost"}, {"mysqld", "roothost"}}

\* The updates that can follow one another in any order: a management or MySQL
\* Server template alone is one of the three of a new config.ini.
SuccessiveChanges == AnyChange \ {{"mgmd"}, {"mysqld", "roothost"}}

\* The updates that take more than a rollout: node groups are created, pods
\* are removed, data nodes are restarted twice, the root user is renamed; and
\* one of the management nodes' template, which may repair it.
LiveChanges == {{"addnode"}, {"scaledown"}, {"tde"}, {"roothost"}, {"mgmd"}}

\* A new version of config.ini.
ConfigChange == {Workloads}

\* Data nodes are added.
AddNodes == {{"addnode"}}

\* The MySQL Servers or the management nodes change.
ServersThenManagement == {{"mysqld"}, {"mgmd"}}

\* The data nodes are restarted, or a MySQL Server is added.
RestartThenScaleUp == {{"ndbmtd"}, {"scaleup"}}

\* A new template and a new root host in one update.
TemplateAndRootHost == {{"mysqld", "roothost"}}

\* The root host changes, and changes back to what it was.
RootHostBack == {{"roothost"}, {"oldhost"}}
=============================================================================
