----------------------------- MODULE RestRoutes ------------------------------
(***************************************************************************)
(* The REST handlers that reach a cluster (src/api/), as tables: how the   *)
(* router serves each, what it checks, which method of ProxmoxClient it    *)
(* calls and how it reports.  Fields of requests and answers are left out. *)
(* The console routes are VncConsole's, login and accounts are Sessions';  *)
(* the audit, 2FA and custom-dashboard routes call no cluster.             *)
(***************************************************************************)
-----------------------------------------------------------------------------
(* The client's methods, by what they send to the cluster.                 *)

primitives == [get |-> "GET", post |-> "POST", post_with_query |-> "POST"]

vm_calls ==
  [delete_vm |-> "POST", vm_config |-> "GET", task_status |-> "GET",
   list_vms |-> "GET", list_lxcs |-> "GET"]

node_calls ==
  [lxc_detail |-> "GET", list_storages |-> "GET", storage_content |-> "GET",
   list_networks |-> "GET", migrate_vm |-> "POST"]

group_calls ==
  [list_ha_groups |-> "GET", create_ha_group |-> "POST",
   delete_ha_group |-> "POST"]

replication_calls ==
  [list_replication_jobs |-> "GET", create_replication_job |-> "POST",
   delete_replication_job |-> "POST", get_replication_status |-> "GET"]

vm_write_calls ==
  [create_vm |-> "POST", clone_vm |-> "POST", update_vm_config |-> "POST",
   list_snapshots |-> "GET", create_snapshot |-> "POST",
   delete_snapshot |-> "POST", rollback_snapshot |-> "POST",
   backup_vm |-> "POST"]

\* list_backups: list_storages, then storage_content of each; a storage whose
\* content cannot be listed is skipped.
container_calls ==
  [list_backups |-> "GET", lxc_action |-> "POST", lxc_delete |-> "POST",
   upload_file |-> "POST", delete_storage_content |-> "POST",
   resize_disk |-> "POST"]

client_calls ==
  {primitives, vm_calls, node_calls, group_calls, replication_calls,
   vm_write_calls, container_calls}

Sends(call) == (CHOOSE table \in client_calls : call \in DOMAIN table)[call]

-----------------------------------------------------------------------------
(* The handlers.  `role` is the role they demand; `shape` how many calls   *)
(* they make and what they report:                                         *)
(*   one     one call, to the cluster of the path; its error is the answer *)
(*   bulk    one call per item of the body, side by side; a row for each   *)
(*   all     one call per configured cluster; failures go to `errors`      *)
(*   silent  the same, failures only logged                                *)
(*   mine    one per cluster of clients_for_user; a row for each           *)
(* `faults` are the refusals of their own: an unknown action, a body that  *)
(* fails the handler's checks, an object the cluster does not list.        *)

Read(call) == [role |-> "viewer", shape |-> "one", call |-> call, faults |-> {}]

Operate(call) ==
  [role |-> "operator", shape |-> "one", call |-> call, faults |-> {}]

Bulk(call) ==
  [role |-> "operator", shape |-> "bulk", call |-> call, faults |-> {}]

Aggregate(shape, call) ==
  [role |-> "viewer", shape |-> shape, call |-> call, faults |-> {}]

MayFail(row, fault) == [row EXCEPT !.faults = {fault}]

vm_reads ==
  [list_vms |-> Aggregate("all", "list_vms"),
   vm_detail |-> MayFail(Read("list_vms"), "absent"),
   vm_config_handler |-> Read("vm_config")]

\* vm_action_handler dispatches to vm_action (a plain post), to vm_delete, or
\* refuses the action; its delete branch has a row of its own.
vm_actions ==
  [vm_action_handler |-> MayFail(Operate("post"), "action"),
   vm_delete |-> Operate("delete_vm"),
   migrate_vm_handler |-> Operate("migrate_vm")]

vm_bulk ==
  [bulk_start |-> Bulk("post"), bulk_stop |-> Bulk("post"),
   bulk_reboot |-> Bulk("post"), bulk_delete |-> Bulk("delete_vm")]

vm_changes ==
  [create_vm_handler |-> Operate("create_vm"),
   clone_vm_handler |-> Operate("clone_vm"),
   update_vm_config_handler |-> Operate("update_vm_config"),
   list_snapshots_handler |-> Operate("list_snapshots"),
   create_snapshot_handler |-> Operate("create_snapshot")]

vm_snapshots ==
  [delete_snapshot_handler |-> Operate("delete_snapshot"),
   rollback_snapshot_handler |-> Operate("rollback_snapshot"),
   backup_vm_handler |-> Operate("backup_vm"),
   list_backups_handler |-> Operate("list_backups"),
   resize_disk_handler |-> Operate("resize_disk")]

vm_extras ==
  [vm_template_handler |-> Operate("post"),
   vm_sendkey_handler |-> Operate("post_with_query"),
   vm_rrddata_handler |-> Read("get")]

lxc_handlers ==
  [list_lxcs |-> Aggregate("all", "list_lxcs"),
   lxc_detail |-> MayFail(Read("lxc_detail"), "absent"),
   lxc_action_handler |-> MayFail(Operate("lxc_action"), "action"),
   lxc_delete_handler |-> Operate("lxc_delete")]

\* Mutant: the configuration of a container is changed without a role check.
lxc_config_unchecked ==
  [lxc_create_handler |-> Operate("post_with_query"),
   lxc_config_handler |-> Read("get"),
   lxc_update_config_handler |-> Read("post_with_query")]

lxc_config ==
  [lxc_create_handler |-> Operate("post_with_query"),
   lxc_config_handler |-> Read("get"),
   lxc_update_config_handler |-> Operate("post_with_query")]

replication_handlers ==
  [list_replication_jobs |-> Aggregate("all", "list_replication_jobs"),
   create_replication_job |-> Operate("create_replication_job"),
   delete_replication_job |-> Operate("delete_replication_job"),
   get_replication_status |-> Read("get_replication_status")]

hagroup_handlers ==
  [list_ha_groups |-> Aggregate("all", "list_ha_groups"),
   create_ha_group |-> Operate("create_ha_group"),
   delete_ha_group |-> Operate("delete_ha_group"),
   ha_status |-> Aggregate("all", "get")]

network_reads ==
  [list_networks |-> Aggregate("all", "get"),
   node_networks |-> Read("list_networks"),
   list_vlans |-> Aggregate("all", "get")]

network_changes ==
  [network_config_update_handler |-> Operate("post_with_query"),
   network_config_apply_handler |-> Operate("post_with_query")]

storage_handlers ==
  [list_storages |-> Aggregate("all", "get"),
   storage_content |-> Read("storage_content"),
   storage_upload_handler |-> MayFail(Operate("upload_file"), "body"),
   delete_storage_content_handler |-> Operate("delete_storage_content")]

task_handlers ==
  [task_status |-> Read("task_status"), task_log |-> Read("get"),
   task_delete |-> Operate("post_with_query")]

\* collect_aggregated.
cluster_handlers ==
  [cluster_status |-> Aggregate("silent", "get"),
   cluster_config |-> Aggregate("silent", "get"),
   cluster_options |-> Aggregate("silent", "get"),
   cluster_log |-> Aggregate("silent", "get"),
   cluster_tasks |-> Aggregate("silent", "get")]

ceph_handlers ==
  [ceph_status |-> Aggregate("all", "get"), ceph_pools |-> Aggregate("all", "get")]

sdn_handlers ==
  [sdn_zones |-> Aggregate("all", "get"), sdn_vnets |-> Aggregate("all", "get")]

firewall_handlers == [firewall_rules |-> Aggregate("all", "get")]

\* collect_cluster_dashboard asks for the version, then for resources and
\* storages; the row says unreachable when any of the three fails.
dashboard_handlers == [dashboard |-> Aggregate("mine", "get")]

handlers ==
  {vm_reads, vm_actions, vm_bulk, vm_changes, vm_snapshots, vm_extras,
   lxc_handlers, lxc_config, replication_handlers, hagroup_handlers,
   network_reads, network_changes, storage_handlers, task_handlers,
   cluster_handlers, ceph_handlers, sdn_handlers, firewall_handlers,
   dashboard_handlers}

-----------------------------------------------------------------------------
(* The router: the routes that reach a cluster, with their methods.        *)

protected ==
  [dashboard |-> "GET", list_vms |-> "GET", bulk_start |-> "POST",
   bulk_stop |-> "POST", bulk_reboot |-> "POST", bulk_delete |-> "POST",
   list_lxcs |-> "GET", list_storages |-> "GET", list_networks |-> "GET",
   list_ha_groups |-> "GET", create_ha_group |-> "POST",
   delete_ha_group |-> "DELETE", list_replication_jobs |-> "GET",
   ceph_status |-> "GET", ceph_pools |-> "GET", firewall_rules |-> "GET",
   sdn_zones |-> "GET", sdn_vnets |-> "GET", ha_status |-> "GET",
   list_vlans |-> "GET", cluster_status |-> "GET", cluster_config |-> "GET",
   cluster_options |-> "GET", cluster_log |-> "GET", cluster_tasks |-> "GET"]

cluster_scoped ==
  [vm_detail |-> "GET", vm_action_handler |-> "POST", vm_delete |-> "POST",
   migrate_vm_handler |-> "POST", create_vm_handler |-> "POST",
   clone_vm_handler |-> "POST", vm_config_handler |-> "GET",
   update_vm_config_handler |-> "PUT", list_snapshots_handler |-> "GET",
   create_snapshot_handler |-> "POST", delete_snapshot_handler |-> "DELETE",
   rollback_snapshot_handler |-> "POST", backup_vm_handler |-> "POST",
   list_backups_handler |-> "GET", resize_disk_handler |-> "POST",
   lxc_detail |-> "GET", lxc_action_handler |-> "POST",
   lxc_delete_handler |-> "POST", storage_content |-> "GET",
   storage_upload_handler |-> "POST",
   delete_storage_content_handler |-> "DELETE", node_networks |-> "GET",
   task_status |-> "GET", create_replication_job |-> "POST",
   delete_replication_job |-> "DELETE", get_replication_status |-> "GET",
   vm_template_handler |-> "POST", vm_sendkey_handler |-> "POST",
   vm_rrddata_handler |-> "GET", task_log |-> "GET", task_delete |-> "POST",
   lxc_create_handler |-> "POST", lxc_config_handler |-> "GET",
   lxc_update_config_handler |-> "PUT",
   network_config_update_handler |-> "PUT",
   network_config_apply_handler |-> "POST"]

\* The routes of one router that a table of handlers serves.
Served(router, scoped, table) ==
  {[method |-> router[h], scoped |-> scoped, role |-> table[h].role,
    shape |-> table[h].shape, sends |-> Sends(table[h].call),
    faults |-> table[h].faults] : h \in DOMAIN router \cap DOMAIN table}

Routes ==
  UNION {Served(protected, FALSE, table) \cup Served(cluster_scoped, TRUE, table)
           : table \in handlers}

\* Every route has its handler, and every handler its route.
ASSUME RoutesAssumption ==
  /\ DOMAIN protected \cap DOMAIN cluster_scoped = {}
  /\ DOMAIN protected \cup DOMAIN cluster_scoped
       = UNION {DOMAIN table : table \in handlers}
=============================================================================
