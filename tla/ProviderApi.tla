---------------------------- MODULE ProviderApi ----------------------------
(***************************************************************************)
(* The methods of the provider (virtdeck/provider): each is one request to *)
(* the server, which reads, or changes something before it answers, or     *)
(* starts a task and answers with its UPID.                                *)
(***************************************************************************)
VmAPI ==
    [list_qemu |-> "read", list_lxc |-> "read", get_status |-> "read", start |-> "task",
     stop |-> "task", reboot |-> "task", shutdown |-> "task", suspend |-> "task",
     resume |-> "task", perform_action |-> "task", get_config |-> "read",
     update_config |-> "change", post_config |-> "task", resize_disk |-> "task",
     move_disk |-> "task", create_qemu |-> "task", create_lxc |-> "task",
     delete |-> "task", clone |-> "task", migrate |-> "task",
     convert_to_template |-> "task", list_snapshots |-> "read",
     get_snapshot_config |-> "read", create_snapshot |-> "task",
     delete_snapshot |-> "task", rollback_snapshot |-> "task",
     get_vnc_proxy |-> "task", get_spice_proxy |-> "task", get_vnc_websocket |-> "read"]

ClusterAPI ==
    [list_resources |-> "read", get_status |-> "read", get_config_nodes |-> "read",
     next_vmid |-> "read", list_storage_configs |-> "read", get_storage_config |-> "read",
     create_storage |-> "change", update_storage |-> "change", delete_storage |-> "change",
     get_join_info |-> "read", create_cluster |-> "task", join_cluster |-> "task",
     list_ha_groups |-> "read", list_ha_resources |-> "read",
     add_ha_resource |-> "change", delete_ha_resource |-> "change",
     list_backup_jobs |-> "read", list_jobs |-> "read"]

StorageAPI ==
    [list_content |-> "read", delete_content |-> "task", move_content |-> "task",
     download_url |-> "task", upload_file |-> "task"]

NodeAPI ==
    [list |-> "read", get_status |-> "read", get_version |-> "read", list_storage |-> "read",
     create_network |-> "change", update_network |-> "change", delete_network |-> "change",
     apply_network |-> "task", revert_network |-> "change", backup_vzdump |-> "task"]

AccessAPI ==
    [list_users |-> "read", create_user |-> "change", update_user |-> "change",
     delete_user |-> "change", list_tokens |-> "read", create_token |-> "change",
     update_token |-> "change", delete_token |-> "change", list_groups |-> "read",
     create_group |-> "change", update_group |-> "change", delete_group |-> "change",
     list_roles |-> "read", create_role |-> "change", update_role |-> "change",
     delete_role |-> "change", list_acl |-> "read", update_acl |-> "change"]

TaskAPI == [list |-> "read", list_for_vm |-> "read", get_status |-> "read"]
RrdAPI == [get_vm_rrddata |-> "read", get_node_rrddata |-> "read", get_storage_rrddata |-> "read"]

(* PbsClient; requests made without a provider; what is done on this        *)
(* machine.                                                                 *)
PbsClient ==
    [login |-> "read", datastores |-> "read", datastore_status |-> "read",
     namespaces |-> "read", snapshots |-> "read", jobs |-> "read", run_job |-> "task",
     verify_datastore |-> "task", forget_snapshot |-> "change"]
Http == [get |-> "read", post |-> "change", put |-> "change"]
Local == [write_file |-> "change", remote_viewer |-> "change"]
=============================================================================
